-------------------------- MODULE RankBroadcastProofs --------------------------
(***************************************************************************)
(* Proofs about RankBroadcast, for any number of ranks, any requests and   *)
(* both loops, as long as no subscription comes late and no subscriber     *)
(* falls behind by as many messages as its socket holds.                   *)
(***************************************************************************)
EXTENDS RankBroadcast, FiniteSetTheorems, NaturalsInduction, SequenceTheorems, TLAPS

\* s is what follows the first n elements of q, up to the m-th
Slice(q, s, n, m) ==
  /\ m = n + Len(s) /\ m <= Len(q)
  /\ \A i \in 1..Len(s) : s[i] = q[n + i]

Distinct(s) == \A i, j \in DOMAIN s : s[i] = s[j] => i = j

Bit(P) == IF P THEN 1 ELSE 0

-----------------------------------------------------------------------------
(* The one history of iterations that all ranks go through: after each, the  *)
(* batches the requests will still be in, the number of batches launched,    *)
(* the batch of the iteration, and how many messages have been handled.      *)

Points == [left : [Reqs -> Nat], launched : Nat, number : Nat, batch : SUBSET Reqs, upto : Nat]

Point == {p \in Points : p.number = 0 <=> p.batch = {}}

Beginning ==
  [left |-> [m \in Reqs |-> 0], launched |-> 0, number |-> 0, batch |-> {}, upto |-> 0]

\* What Handle computes from the messages of an iteration
Now(f, msgs) == [m \in Reqs |-> IF Contains(msgs, m) THEN Work[m] ELSE f[m]]

BatchOf(f, msgs) == {m \in Reqs : Now(f, msgs)[m] > 0}

Less(f, msgs) == [m \in Reqs |-> IF m \in BatchOf(f, msgs) THEN Now(f, msgs)[m] - 1 ELSE 0]

After(p, msgs, u) ==
  IF Contains(msgs, Exit) THEN [p EXCEPT !.upto = u]
  ELSE [left |-> Less(p.left, msgs),
        launched |-> p.launched + Bit(BatchOf(p.left, msgs) # {}),
        number |-> IF BatchOf(p.left, msgs) = {} THEN 0 ELSE p.launched + 1,
        batch |-> BatchOf(p.left, msgs),
        upto |-> u]

\* An iteration from this point on begins with waiting for a message
Waits(p) == (\A m \in Reqs : p.left[m] = 0) /\ (Overlap => p.number = 0)

\* No two batches have one number.
Numbered(h) ==
  /\ \A k \in 0..Len(log) : h[k].number <= h[Len(log)].launched
  /\ \A j, k \in 0..Len(log) : h[j].number = h[k].number => h[j].batch = h[k].batch

History(h) ==
  /\ h \in [0..Len(log) -> Point] /\ h[0] = Beginning /\ Numbered(h)
  /\ \A k \in 1..Len(log) :
       /\ Slice(arrived, log[k], h[k - 1].upto, h[k].upto)
       /\ Waits(h[k - 1]) => h[k].upto > h[k - 1].upto
       /\ h[k] = After(h[k - 1], log[k], h[k].upto)
  /\ h[Len(log)].upto = taken

-----------------------------------------------------------------------------
(* Where a rank is in this history. *)

Batch == [number : Nat, reqs : Seq(Reqs)]

TypeOK ==
  /\ inbox \in Seq(Msgs) /\ joined \subseteq Others
  /\ sub \in [Others -> Seq(Msgs)] /\ counts \in [Others -> Seq(Nat)]
  /\ pc \in [Ranks -> {"start", "poll", "publish", "count", "take", "handle", "process",
                       "stopping", "stopped"}]
  /\ raw \in Seq(Msgs)
  /\ pending \in [Ranks -> Seq(Msgs)] /\ want \in [Ranks -> Nat]
  /\ left \in [Ranks -> [Reqs -> Nat]]
  /\ last \in [Ranks -> Batch] /\ ongoing \in [Ranks -> Batch]
  /\ launched \in [Ranks -> Nat]
  /\ replies \in [Reqs -> Nat]
  /\ arrived \in Seq(Msgs) /\ taken \in Nat
  /\ log \in Seq(Seq(Msgs)) /\ applied \in [Ranks -> Seq(Seq(Msgs))]

Done(r) == Len(applied[r])

\* Rank r has handled the first entries of the log.
Follows(r) == Done(r) <= Len(log) /\ \A k \in 1..Done(r) : applied[r][k] = log[k]

\* x is the batch of the iteration that led to p
IsBatch(x, p) == x.number = p.number /\ ToSet(x.reqs) = p.batch

\* What rank r computes with is what the history says.
Computes(r, h) ==
  /\ left[r] = h[Done(r)].left /\ launched[r] = h[Done(r)].launched
  /\ pc[r] = "process" => Done(r) > 0 /\ IsBatch(ongoing[r], h[Done(r)])
  /\ pc[r] # "process" => ongoing[r] = NoBatch
  /\ IF Overlap THEN IsBatch(last[r], h[Done(r) - Bit(pc[r] = "process")])
                ELSE last[r] = NoBatch

-----------------------------------------------------------------------------
(* The messages of a rank, and its counts. *)

\* Messages off the socket of rank 0, and those of them that are published
Received == Len(arrived) - Len(inbox)
Out == Received - Len(raw)

\* The messages rank r has, of those not handled
Got(r, h) == h[Done(r)].upto + Len(pending[r])

Stream(h) ==
  /\ Slice(arrived, inbox, Received, Len(arrived)) /\ Slice(arrived, raw, Out, Received)
  /\ \A r \in Ranks : Slice(arrived, pending[r], h[Done(r)].upto, Got(r, h))
  /\ Got(0, h) = Out
  /\ \A r \in Others : Slice(arrived, sub[r], Got(r, h), Out)

\* Rank 0 collects the messages of an iteration, announces and publishes them.
Leads(h) ==
  /\ Len(log) = Done(0) + Bit(pc[0] \in {"publish", "handle"})
  /\ pc[0] \notin {"count", "take"}
  /\ pc[0] # "poll" => Received = taken
  /\ pc[0] \notin {"poll", "publish"} => raw = << >>
  /\ pc[0] \notin {"poll", "publish", "handle"} => pending[0] = << >>
  /\ pc[0] = "poll" => Len(pending[0]) = Bit(Waits(h[Done(0)]))

\* The number broadcast for iteration k
Announced(h, k) == h[k].upto - h[k - 1].upto - Bit(Waits(h[k - 1]))

\* The iterations whose number another rank has taken
Told(r) == Done(r) + Bit(pc[r] \in {"take", "handle"})

\* Another rank takes as many messages.
Obeys(r, h) ==
  /\ Told(r) + Len(counts[r]) = Len(log)
  /\ \A i \in 1..Len(counts[r]) : counts[r][i] = Announced(h, Told(r) + i)
  /\ pc[r] \notin {"poll", "publish"}
  /\ pc[r] \notin {"count", "take", "handle"} => pending[r] = << >>
  /\ pc[r] = "count" => Len(pending[r]) = Bit(Waits(h[Done(r)]))
  /\ pc[r] = "take" => Got(r, h) + want[r] = h[Done(r) + 1].upto
  /\ pc[r] = "handle" => Got(r, h) = h[Done(r) + 1].upto

Good(h) ==
  /\ History(h) /\ Stream(h) /\ Leads(h)
  /\ \A r \in Ranks : Follows(r) /\ Computes(r, h)
  /\ \A r \in Others : Obeys(r, h)

Subscribed == arrived # << >> => joined = Others

IInv == TypeOK /\ Subscribed /\ \E h : Good(h)

-----------------------------------------------------------------------------
(* What a rank has handled, and what the detokenizer has got for it. *)

\* Rank r has handled the first so many messages.
Upto(r) == Out - Len(pending[r]) - (IF r = 0 THEN 0 ELSE Len(sub[r]))

Flat(r) ==
  FlattenSeq(applied[r]) \in Seq(Msgs) /\ Slice(arrived, FlattenSeq(applied[r]), 0, Upto(r))

Handled(m) == \E i \in 1..Upto(0) : arrived[i] = m

\* The batches of rank 0 that m has been in, is in and will still be in
Batches(m) ==
  replies[m] + left[0][m] + Bit(m \in ToSet(last[0].reqs)) + Bit(m \in ToSet(ongoing[0].reqs))

Counted(m) == Batches(m) <= IF Handled(m) THEN Work[m] ELSE 0

RInv == Distinct(arrived) /\ (\A r \in Ranks : Flat(r)) /\ \A m \in Reqs : Counted(m)

-----------------------------------------------------------------------------
(* Slices of a sequence. *)

LEMMA SliceEmpty ==
  ASSUME NEW M, NEW q \in Seq(M), NEW n \in 0..Len(q)
  PROVE  Slice(q, << >>, n, n)
BY DEF Slice

LEMMA SliceAppend ==
  ASSUME NEW M, NEW q \in Seq(M), NEW s \in Seq(M), NEW n \in Nat, NEW m \in Nat,
         Slice(q, s, n, m), m < Len(q), NEW x, x = q[m + 1]
  PROVE  Slice(q, Append(s, x), n, m + 1)
<1>1. Len(s) \in Nat /\ Len(q) \in Nat /\ x \in M
  OBVIOUS
<1>2. Len(Append(s, x)) = Len(s) + 1 /\ Append(s, x)[Len(s) + 1] = x
  BY <1>1
<1>3. \A i \in 1..Len(s) : Append(s, x)[i] = s[i]
  BY <1>1
<1>4. m + 1 = n + (Len(s) + 1)
  BY <1>1 DEF Slice
<1> QED
  BY <1>1, <1>2, <1>3, <1>4 DEF Slice

LEMMA SliceTail ==
  ASSUME NEW M, NEW q \in Seq(M), NEW s \in Seq(M), NEW n \in Nat, NEW m \in Nat,
         Slice(q, s, n, m), s # << >>
  PROVE  /\ Slice(q, Tail(s), n + 1, m) /\ Head(s) = q[n + 1] /\ n + 1 <= m
         /\ Head(s) \in M /\ Tail(s) \in Seq(M)
<1>1. Len(s) \in Nat /\ Len(s) > 0 /\ Head(s) = s[1] /\ Head(s) \in M /\ Tail(s) \in Seq(M)
  OBVIOUS
<1>2. Len(Tail(s)) = Len(s) - 1 /\ \A i \in 1..(Len(s) - 1) : Tail(s)[i] = s[i + 1]
  BY <1>1
<1>3. \A i \in 1..(Len(s) - 1) : s[i + 1] = q[n + 1 + i]
  BY <1>1 DEF Slice
<1> QED
  BY <1>1, <1>2, <1>3 DEF Slice

LEMMA SliceJoin ==
  ASSUME NEW M, NEW q \in Seq(M), NEW s \in Seq(M), NEW t \in Seq(M),
         NEW n \in Nat, NEW m \in Nat, NEW k \in Nat, Slice(q, s, n, m), Slice(q, t, m, k)
  PROVE  Slice(q, s \o t, n, k)
<1>1. Len(s) \in Nat /\ Len(t) \in Nat /\ Len(s \o t) = Len(s) + Len(t)
  OBVIOUS
<1>2. ASSUME NEW i \in 1..Len(s \o t) PROVE (s \o t)[i] = q[n + i]
  <2>1. CASE i <= Len(s)
    BY <1>1, <2>1 DEF Slice
  <2>2. CASE i > Len(s)
    <3>1. (s \o t)[i] = t[i - Len(s)] /\ i - Len(s) \in 1..Len(t)
      BY <1>1, <2>2
    <3>2. m + (i - Len(s)) = n + i
      BY <1>1 DEF Slice
    <3> QED
      BY <3>1, <3>2 DEF Slice
  <2> QED
    BY <1>1, <2>1, <2>2
<1>3. k = n + Len(s \o t) /\ k <= Len(q)
  BY <1>1 DEF Slice
<1> QED
  BY <1>2, <1>3 DEF Slice

LEMMA SliceEqual ==
  ASSUME NEW M, NEW q \in Seq(M), NEW s \in Seq(M), NEW t \in Seq(M),
         NEW n \in Nat, NEW m \in Nat, Slice(q, s, n, m), Slice(q, t, n, m)
  PROVE  s = t
<1>1. Len(s) = Len(t) /\ \A i \in 1..Len(s) : s[i] = t[i]
  BY DEF Slice
<1> QED
  BY <1>1

LEMMA SliceMore ==
  ASSUME NEW M, NEW q \in Seq(M), NEW x \in M, NEW s \in Seq(M), NEW n \in Nat, NEW m \in Nat,
         Slice(q, s, n, m)
  PROVE  Slice(Append(q, x), s, n, m)
<1>1. Len(s) \in Nat /\ Len(q) \in Nat /\ Len(Append(q, x)) = Len(q) + 1
  OBVIOUS
<1>2. \A j \in 1..Len(q) : Append(q, x)[j] = q[j]
  OBVIOUS
<1>3. \A i \in 1..Len(s) : n + i \in 1..Len(q)
  BY <1>1 DEF Slice
<1> QED
  BY <1>1, <1>2, <1>3 DEF Slice

LEMMA SliceLength ==
  ASSUME NEW M, NEW q \in Seq(M), NEW s \in Seq(M), NEW n \in Nat, NEW m, Slice(q, s, n, m)
  PROVE  m \in Nat /\ m = n + Len(s) /\ n <= m /\ m <= Len(q)
<1>1. Len(s) \in Nat
  OBVIOUS
<1> QED
  BY <1>1 DEF Slice

-----------------------------------------------------------------------------
(* FlattenSeq of a longer sequence. *)

\* f flattens the first n elements of s.
Flattens(f, s, n) == f = [i \in 1..n |-> IF i = 1 THEN s[i] ELSE f[i - 1] \o s[i]]

LEMMA SmallestNat ==
  ASSUME NEW T \in SUBSET Nat, T # {}
  PROVE  \E m \in T : \A k \in T : m <= k
<1>1. PICK m \in T : \A k \in T : ~ (<< k, m >> \in OpToRel(<, Nat))
  BY NatLessThanWellFounded, WFMin
<1>2. \A k \in T : ~ (k < m)
  BY <1>1 DEF OpToRel
<1> QED
  BY <1>2

LEMMA FlattensUnique ==
  ASSUME NEW s, NEW t, NEW n \in Nat, NEW m \in Nat, n <= m, \A i \in 1..n : t[i] = s[i],
         NEW f, Flattens(f, s, n), NEW g, Flattens(g, t, m)
  PROVE  \A i \in 1..n : g[i] = f[i]
<1>1. \A i \in 1..n : f[i] = IF i = 1 THEN s[i] ELSE f[i - 1] \o s[i]
  BY DEF Flattens
<1>2. \A i \in 1..n : g[i] = IF i = 1 THEN t[i] ELSE g[i - 1] \o t[i]
  <2>1. \A i \in 1..m : g[i] = IF i = 1 THEN t[i] ELSE g[i - 1] \o t[i]
    BY DEF Flattens
  <2>2. \A i \in 1..n : i \in 1..m
    OBVIOUS
  <2> QED
    BY <2>1, <2>2
<1> DEFINE B == {i \in 1..n : g[i] # f[i]}
<1>3. ASSUME B # {} PROVE FALSE
  <2>1. B \in SUBSET Nat
    OBVIOUS
  <2>2. PICK i \in B : \A j \in B : i <= j
    <3> HIDE DEF B
    <3> QED
      BY <1>3, <2>1, SmallestNat
  <2>3. CASE i = 1
    BY <1>1, <1>2, <2>2, <2>3
  <2>4. CASE i # 1
    <3>1. i - 1 \in 1..n /\ i \in 1..n /\ i \in Nat
      BY <2>2, <2>4
    <3>2. i - 1 \notin B
      BY <2>2, <3>1
    <3>3. g[i - 1] = f[i - 1]
      BY <3>1, <3>2
    <3> QED
      BY <1>1, <1>2, <2>2, <2>4, <3>1, <3>3
  <2> QED
    BY <2>3, <2>4
<1> QED
  BY <1>3

LEMMA FlattensExists ==
  ASSUME NEW s, NEW n \in Nat
  PROVE  \E f : Flattens(f, s, n)
<1> DEFINE B == {k \in 0..n : ~ \E f : Flattens(f, s, k)}
<1>1. ASSUME B # {} PROVE FALSE
  <2>1. B \in SUBSET Nat
    OBVIOUS
  <2>2. PICK k \in B : \A j \in B : k <= j
    <3> HIDE DEF B
    <3> QED
      BY <1>1, <2>1, SmallestNat
  <2>3. k \in 0..n /\ k \in Nat /\ ~ \E f : Flattens(f, s, k)
    BY <2>2
  <2>4. CASE k = 0
    <3>1. Flattens([i \in 1..0 |-> {}], s, 0)
      BY DEF Flattens
    <3> QED
      BY <2>3, <2>4, <3>1
  <2>5. CASE k # 0
    <3>1. k - 1 \in 0..n /\ k - 1 \in Nat /\ k - 1 \notin B
      BY <2>2, <2>3, <2>5
    <3>2. PICK f : Flattens(f, s, k - 1)
      BY <3>1
    <3> PICK g : g = [i \in 1..k |-> IF i = k THEN (IF k = 1 THEN s[k] ELSE f[k - 1] \o s[k])
                                     ELSE f[i]]
      OBVIOUS
    <3>3. \A i \in 1..(k - 1) : f[i] = IF i = 1 THEN s[i] ELSE f[i - 1] \o s[i]
      BY <3>2 DEF Flattens
    <3>4. \A i \in 1..(k - 1) : g[i] = f[i]
      BY <2>3
    <3>5. ASSUME NEW i \in 1..k PROVE g[i] = IF i = 1 THEN s[i] ELSE g[i - 1] \o s[i]
      <4>1. CASE i = k
        <5>1. k # 1 => k - 1 \in 1..(k - 1)
          BY <2>3, <2>5
        <5> QED
          BY <3>4, <4>1, <5>1
      <4>2. CASE i # k
        <5>1. i \in 1..(k - 1) /\ (i # 1 => i - 1 \in 1..(k - 1))
          BY <2>3, <4>2
        <5> QED
          BY <3>3, <3>4, <5>1
      <4> QED
        BY <4>1, <4>2
    <3>6. Flattens(g, s, k)
      BY <3>5 DEF Flattens
    <3> QED
      BY <2>3, <3>6
  <2> QED
    BY <2>4, <2>5
<1>2. n \notin B
  BY <1>1
<1> QED
  BY <1>2

LEMMA FlattensOne ==
  ASSUME NEW s, NEW n \in Nat, NEW f, Flattens(f, s, n), NEW g, Flattens(g, s, n)
  PROVE  \A i \in 1..n : g[i] = f[i]
<1>1. n <= n /\ \A i \in 1..n : s[i] = s[i]
  OBVIOUS
<1> QED
  BY <1>1, FlattensUnique

LEMMA FlattenIs ==
  ASSUME NEW s, NEW f, Len(s) \in Nat, Len(s) # 0, Flattens(f, s, Len(s))
  PROVE  FlattenSeq(s) = f[Len(s)]
<1> DEFINE P(g) == g = [i \in 1..Len(s) |-> IF i = 1 THEN s[i] ELSE g[i - 1] \o s[i]]
           c == CHOOSE g : P(g)
<1>1. P(f)
  BY DEF Flattens
<1>2. P(c)
  BY <1>1
<1>3. FlattenSeq(s) = c[Len(s)]
  BY DEF FlattenSeq
<1>4. Flattens(c, s, Len(s))
  BY <1>2 DEF Flattens
<1>5. c[Len(s)] = f[Len(s)]
  <2>1. Len(s) \in 1..Len(s) /\ Len(s) <= Len(s)
    OBVIOUS
  <2> HIDE DEF c
  <2>2. \A i \in 1..Len(s) : c[i] = f[i]
    BY <1>4, FlattensOne
  <2> QED
    BY <2>1, <2>2
<1> QED
  BY <1>3, <1>5

LEMMA FlattenAppend ==
  ASSUME NEW M, NEW s \in Seq(Seq(M)), NEW e \in Seq(M)
  PROVE  FlattenSeq(Append(s, e)) = FlattenSeq(s) \o e
<1> DEFINE n == Len(s)
           t == Append(s, e)
<1>1. n \in Nat /\ Len(t) = n + 1 /\ t[n + 1] = e /\ \A i \in 1..n : t[i] = s[i]
  OBVIOUS
<1>2. PICK g : Flattens(g, t, n + 1)
  <2>1. n + 1 \in Nat
    BY <1>1
  <2> HIDE DEF n, t
  <2> QED
    BY <2>1, FlattensExists
<1>3. FlattenSeq(t) = g[n + 1]
  <2> HIDE DEF n, t
  <2> QED
    BY <1>1, <1>2, FlattenIs
<1>4. g[n + 1] = IF n + 1 = 1 THEN e ELSE g[n + 1 - 1] \o e
  <2>1. \A i \in 1..(n + 1) : g[i] = IF i = 1 THEN t[i] ELSE g[i - 1] \o t[i]
    BY <1>2 DEF Flattens
  <2> HIDE DEF n, t
  <2> QED
    BY <1>1, <2>1
<1>5. CASE n = 0
  <2>1. FlattenSeq(s) = s /\ s = << >>
    BY <1>5 DEF FlattenSeq
  <2>2. FlattenSeq(s) \o e = e
    BY <2>1
  <2> QED
    BY <1>3, <1>4, <1>5, <2>2
<1>6. CASE n # 0
  <2>1. PICK f : Flattens(f, s, n)
    BY <1>1, FlattensExists
  <2>2. FlattenSeq(s) = f[n]
    BY <1>1, <1>6, <2>1, FlattenIs
  <2> HIDE DEF n, t
  <2>3. g[n] = f[n]
    <3>1. n \in 1..n /\ n <= n + 1 /\ n + 1 \in Nat
      BY <1>1, <1>6
    <3> QED
      <4>1. n \in Nat /\ \A i \in 1..n : t[i] = s[i]
        BY <1>1
      <4>2. Flattens(f, s, n) /\ Flattens(g, t, n + 1)
        BY <1>2, <2>1
      <4> DEFINE m == n + 1
      <4>3. m \in Nat /\ n <= m /\ Flattens(g, t, m)
        BY <3>1, <4>2
      <4> HIDE DEF m
      <4>4. \A i \in 1..n : g[i] = f[i]
        BY <4>1, <4>2, <4>3, FlattensUnique
      <4> QED
        BY <3>1, <4>4
  <2>4. n + 1 # 1 /\ n + 1 - 1 = n
    BY <1>1, <1>6
  <2> QED
    BY <1>3, <1>4, <2>2, <2>3, <2>4 DEF t
<1> QED
  BY <1>5, <1>6

-----------------------------------------------------------------------------
(* What a step leaves alone. *)

LEMMA RankZero == 0 \in Ranks /\ Others \subseteq Ranks /\ Ranks = {0} \cup Others
BY RankBroadcastAssumption DEF Ranks, Others

LEMMA PointFacts ==
  ASSUME TypeOK, NEW h, History(h), NEW k \in 0..Len(log)
  PROVE  /\ h[k] \in Point /\ h[k].left \in [Reqs -> Nat] /\ h[k].launched \in Nat
         /\ h[k].number \in Nat /\ h[k].batch \subseteq Reqs /\ h[k].upto \in Nat
         /\ h[k].number = 0 <=> h[k].batch = {}
<1>1. h[k] \in Point
  BY DEF History
<1> QED
  BY <1>1 DEF Point, Points

LEMMA Places ==
  ASSUME TypeOK, NEW h, Good(h), NEW r \in Ranks
  PROVE  /\ Done(r) \in 0..Len(log) /\ Len(log) \in Nat /\ h[Done(r)].upto \in Nat
         /\ Len(pending[r]) \in Nat /\ Got(r, h) \in Nat
         /\ Len(arrived) \in Nat /\ Len(inbox) \in Nat /\ Len(raw) \in Nat
         /\ Out \in Nat /\ Received \in Nat /\ Out = Received - Len(raw)
         /\ Received = Len(arrived) - Len(inbox) /\ Got(0, h) = Out
<1>1. \A s \in Ranks : Done(s) \in 0..Len(log)
  <2>1. ASSUME NEW s \in Ranks PROVE Done(s) \in 0..Len(log)
    <3>1. applied[s] \in Seq(Seq(Msgs)) /\ log \in Seq(Seq(Msgs)) /\ Done(s) <= Len(log)
      BY <2>1 DEF TypeOK, Good, Follows
    <3> QED
      BY <3>1 DEF Done
  <2> QED
    BY <2>1
<1>2. \A s \in Ranks : h[Done(s)].upto \in Nat
  BY <1>1, PointFacts DEF Good
<1>3. \A s \in Ranks : Len(pending[s]) \in Nat
  BY DEF TypeOK
<1>4. Got(r, h) \in Nat /\ Got(0, h) \in Nat
  BY <1>2, <1>3, RankZero DEF Got
<1>5. Got(0, h) = Out
  BY DEF Good, Stream
<1>6. Len(arrived) \in Nat /\ Len(inbox) \in Nat /\ Len(raw) \in Nat /\ Len(log) \in Nat
  BY DEF TypeOK
<1>7. Received \in Int /\ Received = Len(arrived) - Len(inbox) /\ Out = Received - Len(raw)
  BY <1>6 DEF Received, Out
<1>8. Received \in Nat
  BY <1>4, <1>5, <1>6, <1>7
<1> QED
  BY <1>1, <1>2, <1>3, <1>4, <1>5, <1>6, <1>7, <1>8

LEMMA HistorySame ==
  ASSUME TypeOK, NEW h, History(h), log' = log, taken' = taken,
         arrived' = arrived \/ \E m \in Msgs : arrived' = Append(arrived, m)
  PROVE  History(h)'
<1>1. ASSUME NEW k \in 1..Len(log) PROVE Slice(arrived', log[k], h[k - 1].upto, h[k].upto)
  <2>1. arrived \in Seq(Msgs) /\ log[k] \in Seq(Msgs) /\ log \in Seq(Seq(Msgs))
    BY DEF TypeOK
  <2>2. k - 1 \in 0..Len(log) /\ k \in 0..Len(log)
    BY <2>1
  <2>3. h[k - 1].upto \in Nat /\ h[k].upto \in Nat
    BY <2>2, PointFacts
  <2>4. Slice(arrived, log[k], h[k - 1].upto, h[k].upto)
    BY DEF History
  <2> QED
    BY <2>1, <2>3, <2>4, SliceMore
<1> QED
  BY <1>1 DEF History, Numbered

LEMMA ComputesSame ==
  ASSUME NEW r, NEW h, Follows(r), Computes(r, h), log' = log, applied'[r] = applied[r],
         left'[r] = left[r], launched'[r] = launched[r], last'[r] = last[r],
         ongoing'[r] = ongoing[r], pc'[r] = "process" <=> pc[r] = "process"
  PROVE  Follows(r)' /\ Computes(r, h)'
<1>1. Done(r)' = Done(r)
  BY DEF Done
<1>2. Follows(r)'
  BY <1>1 DEF Follows
<1>3. Computes(r, h)'
  BY <1>1 DEF Computes, IsBatch, Bit
<1> QED
  BY <1>2, <1>3

LEMMA ObeysSame ==
  ASSUME NEW r, NEW h, Obeys(r, h), log' = log, applied'[r] = applied[r],
         pending'[r] = pending[r], counts'[r] = counts[r], want'[r] = want[r], pc'[r] = pc[r]
  PROVE  Obeys(r, h)'
<1>1. Done(r)' = Done(r) /\ Got(r, h)' = Got(r, h)
  BY DEF Done, Got
<1>2. Told(r)' = Told(r)
  BY <1>1 DEF Told, Bit
<1> QED
  BY <1>1, <1>2 DEF Obeys, Bit, Waits, Announced

LEMMA ToSetEmpty ==
  ASSUME NEW S, NEW s \in Seq(S), ToSet(s) = {}
  PROVE  s = << >>
<1>1. \A i \in DOMAIN s : s[i] \in ToSet(s)
  BY DEF ToSet
<1>2. DOMAIN s = {}
  BY <1>1
<1> QED
  BY <1>2

\* A rank waits for a message when its history says so.
LEMMA BlockingWaits ==
  ASSUME TypeOK, NEW h, Good(h), NEW r \in Ranks, pc[r] # "process"
  PROVE  Blocking(r) <=> Waits(h[Done(r)])
<1>1. Done(r) \in 0..Len(log) /\ History(h) /\ Computes(r, h)
  BY Places DEF Good
<1> DEFINE p == h[Done(r)]
           x == last[r]
<1>2. p.left \in [Reqs -> Nat] /\ p.number \in Nat /\ p.batch \subseteq Reqs
  BY <1>1, PointFacts
<1>3. x.number \in Nat /\ x.reqs \in Seq(Reqs) /\ x = [number |-> x.number, reqs |-> x.reqs]
  <2>1. x \in Batch
    BY DEF TypeOK
  <2> HIDE DEF x
  <2> QED
    BY <2>1 DEF Batch
<1>4. left[r] = p.left
  BY <1>1 DEF Computes
<1>5. Running(r) = {} <=> \A m \in Reqs : p.left[m] = 0
  BY <1>2, <1>4 DEF Running
<1>6. CASE Overlap
  <2>1. IsBatch(x, p)
    <3>1. Done(r) - Bit(pc[r] = "process") = Done(r)
      BY <1>1 DEF Bit
    <3>2. IsBatch(x, h[Done(r) - Bit(pc[r] = "process")])
      BY <1>1, <1>6 DEF Computes
    <3> QED
      BY <3>1, <3>2
  <2>2. x = NoBatch <=> p.number = 0
    <3>1. x.number = p.number
      BY <2>1 DEF IsBatch
    <3>2. p.number = 0 => ToSet(x.reqs) = {}
      BY <1>1, <2>1, PointFacts DEF IsBatch
    <3>3. p.number = 0 => x.reqs = << >>
      BY <1>3, <3>2, ToSetEmpty
    <3> HIDE DEF x, p
    <3> QED
      BY <1>3, <3>1, <3>3 DEF NoBatch
  <2> QED
    BY <1>5, <1>6, <2>2 DEF Blocking, Waits
<1>7. CASE ~ Overlap
  <2>1. last[r] = NoBatch
    BY <1>1, <1>7 DEF Computes
  <2> QED
    BY <1>5, <1>7, <2>1 DEF Blocking, Waits
<1> QED
  BY <1>6, <1>7

-----------------------------------------------------------------------------
(* Rank 0 collects and publishes. *)

\* No subscriber has fallen so far behind that its socket is full
RoomLeft == \A r \in Others : Len(sub[r]) < HighWater

LEMMA PublishedToAll ==
  ASSUME TypeOK, Subscribed, RoomLeft, arrived # << >>, NEW x \in Msgs
  PROVE  /\ Published(x) \in [Others -> Seq(Msgs)]
         /\ \A r \in Others : Published(x)[r] = Append(sub[r], x)
<1>1. joined = Others /\ sub \in [Others -> Seq(Msgs)]
  BY DEF Subscribed, TypeOK
<1>2. Published(x) = [r \in Others |-> Append(sub[r], x)]
  BY <1>1 DEF Published, RoomLeft
<1> QED
  BY <1>1, <1>2

\* A step of rank 0 in which it handles nothing
LEMMA CollectStep ==
  ASSUME TypeOK, NEW h, Good(h), Stream(h)', Leads(h)',
         /\ log' = log /\ taken' = taken /\ arrived' = arrived /\ counts' = counts
         /\ want' = want /\ applied' = applied /\ left' = left /\ last' = last
         /\ ongoing' = ongoing /\ launched' = launched,
         \A r \in Others : pc'[r] = pc[r] /\ pending'[r] = pending[r],
         pc[0] # "process", pc'[0] # "process"
  PROVE  Good(h)'
<1>1. History(h)'
  BY HistorySame DEF Good
<1>2. ASSUME NEW r \in Ranks PROVE Follows(r)' /\ Computes(r, h)'
  <2>1. pc'[r] = "process" <=> pc[r] = "process"
    BY RankZero
  <2>2. Follows(r) /\ Computes(r, h)
    BY DEF Good
  <2> QED
    BY <2>1, <2>2, ComputesSame
<1>3. ASSUME NEW r \in Others PROVE Obeys(r, h)'
  <2>1. Obeys(r, h)
    BY DEF Good
  <2> QED
    BY <2>1, ObeysSame
<1> QED
  BY <1>1, <1>2, <1>3 DEF Good

LEMMA Wait0Step ==
  ASSUME TypeOK, Subscribed, RoomLeft, NEW h, Good(h), Wait0
  PROVE  Good(h)' /\ TypeOK'
<1> DEFINE x == Head(inbox)
<1>1. /\ pc[0] = "start" /\ Blocking(0) /\ inbox # << >>
      /\ inbox' = Tail(inbox) /\ sub' = Published(x)
      /\ pending' = [pending EXCEPT ![0] = Append(@, x)] /\ pc' = [pc EXCEPT ![0] = "poll"]
      /\ joined' = joined /\ counts' = counts /\ raw' = raw /\ want' = want
      /\ left' = left /\ last' = last /\ ongoing' = ongoing /\ launched' = launched
      /\ replies' = replies /\ arrived' = arrived /\ taken' = taken /\ log' = log
      /\ applied' = applied
  BY DEF Wait0, AddPending, Goto, batchVars, historyVars
<1>2. /\ inbox \in Seq(Msgs) /\ arrived \in Seq(Msgs) /\ raw \in Seq(Msgs)
      /\ pending \in [Ranks -> Seq(Msgs)] /\ sub \in [Others -> Seq(Msgs)]
  BY DEF TypeOK
<1>3. /\ Received \in Nat /\ Out \in Nat /\ Out = Received - Len(raw)
      /\ Received = Len(arrived) - Len(inbox) /\ Len(arrived) \in Nat /\ Len(inbox) \in Nat
      /\ Got(0, h) = Out /\ h[Done(0)].upto \in Nat /\ Len(raw) \in Nat
      /\ \A r \in Ranks : Got(r, h) \in Nat /\ Done(r) \in 0..Len(log) /\ Len(log) \in Nat
  BY Places, RankZero
<1>4. raw = << >> /\ Out = Received /\ pending[0] = << >>
  <2>1. raw = << >> /\ pending[0] = << >>
    BY <1>1 DEF Good, Leads
  <2> QED
    BY <1>3, <2>1
<1>5. /\ Slice(arrived, Tail(inbox), Received + 1, Len(arrived)) /\ x = arrived[Received + 1]
      /\ x \in Msgs /\ Tail(inbox) \in Seq(Msgs) /\ Received < Len(arrived)
  <2>1. Slice(arrived, inbox, Received, Len(arrived))
    BY DEF Good, Stream
  <2>2. /\ Slice(arrived, Tail(inbox), Received + 1, Len(arrived)) /\ x = arrived[Received + 1]
        /\ x \in Msgs /\ Tail(inbox) \in Seq(Msgs) /\ Received + 1 <= Len(arrived)
    BY <1>1, <1>2, <1>3, <2>1, SliceTail
  <2> QED
    BY <1>3, <2>2
<1>6. /\ sub' \in [Others -> Seq(Msgs)] /\ \A r \in Others : sub'[r] = Append(sub[r], x)
  <2>1. arrived # << >>
    BY <1>3, <1>5
  <2> HIDE DEF x
  <2> QED
    BY <1>1, <1>5, <2>1, PublishedToAll
<1>7. /\ pending' \in [Ranks -> Seq(Msgs)] /\ pending'[0] = Append(pending[0], x)
      /\ \A r \in Others : pending'[r] = pending[r]
  <2> HIDE DEF x
  <2> QED
    BY <1>1, <1>2, <1>5, RankZero DEF Others
<1>8. pc'[0] = "poll" /\ \A r \in Others : pc'[r] = pc[r]
  BY <1>1, RankZero DEF TypeOK, Others
<1>9. Received' = Received + 1 /\ Out' = Out + 1
  <2>1. Len(Tail(inbox)) = Len(inbox) - 1
    BY <1>1, <1>2
  <2> QED
    BY <1>1, <1>3, <2>1 DEF Received, Out
<1>10. /\ \A r \in Ranks : Done(r)' = Done(r)
       /\ \A r \in Others : Got(r, h)' = Got(r, h)
       /\ Got(0, h)' = Got(0, h) + 1
  <2>1. \A r \in Ranks : Done(r)' = Done(r)
    BY <1>1 DEF Done
  <2>2. \A r \in Others : Got(r, h)' = Got(r, h)
    BY <1>7, <2>1, RankZero DEF Got
  <2>3. Len(pending'[0]) = Len(pending[0]) + 1
    BY <1>4, <1>7
  <2>4. Got(0, h)' = Got(0, h) + 1
    BY <1>3, <1>4, <2>1, <2>3, RankZero DEF Got
  <2> QED
    BY <2>1, <2>2, <2>4
<1> HIDE DEF x
<1>11. Stream(h)'
  <2>1. Slice(arrived, raw, Out + 1, Received + 1)
    BY <1>2, <1>3, <1>4, <1>5, SliceEmpty
  <2>2. ASSUME NEW r \in Ranks PROVE Slice(arrived, pending'[r], h[Done(r)].upto, Got(r, h)')
    <3>1. Slice(arrived, pending[r], h[Done(r)].upto, Got(r, h))
      BY DEF Good, Stream
    <3>2. CASE r = 0
      <4>1. Slice(arrived, Append(pending[0], x), h[Done(0)].upto, Out + 1)
        BY <1>2, <1>3, <1>4, <1>5, <3>1, <3>2, RankZero, SliceAppend
      <4> QED
        BY <1>3, <1>7, <1>10, <3>2, <4>1
    <3>3. CASE r \in Others
      BY <1>7, <1>10, <3>1, <3>3
    <3> QED
      BY <3>2, <3>3, RankZero
  <2>3. ASSUME NEW r \in Others PROVE Slice(arrived, sub'[r], Got(r, h)', Out')
    <3>1. Slice(arrived, sub[r], Got(r, h), Out)
      BY DEF Good, Stream
    <3>2. Slice(arrived, Append(sub[r], x), Got(r, h), Out + 1)
      BY <1>2, <1>3, <1>4, <1>5, <3>1, RankZero, SliceAppend
    <3> QED
      BY <1>6, <1>9, <1>10, <3>2
  <2> QED
    BY <1>1, <1>3, <1>5, <1>9, <1>10, <2>1, <2>2, <2>3 DEF Stream
<1>12. Leads(h)'
  <2>1. Waits(h[Done(0)])
    BY <1>1, BlockingWaits, RankZero
  <2>2. Waits(h[Done(0)])'
    BY <1>10, <2>1, RankZero DEF Waits
  <2>3. Len(pending'[0]) = 1
    BY <1>4, <1>5, <1>7
  <2>4. Len(log) = Done(0)
    BY <1>1, <1>3, RankZero DEF Good, Leads, Bit
  <2> QED
    BY <1>1, <1>3, <1>4, <1>8, <1>10, <2>2, <2>3, <2>4, RankZero DEF Leads, Bit
<1>13. Good(h)'
  BY <1>1, <1>7, <1>8, <1>11, <1>12, CollectStep
<1>14. TypeOK'
  <2>1. pc' \in [Ranks -> {"start", "poll", "publish", "count", "take", "handle", "process",
                           "stopping", "stopped"}]
    BY <1>1 DEF TypeOK
  <2> QED
    BY <1>1, <1>5, <1>6, <1>7, <2>1 DEF TypeOK
<1> QED
  BY <1>13, <1>14

\* Rank 0 goes on to collect, or to handle, without touching a message.
LEMMA Collect0Step ==
  ASSUME TypeOK, NEW h, Good(h), NoWait0 \/ Publish0
  PROVE  Good(h)' /\ TypeOK'
<1>1. /\ pc[0] \in {"start", "publish"}
      /\ pc' = [pc EXCEPT ![0] = IF pc[0] = "start" THEN "poll" ELSE "handle"]
      /\ pc[0] = "start" => ~ Blocking(0)
      /\ pc[0] = "publish" => raw = << >>
      /\ inbox' = inbox /\ joined' = joined /\ sub' = sub /\ counts' = counts
      /\ raw' = raw /\ pending' = pending /\ want' = want
      /\ left' = left /\ last' = last /\ ongoing' = ongoing /\ launched' = launched
      /\ replies' = replies /\ arrived' = arrived /\ taken' = taken /\ log' = log
      /\ applied' = applied
  BY DEF NoWait0, Publish0, Goto, socketVars, batchVars, historyVars
<1>2. /\ \A r \in Others : pc'[r] = pc[r]
      /\ pc'[0] = IF pc[0] = "start" THEN "poll" ELSE "handle"
  BY <1>1, RankZero DEF TypeOK, Others
<1>3. /\ Received' = Received /\ Out' = Out
      /\ \A r \in Ranks : Done(r)' = Done(r) /\ Got(r, h)' = Got(r, h)
  BY <1>1 DEF Received, Out, Done, Got
<1>4. Stream(h)'
  BY <1>1, <1>3, RankZero DEF Good, Stream
<1>5. Leads(h)'
  <2>1. pc[0] = "start" => ~ Waits(h[Done(0)])
    BY <1>1, BlockingWaits, RankZero
  <2>2. Waits(h[Done(0)])' <=> Waits(h[Done(0)])
    BY <1>3, RankZero DEF Waits
  <2>3. Leads(h) /\ Len(<< >>) = 0
    BY DEF Good
  <2> QED
    BY <1>1, <1>2, <1>3, <2>1, <2>2, <2>3, RankZero DEF Leads, Bit
<1>6. Good(h)'
  BY <1>1, <1>2, <1>4, <1>5, CollectStep
<1>7. TypeOK'
  <2>1. pc' \in [Ranks -> {"start", "poll", "publish", "count", "take", "handle", "process",
                           "stopping", "stopped"}]
    BY <1>1 DEF TypeOK
  <2> QED
    BY <1>1, <2>1 DEF TypeOK
<1> QED
  BY <1>6, <1>7

LEMMA PollStep ==
  ASSUME TypeOK, NEW h, Good(h), Poll
  PROVE  Good(h)' /\ TypeOK'
<1> DEFINE x == Head(inbox)
<1>1. /\ pc[0] = "poll" /\ inbox # << >>
      /\ inbox' = Tail(inbox) /\ raw' = Append(raw, x)
      /\ sub' = sub /\ pending' = pending /\ pc' = pc
      /\ joined' = joined /\ counts' = counts /\ want' = want
      /\ left' = left /\ last' = last /\ ongoing' = ongoing /\ launched' = launched
      /\ replies' = replies /\ arrived' = arrived /\ taken' = taken /\ log' = log
      /\ applied' = applied
  BY DEF Poll, batchVars, historyVars
<1>2. inbox \in Seq(Msgs) /\ arrived \in Seq(Msgs) /\ raw \in Seq(Msgs)
  BY DEF TypeOK
<1>3. /\ Received \in Nat /\ Out \in Nat /\ Out = Received - Len(raw)
      /\ Received = Len(arrived) - Len(inbox) /\ Len(arrived) \in Nat /\ Len(inbox) \in Nat
      /\ Len(raw) \in Nat
  BY Places, RankZero
<1>4. /\ Slice(arrived, Tail(inbox), Received + 1, Len(arrived)) /\ x = arrived[Received + 1]
      /\ x \in Msgs /\ Tail(inbox) \in Seq(Msgs) /\ Received < Len(arrived)
  <2>1. Slice(arrived, inbox, Received, Len(arrived))
    BY DEF Good, Stream
  <2>2. /\ Slice(arrived, Tail(inbox), Received + 1, Len(arrived)) /\ x = arrived[Received + 1]
        /\ x \in Msgs /\ Tail(inbox) \in Seq(Msgs) /\ Received + 1 <= Len(arrived)
    BY <1>1, <1>2, <1>3, <2>1, SliceTail
  <2> QED
    BY <1>3, <2>2
<1>5. Received' = Received + 1 /\ Out' = Out
  <2>1. Len(Tail(inbox)) = Len(inbox) - 1
    BY <1>1, <1>2
  <2>2. Len(raw') = Len(raw) + 1
    BY <1>1, <1>2, <1>4
  <2> QED
    BY <1>1, <1>3, <2>1, <2>2 DEF Received, Out
<1>6. \A r \in Ranks : Done(r)' = Done(r) /\ Got(r, h)' = Got(r, h)
  BY <1>1 DEF Done, Got
<1> HIDE DEF x
<1>7. Stream(h)'
  <2>1. Slice(arrived, Append(raw, x), Out, Received + 1)
    <3>1. Slice(arrived, raw, Out, Received)
      BY DEF Good, Stream
    <3> QED
      BY <1>2, <1>3, <1>4, <3>1, SliceAppend
  <2>2. /\ \A r \in Ranks : Slice(arrived, pending[r], h[Done(r)].upto, Got(r, h))
        /\ Got(0, h) = Out
        /\ \A r \in Others : Slice(arrived, sub[r], Got(r, h), Out)
    BY DEF Good, Stream
  <2>3. Slice(arrived', inbox', Received', Len(arrived')) /\ Slice(arrived', raw', Out', Received')
    BY <1>1, <1>4, <1>5, <2>1
  <2>4. /\ \A r \in Ranks : Slice(arrived', pending'[r], h[Done(r)'].upto, Got(r, h)')
        /\ Got(0, h)' = Out'
        /\ \A r \in Others : Slice(arrived', sub'[r], Got(r, h)', Out')
    BY <1>1, <1>5, <1>6, <2>2, RankZero
  <2> QED
    BY <2>3, <2>4 DEF Stream
<1>8. Leads(h)'
  BY <1>1, <1>5, <1>6, RankZero DEF Good, Leads, Bit, Waits
<1>9. Good(h)'
  BY <1>1, <1>7, <1>8, CollectStep
<1>10. TypeOK'
  <2>1. raw' \in Seq(Msgs)
    BY <1>1, <1>2, <1>4
  <2> QED
    BY <1>1, <1>4, <2>1 DEF TypeOK
<1> QED
  BY <1>9, <1>10

LEMMA PublishStep ==
  ASSUME TypeOK, Subscribed, RoomLeft, NEW h, Good(h), Publish
  PROVE  Good(h)' /\ TypeOK'
<1> DEFINE x == Head(raw)
<1>1. /\ pc[0] = "publish" /\ raw # << >>
      /\ raw' = Tail(raw) /\ sub' = Published(x)
      /\ pending' = [pending EXCEPT ![0] = Append(@, x)] /\ pc' = pc /\ inbox' = inbox
      /\ joined' = joined /\ counts' = counts /\ want' = want
      /\ left' = left /\ last' = last /\ ongoing' = ongoing /\ launched' = launched
      /\ replies' = replies /\ arrived' = arrived /\ taken' = taken /\ log' = log
      /\ applied' = applied
  BY DEF Publish, AddPending, batchVars, historyVars
<1>2. /\ inbox \in Seq(Msgs) /\ arrived \in Seq(Msgs) /\ raw \in Seq(Msgs)
      /\ pending \in [Ranks -> Seq(Msgs)] /\ sub \in [Others -> Seq(Msgs)]
  BY DEF TypeOK
<1>3. /\ Received \in Nat /\ Out \in Nat /\ Out = Received - Len(raw)
      /\ Received = Len(arrived) - Len(inbox) /\ Len(arrived) \in Nat /\ Len(inbox) \in Nat
      /\ Got(0, h) = Out /\ h[Done(0)].upto \in Nat /\ Len(raw) \in Nat
      /\ \A r \in Ranks : Got(r, h) \in Nat
  BY Places, RankZero
<1>4. /\ Slice(arrived, Tail(raw), Out + 1, Received) /\ x = arrived[Out + 1]
      /\ x \in Msgs /\ Tail(raw) \in Seq(Msgs) /\ Out < Len(arrived)
  <2>1. Slice(arrived, raw, Out, Received)
    BY DEF Good, Stream
  <2>2. /\ Slice(arrived, Tail(raw), Out + 1, Received) /\ x = arrived[Out + 1]
        /\ x \in Msgs /\ Tail(raw) \in Seq(Msgs) /\ Out + 1 <= Received
    BY <1>1, <1>2, <1>3, <2>1, SliceTail
  <2> QED
    BY <1>3, <2>2
<1>5. /\ sub' \in [Others -> Seq(Msgs)] /\ \A r \in Others : sub'[r] = Append(sub[r], x)
  <2>1. arrived # << >>
    BY <1>3, <1>4
  <2> HIDE DEF x
  <2> QED
    BY <1>1, <1>4, <2>1, PublishedToAll
<1>6. /\ pending' \in [Ranks -> Seq(Msgs)] /\ pending'[0] = Append(pending[0], x)
      /\ \A r \in Others : pending'[r] = pending[r]
  <2> HIDE DEF x
  <2> QED
    BY <1>1, <1>2, <1>4, RankZero DEF Others
<1>7. Received' = Received /\ Out' = Out + 1
  <2>1. Len(Tail(raw)) = Len(raw) - 1
    BY <1>1, <1>2
  <2> QED
    BY <1>1, <1>3, <2>1 DEF Received, Out
<1>8. /\ \A r \in Ranks : Done(r)' = Done(r)
      /\ \A r \in Others : Got(r, h)' = Got(r, h)
      /\ Got(0, h)' = Out + 1
  <2>1. \A r \in Ranks : Done(r)' = Done(r)
    BY <1>1 DEF Done
  <2>2. \A r \in Others : Got(r, h)' = Got(r, h)
    BY <1>6, <2>1, RankZero DEF Got
  <2>3. Len(pending'[0]) = Len(pending[0]) + 1 /\ Len(pending[0]) \in Nat
    <3>1. pending[0] \in Seq(Msgs)
      BY <1>2, RankZero
    <3> QED
      BY <1>4, <1>6, <3>1
  <2>4. Got(0, h)' = Out + 1
    <3>1. Got(0, h)' = h[Done(0)].upto + Len(pending'[0])
      BY <2>1, RankZero DEF Got
    <3>2. Got(0, h) = h[Done(0)].upto + Len(pending[0])
      BY DEF Got
    <3> HIDE DEF x
    <3> QED
      BY <1>3, <2>3, <3>1, <3>2
  <2> QED
    BY <2>1, <2>2, <2>4
<1> HIDE DEF x
<1>9. Stream(h)'
  <2>1. ASSUME NEW r \in Ranks PROVE Slice(arrived, pending'[r], h[Done(r)].upto, Got(r, h)')
    <3>1. Slice(arrived, pending[r], h[Done(r)].upto, Got(r, h))
      BY DEF Good, Stream
    <3>2. CASE r = 0
      <4>1. pending[0] \in Seq(Msgs)
        BY <1>2, RankZero
      <4>2. Slice(arrived, pending[0], h[Done(0)].upto, Out)
        BY <1>3, <3>1, <3>2
      <4>3. Slice(arrived, Append(pending[0], x), h[Done(0)].upto, Out + 1)
        BY <1>2, <1>3, <1>4, <4>1, <4>2, SliceAppend
      <4> QED
        BY <1>3, <1>6, <1>8, <3>2, <4>3
    <3>3. CASE r \in Others
      BY <1>6, <1>8, <3>1, <3>3
    <3> QED
      BY <3>2, <3>3, RankZero
  <2>2. ASSUME NEW r \in Others PROVE Slice(arrived, sub'[r], Got(r, h)', Out')
    <3>1. Slice(arrived, sub[r], Got(r, h), Out) /\ sub[r] \in Seq(Msgs) /\ Got(r, h) \in Nat
      BY <1>2, <1>3, RankZero DEF Good, Stream
    <3>2. Slice(arrived, Append(sub[r], x), Got(r, h), Out + 1)
      BY <1>2, <1>3, <1>4, <3>1, SliceAppend
    <3> QED
      BY <1>5, <1>7, <1>8, <3>2
  <2>3. Slice(arrived, inbox, Received, Len(arrived))
    BY DEF Good, Stream
  <2>4. Slice(arrived', inbox', Received', Len(arrived')) /\ Slice(arrived', raw', Out', Received')
    BY <1>1, <1>4, <1>7, <2>3
  <2>5. \A r \in Ranks : Slice(arrived', pending'[r], h[Done(r)'].upto, Got(r, h)')
    BY <1>1, <1>8, <2>1
  <2> QED
    BY <1>1, <1>7, <1>8, <2>2, <2>4, <2>5 DEF Stream
<1>10. Leads(h)'
  BY <1>1, <1>7, <1>8, RankZero DEF Good, Leads, Bit
<1>11. Good(h)'
  BY <1>1, <1>6, <1>9, <1>10, CollectStep
<1>12. TypeOK'
  BY <1>1, <1>4, <1>5, <1>6 DEF TypeOK
<1> QED
  BY <1>11, <1>12

-----------------------------------------------------------------------------
(* The history grows when rank 0 broadcasts the number of messages. *)

LEMMA AfterType ==
  ASSUME NEW p \in Point, NEW msgs, NEW u \in Nat
  PROVE  After(p, msgs, u) \in Point /\ After(p, msgs, u).upto = u
<1>1. /\ p \in Points /\ p.number = 0 <=> p.batch = {}
      /\ p.left \in [Reqs -> Nat] /\ p.launched \in Nat
  BY DEF Point, Points
<1>2. CASE Contains(msgs, Exit)
  <2>1. After(p, msgs, u) = [p EXCEPT !.upto = u]
    BY <1>2 DEF After
  <2> QED
    BY <1>1, <2>1 DEF Point, Points
<1>3. CASE ~ Contains(msgs, Exit)
  <2> DEFINE f == p.left
             b == BatchOf(f, msgs)
             l == Less(f, msgs)
             c == p.launched + Bit(b # {})
             i == IF b = {} THEN 0 ELSE p.launched + 1
  <2>1. After(p, msgs, u) = [left |-> l, launched |-> c, number |-> i, batch |-> b, upto |-> u]
    BY <1>3 DEF After
  <2>2. Now(f, msgs) \in [Reqs -> Nat]
    BY <1>1, RankBroadcastAssumption DEF Now
  <2>3. b \subseteq Reqs /\ \A m \in b : Now(f, msgs)[m] \in Nat /\ Now(f, msgs)[m] > 0
    BY <2>2 DEF BatchOf
  <2>4. l \in [Reqs -> Nat]
    BY <2>2, <2>3 DEF Less
  <2>5. c \in Nat /\ i \in Nat /\ (i = 0 <=> b = {})
    BY <1>1 DEF Bit
  <2> HIDE DEF b, l, c, i
  <2> QED
    BY <2>1, <2>3, <2>4, <2>5 DEF Point, Points
<1> QED
  BY <1>2, <1>3

\* An iteration has no batch, a batch with the next number, or, at the exit, the
\* batch of the iteration before.
LEMMA AfterNumber ==
  ASSUME NEW p \in Point, NEW msgs, NEW u, NEW a, a = After(p, msgs, u)
  PROVE  \/ a.launched = p.launched /\ a.number = p.number /\ a.batch = p.batch
         \/ a.launched = p.launched /\ a.number = 0 /\ a.batch = {}
         \/ a.launched = p.launched + 1 /\ a.number = p.launched + 1
<1>1. p \in Points /\ p.launched \in Nat
  BY DEF Point, Points
<1>2. CASE Contains(msgs, Exit)
  <2>1. a = [p EXCEPT !.upto = u]
    BY <1>2 DEF After
  <2> QED
    BY <1>1, <2>1 DEF Points
<1>3. CASE ~ Contains(msgs, Exit)
  <2> DEFINE b == BatchOf(p.left, msgs)
             l == Less(p.left, msgs)
  <2>1. a = [left |-> l, launched |-> p.launched + Bit(b # {}),
             number |-> IF b = {} THEN 0 ELSE p.launched + 1, batch |-> b, upto |-> u]
    BY <1>3 DEF After
  <2> HIDE DEF b, l
  <2> QED
    BY <1>1, <2>1 DEF Bit
<1> QED
  BY <1>2, <1>3

\* h with one more iteration, that leads to p
Grown(h, n, p) == [k \in 0..(n + 1) |-> IF k <= n THEN h[k] ELSE p]

LEMMA HistoryGrows ==
  ASSUME TypeOK, NEW h, History(h), NEW e \in Seq(Msgs), NEW u \in Nat,
         Slice(arrived, e, taken, u), Waits(h[Len(log)]) => u > taken,
         log' = Append(log, e), taken' = u, arrived' = arrived
  PROVE  \E g : /\ History(g)' /\ \A k \in 0..Len(log) : g[k] = h[k]
                /\ g[Len(log) + 1].upto = u
<1> DEFINE n == Len(log)
           p == After(h[n], e, u)
<1>1. /\ log \in Seq(Seq(Msgs)) /\ n \in Nat /\ h \in [0..n -> Point] /\ h[0] = Beginning
      /\ h[n].upto = taken
  BY DEF TypeOK, History
<1>2. p \in Point /\ p.upto = u
  BY <1>1, AfterType
<1>3. /\ Len(log') = n + 1 /\ log'[n + 1] = e /\ \A k \in 1..n : log'[k] = log[k]
  BY <1>1
<1> PICK g : g = Grown(h, n, p)
  OBVIOUS
<1>4. /\ g \in [0..(n + 1) -> Point] /\ g[n + 1] = p /\ \A k \in 0..n : g[k] = h[k]
  <2> HIDE DEF p, n
  <2> QED
    BY <1>1, <1>2 DEF Grown
<1>5. p = After(h[n], e, u)
  OBVIOUS
<1> HIDE DEF p
<1>6. ASSUME NEW k \in 1..(n + 1)
      PROVE  /\ Slice(arrived, log'[k], g[k - 1].upto, g[k].upto)
             /\ Waits(g[k - 1]) => g[k].upto > g[k - 1].upto
             /\ g[k] = After(g[k - 1], log'[k], g[k].upto)
  <2>1. CASE k = n + 1
    <3>1. g[k] = p /\ g[k - 1] = h[n] /\ log'[k] = e
      BY <1>1, <1>3, <1>4, <2>1
    <3> QED
      BY <1>1, <1>2, <1>5, <3>1
  <2>2. CASE k # n + 1
    <3>1. k \in 1..n /\ g[k] = h[k] /\ g[k - 1] = h[k - 1] /\ log'[k] = log[k]
      <4>1. n \in Nat
        BY <1>1
      <4> HIDE DEF n
      <4>2. k \in 1..n /\ k \in 0..n /\ k - 1 \in 0..n
        BY <2>2, <4>1
      <4> QED
        BY <1>3, <1>4, <4>2
    <3>2. /\ Slice(arrived, log[k], h[k - 1].upto, h[k].upto)
          /\ Waits(h[k - 1]) => h[k].upto > h[k - 1].upto
          /\ h[k] = After(h[k - 1], log[k], h[k].upto)
      BY <3>1 DEF History
    <3> QED
      BY <3>1, <3>2
  <2> QED
    BY <2>1, <2>2
<1>7. g[0] = Beginning /\ g[n + 1].upto = u
  BY <1>1, <1>2, <1>4
<1>8. History(g)'
  <2>1. ASSUME NEW k \in 1..Len(log')
        PROVE  /\ Slice(arrived', log'[k], g[k - 1].upto, g[k].upto)
               /\ Waits(g[k - 1])' => g[k].upto > g[k - 1].upto
               /\ g[k] = After(g[k - 1], log'[k], g[k].upto)
    <3>1. k \in 1..(n + 1)
      BY <1>3, <2>1
    <3>2. Waits(g[k - 1])' <=> Waits(g[k - 1])
      BY DEF Waits
    <3> QED
      BY <1>6, <3>1, <3>2
  <2>2. g \in [0..Len(log') -> Point] /\ g[Len(log')].upto = taken'
    BY <1>3, <1>4, <1>7
  <2>3. Numbered(g)'
    <3> DEFINE c == h[n].launched
    <3>1. /\ \A k \in 0..n : h[k].number \in Nat /\ h[k].number <= c
          /\ \A k \in 0..n : h[k].number = 0 => h[k].batch = {}
          /\ \A j, k \in 0..n : h[j].number = h[k].number => h[j].batch = h[k].batch
      BY PointFacts DEF History, Numbered
    <3>2. \/ p.launched = c /\ p.number = h[n].number /\ p.batch = h[n].batch
          \/ p.launched = c /\ p.number = 0 /\ p.batch = {}
          \/ p.launched = c + 1 /\ p.number = c + 1
      <4>1. h[n] \in Point
        BY <1>1, PointFacts
      <4> QED
        BY <1>5, <4>1, AfterNumber
    <3>3. c \in Nat /\ n \in 0..n
      <4>1. n \in 0..n
        BY <1>1
      <4>2. c \in Nat
        BY <4>1, PointFacts
      <4> QED
        BY <4>1, <4>2
    <3>4. \A k \in 0..(n + 1) : k \in 0..n \/ k = n + 1
      BY <1>1
    <3> HIDE DEF n, c
    <3>5. \A k \in 0..(n + 1) : g[k].number <= p.launched
      <4>1. \A k \in 0..n : h[k].number <= p.launched
        BY <3>1, <3>2, <3>3
      <4>2. p.number <= p.launched
        BY <3>1, <3>2, <3>3
      <4> QED
        BY <1>4, <3>4, <4>1, <4>2
    <3>6. ASSUME NEW j \in 0..n PROVE p.number = h[j].number => p.batch = h[j].batch
      <4>1. /\ h[j].number \in Nat /\ h[j].number <= c
            /\ h[j].number = 0 => h[j].batch = {}
            /\ h[n].number = h[j].number => h[n].batch = h[j].batch
        BY <3>1, <3>3
      <4>2. c + 1 # h[j].number
        BY <3>3, <4>1
      <4> QED
        BY <3>2, <4>1, <4>2
    <3>7. ASSUME NEW j \in 0..(n + 1), NEW k \in 0..(n + 1), g[j].number = g[k].number
          PROVE  g[j].batch = g[k].batch
      <4>1. CASE j \in 0..n /\ k \in 0..n
        <5>1. g[j] = h[j] /\ g[k] = h[k]
          BY <1>4, <4>1
        <5> QED
          BY <3>1, <3>7, <4>1, <5>1
      <4>2. CASE j \in 0..n /\ k = n + 1
        <5>1. g[j] = h[j] /\ g[k] = p
          BY <1>4, <4>2
        <5> QED
          BY <3>6, <3>7, <4>2, <5>1
      <4>3. CASE j = n + 1 /\ k \in 0..n
        <5>1. g[j] = p /\ g[k] = h[k]
          BY <1>4, <4>3
        <5> QED
          BY <3>6, <3>7, <4>3, <5>1
      <4>4. CASE j = n + 1 /\ k = n + 1
        BY <4>4
      <4> QED
        BY <3>4, <3>7, <4>1, <4>2, <4>3, <4>4
    <3>8. g[Len(log')] = p
      BY <1>3, <1>4
    <3> QED
      BY <1>3, <3>5, <3>7, <3>8 DEF Numbered
  <2> QED
    BY <1>7, <2>1, <2>2, <2>3 DEF History
<1> QED
  BY <1>4, <1>7, <1>8

LEMMA BroadcastStep ==
  ASSUME TypeOK, NEW h, Good(h), Broadcast
  PROVE  (\E g : Good(g)') /\ TypeOK'
<1> DEFINE e == pending[0] \o raw
           n == Len(log)
<1>1. /\ pc[0] = "poll" /\ inbox = << >>
      /\ counts' = [r \in Others |-> Append(counts[r], Len(raw))]
      /\ pc' = [pc EXCEPT ![0] = "publish"]
      /\ log' = Append(log, e) /\ taken' = taken + Len(e)
      /\ inbox' = inbox /\ joined' = joined /\ sub' = sub
      /\ raw' = raw /\ pending' = pending /\ want' = want
      /\ left' = left /\ last' = last /\ ongoing' = ongoing /\ launched' = launched
      /\ replies' = replies /\ arrived' = arrived /\ applied' = applied
  BY DEF Broadcast, Count, Goto, batchVars
<1>2. /\ raw \in Seq(Msgs) /\ arrived \in Seq(Msgs) /\ pending[0] \in Seq(Msgs)
      /\ counts \in [Others -> Seq(Nat)] /\ taken \in Nat /\ log \in Seq(Seq(Msgs)) /\ n \in Nat
      /\ e \in Seq(Msgs) /\ Len(e) = Len(pending[0]) + Len(raw) /\ Len(raw) \in Nat
      /\ Len(pending[0]) \in Nat
  BY RankZero DEF TypeOK
<1>3. /\ Received \in Nat /\ Out \in Nat /\ Out = Received - Len(raw)
      /\ Received = Len(arrived) - Len(inbox) /\ Len(arrived) \in Nat
      /\ Got(0, h) = Out /\ h[Done(0)].upto \in Nat
      /\ \A r \in Ranks : Got(r, h) \in Nat /\ Done(r) \in 0..n
  BY Places, RankZero
<1>4. Done(0) = n /\ h[n].upto = taken /\ Len(pending[0]) = Bit(Waits(h[n]))
  <2>1. Done(0) = n /\ Len(pending[0]) = Bit(Waits(h[Done(0)]))
    BY <1>1, <1>3, RankZero DEF Good, Leads, Bit
  <2> QED
    BY <2>1 DEF Good, History
<1>5. Out = taken + Len(pending[0]) /\ Received = taken + Len(e)
  <2>1. Got(0, h) = h[Done(0)].upto + Len(pending[0])
    BY DEF Got
  <2>2. Out = taken + Len(pending[0])
    BY <1>3, <1>4, <2>1
  <2> HIDE DEF e
  <2>3. Received = Out + Len(raw)
    BY <1>2, <1>3
  <2>4. Len(e) = Len(pending[0]) + Len(raw) /\ {taken, Len(pending[0]), Len(raw)} \subseteq Nat
    BY <1>2
  <2> HIDE DEF n
  <2> QED
    BY <2>2, <2>3, <2>4
<1>6. Slice(arrived, e, taken, Received)
  <2>1. Slice(arrived, pending[0], taken, Out)
    BY <1>3, <1>4, RankZero DEF Good, Stream
  <2>2. Slice(arrived, raw, Out, Received)
    BY DEF Good, Stream
  <2> QED
    BY <1>2, <1>3, <2>1, <2>2, SliceJoin
<1>7. Waits(h[n]) => Received > taken
  BY <1>2, <1>4, <1>5 DEF Bit
<1> HIDE DEF e
<1>8. PICK g : /\ History(g)' /\ \A k \in 0..n : g[k] = h[k]
               /\ g[n + 1].upto = Received
  <2> PICK d, u : d = e /\ u = Received
    OBVIOUS
  <2>1. /\ d \in Seq(Msgs) /\ u \in Nat /\ Slice(arrived, d, taken, u)
        /\ Waits(h[Len(log)]) => u > taken
        /\ log' = Append(log, d) /\ taken' = u /\ arrived' = arrived
    BY <1>1, <1>2, <1>3, <1>5, <1>6, <1>7
  <2>2. History(h)
    BY DEF Good
  <2>3. \E g : /\ History(g)' /\ \A k \in 0..Len(log) : g[k] = h[k]
               /\ g[Len(log) + 1].upto = u
    BY <2>1, <2>2, HistoryGrows
  <2> QED
    BY <2>3
<1>9. Len(log') = n + 1 /\ log'[n + 1] = e /\ \A k \in 1..n : log'[k] = log[k]
  BY <1>1, <1>2
<1>10. /\ pc'[0] = "publish" /\ \A r \in Others : pc'[r] = pc[r]
  BY <1>1, RankZero DEF TypeOK, Others
<1>11. \A r \in Ranks : /\ Done(r)' = Done(r) /\ Done(r) \in 0..n /\ g[Done(r)] = h[Done(r)]
                        /\ Got(r, g)' = Got(r, h)
  BY <1>1, <1>3, <1>8 DEF Done, Got
<1>12. Received' = Received /\ Out' = Out
  BY <1>1 DEF Received, Out
<1>13. Stream(g)'
  <2>1. /\ \A r \in Ranks : Slice(arrived, pending[r], h[Done(r)].upto, Got(r, h))
        /\ Got(0, h) = Out
        /\ \A r \in Others : Slice(arrived, sub[r], Got(r, h), Out)
        /\ Slice(arrived, inbox, Received, Len(arrived)) /\ Slice(arrived, raw, Out, Received)
    BY DEF Good, Stream
  <2>2. \A r \in Ranks : Slice(arrived', pending'[r], g[Done(r)'].upto, Got(r, g)')
    BY <1>1, <1>11, <2>1
  <2>3. Got(0, g)' = Out' /\ \A r \in Others : Slice(arrived', sub'[r], Got(r, g)', Out')
    BY <1>1, <1>11, <1>12, <2>1, RankZero
  <2>4. Slice(arrived', inbox', Received', Len(arrived')) /\ Slice(arrived', raw', Out', Received')
    BY <1>1, <1>12, <2>1
  <2> QED
    BY <2>2, <2>3, <2>4 DEF Stream
<1>14. Leads(g)'
  <2>1. Received' = taken'
    BY <1>1, <1>5, <1>12
  <2>2. Len(log') = Done(0)' + 1
    BY <1>4, <1>9, <1>11, RankZero
  <2> QED
    BY <1>10, <2>1, <2>2 DEF Leads, Bit
<1>15. ASSUME NEW r \in Ranks PROVE Follows(r)' /\ Computes(r, g)'
  <2>1. Follows(r) /\ Computes(r, h) /\ Done(r) \in 0..n /\ Done(r)' = Done(r)
    BY <1>11 DEF Good
  <2>2. Follows(r)'
    BY <1>1, <1>2, <1>9, <2>1 DEF Follows
  <2>3. pc'[r] = "process" <=> pc[r] = "process"
    BY <1>1, <1>10, RankZero
  <2>4. Done(r) - Bit(pc[r] = "process") \in 0..n
    BY <1>2, <2>1 DEF Computes, Bit
  <2>5. /\ g[Done(r)] = h[Done(r)]
        /\ g[Done(r) - Bit(pc[r] = "process")] = h[Done(r) - Bit(pc[r] = "process")]
    BY <1>8, <2>1, <2>4
  <2>6. Bit(pc'[r] = "process") = Bit(pc[r] = "process")
    BY <2>3 DEF Bit
  <2>7. Computes(r, g)'
    BY <1>1, <2>1, <2>3, <2>5, <2>6 DEF Computes, IsBatch
  <2> QED
    BY <2>2, <2>7
<1>16. ASSUME NEW r \in Others PROVE Obeys(r, g)'
  <2>1. /\ Obeys(r, h) /\ r \in Ranks /\ Done(r) \in 0..n /\ pc'[r] = pc[r]
        /\ Done(r)' = Done(r)
    BY <1>10, <1>11, RankZero DEF Good
  <2>2. Told(r) + Len(counts[r]) = n /\ Told(r) \in Nat /\ Len(counts[r]) \in Nat
    <3>1. Len(counts[r]) \in Nat
      BY <1>2
    <3>2. Told(r) \in Nat
      BY <2>1 DEF Told, Bit
    <3> QED
      BY <2>1, <3>1, <3>2 DEF Obeys
  <2>3. /\ Len(counts'[r]) = Len(counts[r]) + 1 /\ counts'[r][Len(counts[r]) + 1] = Len(raw)
        /\ \A i \in 1..Len(counts[r]) : counts'[r][i] = counts[r][i]
    BY <1>1, <1>2
  <2>4. \A k \in 1..n : Announced(g, k) = Announced(h, k)
    <3>1. \A k \in 1..n : k \in 0..n /\ k - 1 \in 0..n
      BY <1>2
    <3> QED
      BY <1>8, <3>1 DEF Announced
  <2>5. Announced(g, n + 1) = Len(raw)
    <3>1. g[n + 1].upto = Received /\ g[n] = h[n] /\ n + 1 - 1 = n
      BY <1>2, <1>8
    <3>2. Announced(g, n + 1) = Received - taken - Bit(Waits(h[n]))
      <4>1. n + 1 - 1 = n
        BY <1>2
      <4> QED
        BY <1>4, <3>1, <4>1 DEF Announced
    <3>3. Bit(Waits(h[n])) \in Nat
      BY DEF Bit
    <3>4. Bit(Waits(h[n])) = Len(pending[0])
      BY <1>4
    <3>5. Received - taken = Len(pending[0]) + Len(raw)
      BY <1>2, <1>5
    <3> QED
      BY <1>2, <3>2, <3>4, <3>5
  <2>6. ASSUME NEW i \in 1..Len(counts'[r]) PROVE counts'[r][i] = Announced(g, Told(r) + i)
    <3>1. CASE i = Len(counts[r]) + 1
      <4>1. Told(r) + i = n + 1
        <5> HIDE DEF n
        <5> QED
          BY <1>2, <2>2, <3>1
      <4> QED
        BY <2>3, <2>5, <3>1, <4>1
    <3>2. CASE i # Len(counts[r]) + 1
      <4>1. i \in 1..Len(counts[r]) /\ Told(r) + i \in 1..n
        BY <2>2, <2>3, <3>2
      <4>2. counts[r][i] = Announced(h, Told(r) + i)
        BY <2>1, <4>1 DEF Obeys
      <4> QED
        BY <2>3, <2>4, <4>1, <4>2
    <3> QED
      BY <3>1, <3>2
  <2>7. pc[r] \in {"take", "handle"} => Done(r) + 1 \in 0..n
    BY <1>2, <2>1, <2>2 DEF Told, Bit
  <2>8. /\ g[Done(r)] = h[Done(r)] /\ Got(r, g)' = Got(r, h)
        /\ pc[r] \in {"take", "handle"} => g[Done(r) + 1] = h[Done(r) + 1]
    BY <1>8, <1>11, <2>1, <2>7
  <2>9. Told(r)' = Told(r)
    BY <2>1 DEF Told, Bit
  <2>10. /\ Told(r)' + Len(counts'[r]) = Len(log')
         /\ \A i \in 1..Len(counts'[r]) : counts'[r][i] = Announced(g, Told(r)' + i)
    <3>1. Told(r) + Len(counts'[r]) = Len(log')
      BY <1>2, <1>9, <2>2, <2>3
    <3> QED
      BY <2>6, <2>9, <3>1
  <2>11. /\ pc[r] \notin {"poll", "publish"}
         /\ pc[r] \notin {"count", "take", "handle"} => pending[r] = << >>
         /\ pc[r] = "count" => Len(pending[r]) = Bit(Waits(h[Done(r)]))
         /\ pc[r] = "take" => Got(r, h) + want[r] = h[Done(r) + 1].upto
         /\ pc[r] = "handle" => Got(r, h) = h[Done(r) + 1].upto
    BY <2>1 DEF Obeys
  <2>12. /\ pc'[r] \notin {"poll", "publish"}
         /\ pc'[r] \notin {"count", "take", "handle"} => pending'[r] = << >>
         /\ pc'[r] = "count" => Len(pending'[r]) = Bit(Waits(g[Done(r)']))
         /\ pc'[r] = "take" => Got(r, g)' + want'[r] = g[Done(r)' + 1].upto
         /\ pc'[r] = "handle" => Got(r, g)' = g[Done(r)' + 1].upto
    BY <1>1, <2>1, <2>8, <2>11
  <2> QED
    BY <2>10, <2>12 DEF Obeys, Announced, Waits, Bit
<1>17. Good(g)'
  BY <1>8, <1>13, <1>14, <1>15, <1>16 DEF Good
<1>18. TypeOK'
  <2>1. pc' \in [Ranks -> {"start", "poll", "publish", "count", "take", "handle", "process",
                           "stopping", "stopped"}]
    BY <1>1 DEF TypeOK
  <2>2. counts' \in [Others -> Seq(Nat)] /\ log' \in Seq(Seq(Msgs)) /\ taken' \in Nat
    BY <1>1, <1>2, <1>6
  <2> QED
    BY <1>1, <2>1, <2>2 DEF TypeOK
<1> QED
  BY <1>17, <1>18

-----------------------------------------------------------------------------
(* Another rank takes its messages, and the number of them. *)

LEMMA OtherStep ==
  ASSUME TypeOK, NEW h, Good(h), NEW r \in Others,
         /\ log' = log /\ taken' = taken /\ arrived' = arrived /\ inbox' = inbox /\ raw' = raw
         /\ applied' = applied /\ left' = left /\ last' = last /\ ongoing' = ongoing
         /\ launched' = launched,
         \A s \in Ranks \ {r} : pc'[s] = pc[s] /\ pending'[s] = pending[s] /\ want'[s] = want[s],
         \A s \in Others \ {r} : sub'[s] = sub[s] /\ counts'[s] = counts[s],
         pc[r] # "process", pc'[r] # "process",
         Slice(arrived, pending'[r], h[Done(r)].upto, Got(r, h)'),
         Slice(arrived, sub'[r], Got(r, h)', Out), Obeys(r, h)'
  PROVE  Good(h)'
<1>1. History(h)'
  BY HistorySame DEF Good
<1>2. r \in Ranks /\ 0 \in Ranks \ {r}
  BY RankZero DEF Others
<1>3. ASSUME NEW s \in Ranks PROVE Follows(s)' /\ Computes(s, h)'
  <2>1. pc'[s] = "process" <=> pc[s] = "process"
    BY <1>2
  <2>2. Follows(s) /\ Computes(s, h)
    BY DEF Good
  <2> QED
    BY <2>1, <2>2, ComputesSame
<1>4. ASSUME NEW s \in Others PROVE Obeys(s, h)'
  <2>1. Obeys(s, h) /\ s \in Ranks
    BY RankZero DEF Good
  <2>2. CASE s # r
    BY <2>1, <2>2, ObeysSame
  <2>3. CASE s = r
    BY <2>3
  <2> QED
    BY <2>2, <2>3
<1>5. /\ \A s \in Ranks : Done(s)' = Done(s)
      /\ \A s \in Ranks \ {r} : Got(s, h)' = Got(s, h)
      /\ Received' = Received /\ Out' = Out
  BY DEF Done, Got, Received, Out
<1>6. Stream(h)'
  <2>1. ASSUME NEW s \in Ranks PROVE Slice(arrived', pending'[s], h[Done(s)'].upto, Got(s, h)')
    <3>1. Slice(arrived, pending[s], h[Done(s)].upto, Got(s, h))
      BY DEF Good, Stream
    <3>2. CASE s # r
      BY <1>5, <3>1, <3>2
    <3>3. CASE s = r
      BY <1>5, <3>3
    <3> QED
      BY <3>2, <3>3
  <2>2. ASSUME NEW s \in Others PROVE Slice(arrived', sub'[s], Got(s, h)', Out')
    <3>1. Slice(arrived, sub[s], Got(s, h), Out) /\ s \in Ranks
      BY RankZero DEF Good, Stream
    <3>2. CASE s # r
      BY <1>5, <3>1, <3>2
    <3>3. CASE s = r
      BY <1>5, <3>3
    <3> QED
      BY <3>2, <3>3
  <2>3. /\ Slice(arrived', inbox', Received', Len(arrived'))
        /\ Slice(arrived', raw', Out', Received') /\ Got(0, h)' = Out'
    BY <1>2, <1>5 DEF Good, Stream
  <2> QED
    BY <2>1, <2>2, <2>3 DEF Stream
<1>7. Leads(h)'
  BY <1>2, <1>5 DEF Good, Leads, Bit, Waits
<1> QED
  BY <1>1, <1>3, <1>4, <1>6, <1>7 DEF Good

\* A message goes from the socket to pending_msgs.
LEMMA MessageTaken ==
  ASSUME TypeOK, NEW h, Good(h), NEW r \in Others, sub[r] # << >>, applied' = applied,
         sub' = [sub EXCEPT ![r] = Tail(@)],
         pending' = [pending EXCEPT ![r] = Append(@, Head(sub[r]))]
  PROVE  /\ Done(r)' = Done(r) /\ Got(r, h)' = Got(r, h) + 1
         /\ Len(pending'[r]) = Len(pending[r]) + 1
         /\ Slice(arrived, pending'[r], h[Done(r)].upto, Got(r, h)')
         /\ Slice(arrived, sub'[r], Got(r, h)', Out)
         /\ \A s \in Ranks \ {r} : pending'[s] = pending[s]
         /\ \A s \in Others \ {r} : sub'[s] = sub[s]
         /\ pending' \in [Ranks -> Seq(Msgs)] /\ sub' \in [Others -> Seq(Msgs)]
<1> DEFINE x == Head(sub[r])
           p == pending[r]
           s == sub[r]
<1>1. /\ arrived \in Seq(Msgs) /\ p \in Seq(Msgs) /\ s \in Seq(Msgs) /\ r \in Ranks
      /\ pending \in [Ranks -> Seq(Msgs)] /\ sub \in [Others -> Seq(Msgs)]
  BY RankZero DEF TypeOK
<1>2. /\ Got(r, h) \in Nat /\ h[Done(r)].upto \in Nat /\ Out \in Nat /\ Len(p) \in Nat
      /\ Got(r, h) = h[Done(r)].upto + Len(p) /\ Len(arrived) \in Nat
  BY <1>1, Places DEF Got
<1>3. Slice(arrived, p, h[Done(r)].upto, Got(r, h)) /\ Slice(arrived, s, Got(r, h), Out)
  BY <1>1 DEF Good, Stream
<1>4. pending'[r] = Append(p, x) /\ sub'[r] = Tail(s)
  BY <1>1
<1> HIDE DEF p
<1>5. /\ Slice(arrived, Tail(s), Got(r, h) + 1, Out) /\ x = arrived[Got(r, h) + 1]
      /\ Got(r, h) + 1 <= Out /\ x \in Msgs /\ Tail(s) \in Seq(Msgs)
  <2>1. s # << >> /\ x = Head(s)
    OBVIOUS
  <2> DEFINE a == Got(r, h)
  <2>2. a \in Nat /\ Slice(arrived, s, a, Out)
    BY <1>2, <1>3
  <2> HIDE DEF a, s, x
  <2>3. /\ Slice(arrived, Tail(s), a + 1, Out) /\ Head(s) = arrived[a + 1]
        /\ a + 1 <= Out /\ Head(s) \in Msgs /\ Tail(s) \in Seq(Msgs)
    BY <1>1, <1>2, <2>1, <2>2, SliceTail
  <2> QED
    BY <2>1, <2>3 DEF a
<1>6. Got(r, h) < Len(arrived)
  <2>1. Out <= Len(arrived)
    BY <1>3 DEF Slice
  <2> QED
    BY <1>2, <1>5, <2>1
<1> HIDE DEF x, s
<1>7. Slice(arrived, Append(p, x), h[Done(r)].upto, Got(r, h) + 1)
  BY <1>1, <1>2, <1>3, <1>5, <1>6, SliceAppend
<1>8. Len(pending'[r]) = Len(p) + 1
  BY <1>1, <1>4, <1>5
<1>9. Done(r)' = Done(r)
  BY DEF Done
<1>10. Got(r, h)' = Got(r, h) + 1
  <2> DEFINE a == h[Done(r)].upto
             b == Len(p)
  <2>1. Got(r, h)' = a + Len(pending'[r])
    BY <1>9 DEF Got
  <2>2. Got(r, h) = a + b /\ Len(pending'[r]) = b + 1 /\ a \in Nat /\ b \in Nat
    BY <1>2, <1>8
  <2> HIDE DEF a, b
  <2>3. a + (b + 1) = (a + b) + 1
    BY <2>2
  <2> QED
    BY <2>1, <2>2, <2>3
<1>11. pending' \in [Ranks -> Seq(Msgs)] /\ sub' \in [Others -> Seq(Msgs)]
  <2>1. pending' = [pending EXCEPT ![r] = Append(p, x)] /\ sub' = [sub EXCEPT ![r] = Tail(s)]
    BY <1>1 DEF p, x, s
  <2>2. Append(p, x) \in Seq(Msgs)
    BY <1>1, <1>5
  <2> HIDE DEF p, x, s
  <2> QED
    BY <1>1, <1>5, <2>1, <2>2
<1>12. /\ \A t \in Ranks \ {r} : pending'[t] = pending[t]
       /\ \A t \in Others \ {r} : sub'[t] = sub[t]
  BY <1>1
<1> QED
  BY <1>4, <1>5, <1>7, <1>8, <1>9, <1>10, <1>11, <1>12 DEF p, s

LEMMA GotoType ==
  ASSUME TypeOK, NEW r \in Ranks,
         NEW l \in {"start", "poll", "publish", "count", "take", "handle", "process",
                    "stopping", "stopped"}, Goto(r, l)
  PROVE  /\ pc' \in [Ranks -> {"start", "poll", "publish", "count", "take", "handle",
                               "process", "stopping", "stopped"}]
         /\ pc'[r] = l /\ \A s \in Ranks \ {r} : pc'[s] = pc[s]
BY DEF TypeOK, Goto

LEMMA Wait1Step ==
  ASSUME TypeOK, NEW h, Good(h), NEW r \in Others, Wait1(r)
  PROVE  Good(h)' /\ TypeOK'
<1>1. /\ pc[r] = "start" /\ Blocking(r) /\ sub[r] # << >>
      /\ sub' = [sub EXCEPT ![r] = Tail(@)]
      /\ pending' = [pending EXCEPT ![r] = Append(@, Head(sub[r]))] /\ Goto(r, "count")
      /\ inbox' = inbox /\ joined' = joined /\ counts' = counts /\ raw' = raw /\ want' = want
      /\ left' = left /\ last' = last /\ ongoing' = ongoing /\ launched' = launched
      /\ replies' = replies /\ arrived' = arrived /\ taken' = taken /\ log' = log
      /\ applied' = applied
  BY DEF Wait1, AddPending, batchVars, historyVars
<1>2. r \in Ranks /\ Obeys(r, h) /\ Done(r) \in 0..Len(log) /\ Len(log) \in Nat
  BY RankZero, Places DEF Good
<1>3. /\ Done(r)' = Done(r) /\ Got(r, h)' = Got(r, h) + 1
      /\ Len(pending'[r]) = Len(pending[r]) + 1
      /\ Slice(arrived, pending'[r], h[Done(r)].upto, Got(r, h)')
      /\ Slice(arrived, sub'[r], Got(r, h)', Out)
      /\ \A s \in Ranks \ {r} : pending'[s] = pending[s]
      /\ \A s \in Others \ {r} : sub'[s] = sub[s]
      /\ pending' \in [Ranks -> Seq(Msgs)] /\ sub' \in [Others -> Seq(Msgs)]
  BY <1>1, MessageTaken
<1>4. /\ pc' \in [Ranks -> {"start", "poll", "publish", "count", "take", "handle",
                            "process", "stopping", "stopped"}]
      /\ pc'[r] = "count" /\ \A s \in Ranks \ {r} : pc'[s] = pc[s]
  BY <1>1, <1>2, GotoType
<1>5. Obeys(r, h)'
  <2>1. Waits(h[Done(r)]) /\ pending[r] = << >>
    BY <1>1, <1>2, BlockingWaits DEF Obeys
  <2>2. Len(pending'[r]) = Bit(Waits(h[Done(r)]))
    BY <1>3, <2>1 DEF Bit
  <2>3. Told(r)' = Told(r)
    BY <1>1, <1>3, <1>4 DEF Told, Bit
  <2> QED
    BY <1>1, <1>2, <1>3, <1>4, <2>2, <2>3 DEF Obeys, Announced, Waits, Bit
<1>6. Good(h)'
  BY <1>1, <1>3, <1>4, <1>5, OtherStep
<1>7. TypeOK'
  BY <1>1, <1>3, <1>4 DEF TypeOK
<1> QED
  BY <1>6, <1>7

LEMMA TakeMsgStep ==
  ASSUME TypeOK, NEW h, Good(h), NEW r \in Others, TakeMsg(r)
  PROVE  Good(h)' /\ TypeOK'
<1>1. /\ pc[r] = "take" /\ want[r] > 0 /\ sub[r] # << >>
      /\ sub' = [sub EXCEPT ![r] = Tail(@)] /\ want' = [want EXCEPT ![r] = @ - 1]
      /\ pending' = [pending EXCEPT ![r] = Append(@, Head(sub[r]))]
      /\ inbox' = inbox /\ joined' = joined /\ counts' = counts /\ raw' = raw /\ pc' = pc
      /\ left' = left /\ last' = last /\ ongoing' = ongoing /\ launched' = launched
      /\ replies' = replies /\ arrived' = arrived /\ taken' = taken /\ log' = log
      /\ applied' = applied
  BY DEF TakeMsg, AddPending, batchVars, historyVars
<1>2. /\ r \in Ranks /\ Obeys(r, h) /\ Done(r) \in 0..Len(log) /\ Len(log) \in Nat
      /\ Got(r, h) \in Nat
  BY RankZero, Places DEF Good
<1>3. /\ Done(r)' = Done(r) /\ Got(r, h)' = Got(r, h) + 1
      /\ Len(pending'[r]) = Len(pending[r]) + 1
      /\ Slice(arrived, pending'[r], h[Done(r)].upto, Got(r, h)')
      /\ Slice(arrived, sub'[r], Got(r, h)', Out)
      /\ \A s \in Ranks \ {r} : pending'[s] = pending[s]
      /\ \A s \in Others \ {r} : sub'[s] = sub[s]
      /\ pending' \in [Ranks -> Seq(Msgs)] /\ sub' \in [Others -> Seq(Msgs)]
  BY <1>1, MessageTaken
<1>4. /\ want' \in [Ranks -> Nat] /\ want[r] \in Nat /\ want'[r] = want[r] - 1
      /\ \A s \in Ranks \ {r} : want'[s] = want[s]
  <2>1. want \in [Ranks -> Nat]
    BY DEF TypeOK
  <2> QED
    BY <1>1, <1>2, <2>1
<1>5. Obeys(r, h)'
  <2>1. Got(r, h) + want[r] = h[Done(r) + 1].upto
    BY <1>1, <1>2 DEF Obeys
  <2>2. Got(r, h)' + want'[r] = h[Done(r) + 1].upto
    <3> DEFINE a == Got(r, h)
               b == want[r]
    <3>1. Got(r, h)' = a + 1 /\ want'[r] = b - 1 /\ a \in Nat /\ b \in Nat
      BY <1>2, <1>3, <1>4
    <3>2. a + b = h[Done(r) + 1].upto
      BY <2>1
    <3> HIDE DEF a, b
    <3>3. (a + 1) + (b - 1) = a + b
      BY <3>1
    <3> QED
      BY <3>1, <3>2, <3>3
  <2>3. Told(r)' = Told(r)
    BY <1>1, <1>3 DEF Told, Bit
  <2> QED
    BY <1>1, <1>2, <1>3, <2>2, <2>3 DEF Obeys, Announced, Waits, Bit
<1>6. Good(h)'
  <2>1. pc[r] # "process" /\ pc'[r] # "process"
    BY <1>1
  <2>2. /\ \A s \in Ranks \ {r} : pc'[s] = pc[s] /\ pending'[s] = pending[s] /\ want'[s] = want[s]
        /\ \A s \in Others \ {r} : sub'[s] = sub[s] /\ counts'[s] = counts[s]
    BY <1>1, <1>3, <1>4
  <2> QED
    BY <1>1, <1>3, <1>5, <2>1, <2>2, OtherStep
<1>7. TypeOK'
  BY <1>1, <1>3, <1>4 DEF TypeOK
<1> QED
  BY <1>6, <1>7

\* Another rank goes on to the number, or to handle, without taking a message.
LEMMA GoOnStep ==
  ASSUME TypeOK, NEW h, Good(h), NEW r \in Others, NoWait1(r) \/ TookAll(r)
  PROVE  Good(h)' /\ TypeOK'
<1> DEFINE l == IF pc[r] = "start" THEN "count" ELSE "handle"
<1>1. /\ (pc[r] = "start" /\ ~ Blocking(r)) \/ (pc[r] = "take" /\ want[r] = 0)
      /\ Goto(r, l) /\ pending' = pending /\ sub' = sub
      /\ inbox' = inbox /\ joined' = joined /\ counts' = counts /\ raw' = raw /\ want' = want
      /\ left' = left /\ last' = last /\ ongoing' = ongoing /\ launched' = launched
      /\ replies' = replies /\ arrived' = arrived /\ taken' = taken /\ log' = log
      /\ applied' = applied
  BY DEF NoWait1, TookAll, socketVars, batchVars, historyVars
<1>2. /\ r \in Ranks /\ Obeys(r, h) /\ Done(r) \in 0..Len(log) /\ Len(log) \in Nat
      /\ Got(r, h) \in Nat
  BY RankZero, Places DEF Good
<1>3. Done(r)' = Done(r) /\ Got(r, h)' = Got(r, h)
  BY <1>1 DEF Done, Got
<1>4. /\ pc' \in [Ranks -> {"start", "poll", "publish", "count", "take", "handle",
                            "process", "stopping", "stopped"}]
      /\ pc'[r] = l /\ \A s \in Ranks \ {r} : pc'[s] = pc[s]
  BY <1>1, <1>2, GotoType
<1>5. /\ Slice(arrived, pending[r], h[Done(r)].upto, Got(r, h))
      /\ Slice(arrived, sub[r], Got(r, h), Out)
  BY <1>2 DEF Good, Stream
<1>6. Told(r)' = Told(r)
  BY <1>1, <1>3, <1>4 DEF Told, Bit
<1>7. Obeys(r, h)'
  <2>1. CASE pc[r] = "start"
    <3>1. pending[r] = << >> /\ ~ Waits(h[Done(r)])
      BY <1>1, <1>2, <2>1, BlockingWaits DEF Obeys
    <3>2. Len(pending[r]) = Bit(Waits(h[Done(r)]))
      BY <3>1 DEF Bit
    <3> QED
      BY <1>1, <1>2, <1>3, <1>4, <1>6, <2>1, <3>2 DEF Obeys, Announced, Waits, Bit
  <2>2. CASE pc[r] = "take"
    <3>1. Got(r, h) + want[r] = h[Done(r) + 1].upto /\ want[r] = 0
      BY <1>1, <1>2, <2>2 DEF Obeys
    <3>2. Got(r, h) = h[Done(r) + 1].upto
      BY <1>2, <3>1
    <3> QED
      BY <1>1, <1>2, <1>3, <1>4, <1>6, <2>2, <3>2 DEF Obeys, Announced, Waits, Bit
  <2> QED
    BY <1>1, <2>1, <2>2
<1>8. Good(h)'
  <2>1. pc[r] # "process" /\ pc'[r] # "process"
    BY <1>1, <1>4
  <2>2. /\ Slice(arrived, pending'[r], h[Done(r)].upto, Got(r, h)')
        /\ Slice(arrived, sub'[r], Got(r, h)', Out)
    BY <1>1, <1>3, <1>5
  <2> QED
    BY <1>1, <1>4, <1>7, <2>1, <2>2, OtherStep
<1>9. TypeOK'
  BY <1>1, <1>4 DEF TypeOK
<1> QED
  BY <1>8, <1>9

LEMMA TakeCountStep ==
  ASSUME TypeOK, NEW h, Good(h), NEW r \in Others, TakeCount(r)
  PROVE  Good(h)' /\ TypeOK'
<1> DEFINE q == counts[r]
           n == Done(r)
<1>1. /\ pc[r] = "count" /\ q # << >> /\ Goto(r, "take")
      /\ want' = [want EXCEPT ![r] = Head(q)] /\ counts' = [counts EXCEPT ![r] = Tail(@)]
      /\ inbox' = inbox /\ joined' = joined /\ sub' = sub /\ raw' = raw /\ pending' = pending
      /\ left' = left /\ last' = last /\ ongoing' = ongoing /\ launched' = launched
      /\ replies' = replies /\ arrived' = arrived /\ taken' = taken /\ log' = log
      /\ applied' = applied
  BY DEF TakeCount, batchVars, historyVars
<1>2. /\ r \in Ranks /\ Obeys(r, h) /\ n \in 0..Len(log) /\ Len(log) \in Nat /\ n \in Nat
      /\ Got(r, h) \in Nat /\ Got(r, h) = h[n].upto + Len(pending[r]) /\ Len(pending[r]) \in Nat
      /\ h[n].upto \in Nat
  BY RankZero, Places DEF Good, Got
<1>3. /\ counts \in [Others -> Seq(Nat)] /\ want \in [Ranks -> Nat] /\ q \in Seq(Nat)
  BY DEF TypeOK
<1>4. /\ Len(q) \in Nat /\ Len(q) > 0 /\ Head(q) = q[1] /\ Head(q) \in Nat
      /\ Tail(q) \in Seq(Nat) /\ Len(Tail(q)) = Len(q) - 1
      /\ \A i \in 1..(Len(q) - 1) : Tail(q)[i] = q[i + 1]
  <2> HIDE DEF q
  <2> QED
    BY <1>1, <1>3
<1>5. /\ counts' \in [Others -> Seq(Nat)] /\ counts'[r] = Tail(q)
      /\ \A s \in Others \ {r} : counts'[s] = counts[s]
  BY <1>1, <1>3, <1>4
<1>6. /\ want' \in [Ranks -> Nat] /\ want'[r] = q[1]
      /\ \A s \in Ranks \ {r} : want'[s] = want[s]
  BY <1>1, <1>2, <1>3, <1>4
<1>7. /\ pc' \in [Ranks -> {"start", "poll", "publish", "count", "take", "handle",
                            "process", "stopping", "stopped"}]
      /\ pc'[r] = "take" /\ \A s \in Ranks \ {r} : pc'[s] = pc[s]
  BY <1>1, <1>2, GotoType
<1>8. Done(r)' = n /\ Got(r, h)' = Got(r, h) /\ Told(r) = n /\ Told(r)' = n + 1
  <2>1. Done(r)' = n /\ Got(r, h)' = Got(r, h)
    BY <1>1 DEF Done, Got
  <2> QED
    BY <1>1, <1>2, <1>7, <2>1 DEF Told, Bit
<1>9. /\ n + Len(q) = Len(log) /\ \A i \in 1..Len(q) : q[i] = Announced(h, n + i)
      /\ Len(pending[r]) = Bit(Waits(h[n]))
  <2>1. /\ Told(r) + Len(counts[r]) = Len(log)
        /\ \A i \in 1..Len(counts[r]) : counts[r][i] = Announced(h, Told(r) + i)
        /\ Len(pending[r]) = Bit(Waits(h[Done(r)]))
    BY <1>1, <1>2 DEF Obeys
  <2> QED
    BY <1>8, <2>1
<1> HIDE DEF q, n
<1>10. Got(r, h) + want'[r] = h[n + 1].upto
  <2>1. q[1] = Announced(h, n + 1) /\ n + 1 \in 0..Len(log)
    BY <1>2, <1>4, <1>9
  <2>2. q[1] = h[n + 1].upto - h[n].upto - Bit(Waits(h[n]))
    <3>1. (n + 1) - 1 = n
      BY <1>2
    <3>2. Announced(h, n + 1) = h[n + 1].upto - h[(n + 1) - 1].upto - Bit(Waits(h[(n + 1) - 1]))
      BY DEF Announced
    <3> QED
      BY <2>1, <3>1, <3>2
  <2>3. h[n + 1].upto \in Nat
    BY <2>1, PointFacts DEF Good
  <2> QED
    BY <1>2, <1>6, <1>9, <2>2, <2>3
<1>11. /\ (n + 1) + Len(counts'[r]) = Len(log)
       /\ \A i \in 1..Len(counts'[r]) : counts'[r][i] = Announced(h, (n + 1) + i)
  <2>1. ASSUME NEW i \in 1..Len(counts'[r]) PROVE counts'[r][i] = Announced(h, (n + 1) + i)
    <3>1. i \in 1..(Len(q) - 1) /\ i + 1 \in 1..Len(q) /\ (n + 1) + i = n + (i + 1)
      BY <1>2, <1>4, <1>5
    <3>2. counts'[r][i] = q[i + 1] /\ q[i + 1] = Announced(h, n + (i + 1))
      BY <1>4, <1>5, <1>9, <3>1
    <3> QED
      BY <3>1, <3>2
  <2>2. (n + 1) + Len(counts'[r]) = Len(log)
    BY <1>2, <1>4, <1>5, <1>9
  <2> QED
    BY <2>1, <2>2
<1>12. Obeys(r, h)'
  <2>1. /\ Told(r)' + Len(counts'[r]) = Len(log')
        /\ \A i \in 1..Len(counts'[r]) : counts'[r][i] = Announced(h, Told(r)' + i)
    BY <1>1, <1>8, <1>11
  <2>2. Got(r, h)' + want'[r] = h[Done(r)' + 1].upto
    BY <1>8, <1>10
  <2> QED
    BY <1>7, <2>1, <2>2 DEF Obeys, Announced, Waits, Bit
<1>13. Good(h)'
  <2>1. /\ Slice(arrived, pending'[r], h[Done(r)].upto, Got(r, h)')
        /\ Slice(arrived, sub'[r], Got(r, h)', Out)
    BY <1>1, <1>2, <1>8 DEF Good, Stream
  <2>2. pc[r] # "process" /\ pc'[r] # "process"
    BY <1>1, <1>7
  <2> QED
    BY <1>1, <1>5, <1>6, <1>7, <1>12, <2>1, <2>2, OtherStep
<1>14. TypeOK'
  BY <1>1, <1>5, <1>6, <1>7 DEF TypeOK
<1> QED
  BY <1>13, <1>14

-----------------------------------------------------------------------------
(* A rank handles the messages of an iteration. *)

\* They are those of the next entry of the log.
LEMMA HandlesNext ==
  ASSUME TypeOK, NEW h, Good(h), NEW r \in Ranks, pc[r] = "handle"
  PROVE  /\ Done(r) \in Nat /\ Done(r) + 1 \in 1..Len(log)
         /\ pending[r] = log[Done(r) + 1] /\ Got(r, h) = h[Done(r) + 1].upto
         /\ h[Done(r) + 1] = After(h[Done(r)], pending[r], h[Done(r) + 1].upto)
<1> DEFINE n == Done(r)
<1>1. /\ n \in 0..Len(log) /\ Len(log) \in Nat /\ n \in Nat /\ h[n].upto \in Nat
      /\ Got(r, h) \in Nat /\ Got(0, h) = Out /\ Out = Received - Len(raw) /\ Received \in Nat
  BY Places
<1>2. n + 1 \in 1..Len(log) /\ Got(r, h) = h[n + 1].upto
  <2>1. CASE r = 0
    <3>1. Len(log) = n + 1 /\ raw = << >> /\ Received = taken
      BY <2>1 DEF Good, Leads, Bit
    <3>2. Got(r, h) = taken /\ h[Len(log)].upto = taken
      BY <1>1, <2>1, <3>1 DEF Good, History
    <3>3. Got(r, h) = h[n + 1].upto
      BY <3>1, <3>2
    <3>4. n + 1 \in 1..Len(log)
      <4> HIDE DEF n
      <4> QED
        BY <1>1, <3>1
    <3> QED
      BY <3>3, <3>4
  <2>2. CASE r \in Others
    <3>1. Told(r) + Len(counts[r]) = Len(log) /\ Got(r, h) = h[n + 1].upto
      BY <2>2 DEF Good, Obeys
    <3>2. Told(r) = n + 1 /\ Len(counts[r]) \in Nat
      BY <2>2 DEF Told, Bit, TypeOK
    <3>3. n + 1 \in 1..Len(log)
      <4> DEFINE c == Len(counts[r])
      <4>1. (n + 1) + c = Len(log) /\ c \in Nat /\ n \in Nat /\ Len(log) \in Nat
        BY <1>1, <3>1, <3>2
      <4> HIDE DEF n, c
      <4> QED
        BY <4>1
    <3> QED
      BY <3>1, <3>3
  <2> QED
    BY <2>1, <2>2, RankZero
<1>3. /\ Slice(arrived, log[n + 1], h[n].upto, h[n + 1].upto)
      /\ h[n + 1] = After(h[n], log[n + 1], h[n + 1].upto)
  <2> PICK k : k = n + 1
    OBVIOUS
  <2> HIDE DEF n
  <2>1. k \in 1..Len(log) /\ k - 1 = n
    BY <1>1, <1>2
  <2>2. /\ Slice(arrived, log[k], h[k - 1].upto, h[k].upto)
        /\ h[k] = After(h[k - 1], log[k], h[k].upto)
    BY <2>1 DEF Good, History
  <2> QED
    BY <2>1, <2>2
<1>4. Slice(arrived, pending[r], h[n].upto, h[n + 1].upto)
  BY <1>2 DEF Good, Stream
<1>5. /\ pending[r] \in Seq(Msgs) /\ arrived \in Seq(Msgs) /\ log[n + 1] \in Seq(Msgs)
      /\ h[n + 1].upto \in Nat
  <2>1. pending[r] \in Seq(Msgs) /\ arrived \in Seq(Msgs) /\ log \in Seq(Seq(Msgs))
    BY DEF TypeOK
  <2> QED
    BY <1>1, <1>2, <2>1
<1>6. pending[r] = log[n + 1]
  <2> HIDE DEF n
  <2> QED
    BY <1>1, <1>3, <1>4, <1>5, SliceEqual
<1> QED
  BY <1>1, <1>2, <1>3, <1>6

\* Rank r has handled them, and what it now computes with is what the history says.
LEMMA AppliedStep ==
  ASSUME TypeOK, NEW h, Good(h), NEW r \in Ranks, NEW l \in {"process", "stopping"},
         pc[r] = "handle", Goto(r, l), Computes(r, h)',
         applied' = [applied EXCEPT ![r] = Append(@, pending[r])],
         pending' = [pending EXCEPT ![r] = << >>],
         /\ inbox' = inbox /\ sub' = sub /\ counts' = counts /\ raw' = raw /\ want' = want
         /\ last' = last /\ arrived' = arrived /\ taken' = taken /\ log' = log,
         \A s \in Ranks \ {r} : /\ left'[s] = left[s] /\ launched'[s] = launched[s]
                                /\ ongoing'[s] = ongoing[s]
  PROVE  /\ Good(h)' /\ applied' \in [Ranks -> Seq(Seq(Msgs))]
         /\ pending' \in [Ranks -> Seq(Msgs)]
         /\ pc' \in [Ranks -> {"start", "poll", "publish", "count", "take", "handle",
                               "process", "stopping", "stopped"}]
<1> DEFINE n == Done(r)
<1>1. /\ n \in Nat /\ n + 1 \in 1..Len(log) /\ pending[r] = log[n + 1]
      /\ Got(r, h) = h[n + 1].upto
  BY HandlesNext
<1>2. /\ pc' \in [Ranks -> {"start", "poll", "publish", "count", "take", "handle",
                            "process", "stopping", "stopped"}]
      /\ pc'[r] = l /\ \A s \in Ranks \ {r} : pc'[s] = pc[s]
  BY GotoType
<1>3. /\ applied \in [Ranks -> Seq(Seq(Msgs))] /\ applied[r] \in Seq(Seq(Msgs))
      /\ pending \in [Ranks -> Seq(Msgs)] /\ pending[r] \in Seq(Msgs) /\ << >> \in Seq(Msgs)
      /\ n = Len(applied[r])
  BY DEF TypeOK, Done
<1>4. /\ applied'[r] = Append(applied[r], pending[r]) /\ pending'[r] = << >>
      /\ \A s \in Ranks \ {r} : applied'[s] = applied[s] /\ pending'[s] = pending[s]
      /\ applied' \in [Ranks -> Seq(Seq(Msgs))] /\ pending' \in [Ranks -> Seq(Msgs)]
  <2>1. Append(applied[r], pending[r]) \in Seq(Seq(Msgs))
    BY <1>3
  <2> QED
    BY <1>3, <2>1
<1>5. /\ Len(applied'[r]) = n + 1 /\ applied'[r][n + 1] = pending[r]
      /\ \A k \in 1..n : applied'[r][k] = applied[r][k]
  BY <1>3, <1>4
<1>6. Done(r)' = n + 1 /\ \A s \in Ranks \ {r} : Done(s)' = Done(s)
  BY <1>4, <1>5 DEF Done
<1>7. /\ \A s \in Ranks : Got(s, h)' = Got(s, h)
      /\ Received' = Received /\ Out' = Out
  <2>1. \A s \in Ranks \ {r} : Got(s, h)' = Got(s, h)
    BY <1>4, <1>6 DEF Got
  <2>2. Got(r, h)' = h[n + 1].upto
    <3>1. Len(pending'[r]) = 0
      BY <1>4
    <3>2. h[n + 1].upto \in Nat
      BY <1>1, PointFacts DEF Good
    <3> HIDE DEF n
    <3> QED
      BY <1>6, <3>1, <3>2 DEF Got
  <2>3. Received' = Received /\ Out' = Out
    BY DEF Received, Out
  <2> QED
    BY <1>1, <2>1, <2>2, <2>3
<1> HIDE DEF n
<1>8. ASSUME NEW s \in Ranks PROVE Follows(s)' /\ Computes(s, h)'
  <2>1. CASE s # r
    <3>1. pc'[s] = "process" <=> pc[s] = "process"
      BY <1>2, <2>1
    <3>2. Follows(s) /\ Computes(s, h)
      BY DEF Good
    <3>3. /\ applied'[s] = applied[s] /\ left'[s] = left[s] /\ launched'[s] = launched[s]
          /\ last'[s] = last[s] /\ ongoing'[s] = ongoing[s]
      BY <1>4, <2>1
    <3> QED
      BY <3>1, <3>2, <3>3, ComputesSame
  <2>2. CASE s = r
    <3>1. Follows(r)'
      <4>1. n <= Len(log) /\ \A k \in 1..n : applied[r][k] = log[k]
        BY DEF Good, Follows, n
      <4>2. \A k \in 1..(n + 1) : applied'[r][k] = log[k]
        BY <1>1, <1>5, <4>1
      <4>3. n + 1 <= Len(log)
        BY <1>1
      <4>4. Done(r)' <= Len(log') /\ \A k \in 1..Done(r)' : applied'[r][k] = log'[k]
        BY <1>6, <4>2, <4>3
      <4> QED
        BY <4>4 DEF Follows
    <3> QED
      BY <2>2, <3>1
  <2> QED
    BY <2>1, <2>2
<1>9. ASSUME NEW s \in Others PROVE Obeys(s, h)'
  <2>1. Obeys(s, h) /\ s \in Ranks
    BY RankZero DEF Good
  <2>2. CASE s # r
    BY <1>2, <1>4, <2>1, <2>2, ObeysSame
  <2>3. CASE s = r
    <3>1. Told(r) = n + 1
      BY DEF Told, Bit, n
    <3>2. Told(r)' = n + 1
      BY <1>1, <1>2, <1>6 DEF Told, Bit
    <3> QED
      BY <1>2, <1>4, <2>1, <2>3, <3>1, <3>2 DEF Obeys, Announced, Waits, Bit
  <2> QED
    BY <2>2, <2>3
<1>10. Stream(h)'
  <2>1. ASSUME NEW s \in Ranks PROVE Slice(arrived', pending'[s], h[Done(s)'].upto, Got(s, h)')
    <3>1. Slice(arrived, pending[s], h[Done(s)].upto, Got(s, h))
      BY DEF Good, Stream
    <3>2. CASE s # r
      BY <1>4, <1>6, <1>7, <3>1, <3>2
    <3>3. CASE s = r
      <4>1. Got(r, h) \in 0..Len(arrived) /\ arrived \in Seq(Msgs)
        <5>1. Got(r, h) \in Nat /\ Len(arrived) \in Nat
          BY Places
        <5> QED
          BY <3>1, <3>3, <5>1 DEF Slice, TypeOK
      <4>2. Slice(arrived, << >>, Got(r, h), Got(r, h))
        BY <4>1, SliceEmpty
      <4> QED
        BY <1>1, <1>4, <1>6, <1>7, <3>3, <4>2
    <3> QED
      BY <3>2, <3>3
  <2>2. ASSUME NEW s \in Others PROVE Slice(arrived', sub'[s], Got(s, h)', Out')
    BY <1>7, RankZero DEF Good, Stream
  <2>3. /\ Slice(arrived', inbox', Received', Len(arrived'))
        /\ Slice(arrived', raw', Out', Received') /\ Got(0, h)' = Out'
    BY <1>7, RankZero DEF Good, Stream
  <2> QED
    BY <2>1, <2>2, <2>3 DEF Stream
<1>11. Leads(h)'
  <2>1. CASE r = 0
    <3>1. Len(log) = n + 1 /\ Received = taken /\ raw = << >>
      BY <2>1 DEF Good, Leads, Bit, n
    <3> QED
      BY <1>1, <1>2, <1>4, <1>6, <1>7, <2>1, <3>1 DEF Leads, Bit
  <2>2. CASE r # 0
    <3>1. /\ pc'[0] = pc[0] /\ Done(0)' = Done(0) /\ pending'[0] = pending[0]
          /\ Received' = Received
      BY <1>2, <1>4, <1>6, <1>7, <2>2, RankZero
    <3> QED
      BY <3>1 DEF Good, Leads, Bit, Waits
  <2> QED
    BY <2>1, <2>2
<1>12. History(h)'
  BY HistorySame DEF Good
<1> QED
  BY <1>2, <1>4, <1>8, <1>9, <1>10, <1>11, <1>12 DEF Good

LEMMA EnumerationFull ==
  ASSUME NEW S, IsFiniteSet(S), NEW s \in SetToSeqs(S)
  PROVE  s \in Seq(S) /\ ToSet(s) = S
<1> DEFINE n == Cardinality(S)
<1>1. n \in Nat
  BY FS_CardinalityType
<1>2. s \in [1..n -> S] /\ \A i, j \in 1..n : s[i] = s[j] => i = j
  BY DEF SetToSeqs
<1>3. s \in Injection(1..n, S)
  BY <1>2 DEF Injection, IsInjective
<1>4. IsFiniteSet(1..n) /\ Cardinality(1..n) = n
  BY <1>1, FS_Interval
<1>5. s \in Surjection(1..n, S)
  BY <1>3, <1>4, FS_Injection
<1>6. \A x \in S : \E i \in 1..n : s[i] = x
  BY <1>5 DEF Surjection
<1>7. s \in Seq(S) /\ DOMAIN s = 1..n
  BY <1>1, <1>2
<1>8. ToSet(s) = S
  BY <1>2, <1>6, <1>7 DEF ToSet
<1> QED
  BY <1>7, <1>8

\* What Handle does to the batches of rank r is what the history says.
LEMMA HandleComputes ==
  ASSUME NEW r, Handle(r)
  PROVE  /\ left' = [left EXCEPT ![r] = Less(left[r], pending[r])]
         /\ launched' = [launched EXCEPT ![r] = IF BatchOf(left[r], pending[r]) = {} THEN @
                                                ELSE @ + 1]
         /\ \E order \in SetToSeqs(BatchOf(left[r], pending[r])) :
              ongoing' = [ongoing EXCEPT ![r] =
                            IF BatchOf(left[r], pending[r]) = {} THEN NoBatch
                            ELSE [number |-> launched[r] + 1, reqs |-> order]]
<1> DEFINE now == [m \in Reqs |-> IF Contains(pending[r], m) THEN Work[m] ELSE left[r][m]]
           batch == {m \in Reqs : now[m] > 0}
<1>1. /\ left' = [left EXCEPT ![r] = [m \in Reqs |-> IF m \in batch THEN now[m] - 1 ELSE 0]]
      /\ launched' = [launched EXCEPT ![r] = IF batch = {} THEN @ ELSE @ + 1]
      /\ \E order \in SetToSeqs(batch) :
           ongoing' = [ongoing EXCEPT ![r] =
                         IF batch = {} THEN NoBatch
                         ELSE [number |-> launched[r] + 1, reqs |-> order]]
  BY DEF Handle
<1>2. now = Now(left[r], pending[r])
  BY DEF Now
<1>3. batch = BatchOf(left[r], pending[r])
  BY <1>2 DEF BatchOf
<1>4. [m \in Reqs |-> IF m \in batch THEN now[m] - 1 ELSE 0] = Less(left[r], pending[r])
  BY <1>2, <1>3 DEF Less
<1> HIDE DEF now, batch
<1> QED
  BY <1>1, <1>3, <1>4

LEMMA HandleStep ==
  ASSUME TypeOK, NEW h, Good(h), NEW r \in Ranks, Handle(r)
  PROVE  Good(h)' /\ TypeOK'
<1> DEFINE n == Done(r)
           p == h[n]
           q == h[n + 1]
           b == BatchOf(left[r], pending[r])
           f == Less(left[r], pending[r])
<1>1. /\ pc[r] = "handle" /\ ~ Contains(pending[r], Exit) /\ Goto(r, "process")
      /\ applied' = [applied EXCEPT ![r] = Append(@, pending[r])]
      /\ pending' = [pending EXCEPT ![r] = << >>]
      /\ inbox' = inbox /\ joined' = joined /\ sub' = sub /\ counts' = counts /\ raw' = raw
      /\ want' = want /\ last' = last /\ replies' = replies /\ arrived' = arrived
      /\ taken' = taken /\ log' = log
  BY DEF Handle, socketVars
<1>2. /\ left' = [left EXCEPT ![r] = f]
      /\ launched' = [launched EXCEPT ![r] = IF b = {} THEN @ ELSE @ + 1]
  BY HandleComputes
<1>3. PICK order \in SetToSeqs(b) :
        ongoing' = [ongoing EXCEPT ![r] =
                      IF b = {} THEN NoBatch ELSE [number |-> launched[r] + 1, reqs |-> order]]
  BY HandleComputes
<1>4. /\ left \in [Ranks -> [Reqs -> Nat]] /\ launched \in [Ranks -> Nat]
      /\ ongoing \in [Ranks -> Batch] /\ left[r] \in [Reqs -> Nat] /\ launched[r] \in Nat
  BY DEF TypeOK
<1>5. /\ n \in Nat /\ n \in 0..Len(log) /\ n + 1 \in 0..Len(log)
      /\ q = After(p, pending[r], q.upto)
  <2>1. /\ n \in Nat /\ n + 1 \in 1..Len(log) /\ q = After(p, pending[r], q.upto)
    BY <1>1, HandlesNext
  <2>2. n \in 0..Len(log) /\ Len(log) \in Nat
    BY Places
  <2> HIDE DEF n
  <2> QED
    BY <2>1, <2>2
<1>6. p.left = left[r] /\ p.launched = launched[r]
  BY DEF Good, Computes
<1>7. /\ q.left = f /\ q.launched = launched[r] + Bit(b # {}) /\ q.batch = b
      /\ q.number = IF b = {} THEN 0 ELSE launched[r] + 1
  <2>1. After(p, pending[r], q.upto) =
          [left |-> f, launched |-> launched[r] + Bit(b # {}),
           number |-> IF b = {} THEN 0 ELSE launched[r] + 1, batch |-> b, upto |-> q.upto]
    BY <1>1, <1>6 DEF After
  <2> HIDE DEF f, b, p, q
  <2> QED
    BY <1>5, <2>1
<1>8. q.left \in [Reqs -> Nat] /\ q.batch \subseteq Reqs
  BY <1>5, PointFacts DEF Good
<1>9. order \in Seq(b) /\ ToSet(order) = b
  <2>1. IsFiniteSet(b)
    BY <1>7, <1>8, RankBroadcastAssumption, FS_Subset
  <2> HIDE DEF b
  <2> QED
    BY <2>1, EnumerationFull
<1>10. /\ ongoing'[r] = IF b = {} THEN NoBatch
                        ELSE [number |-> launched[r] + 1, reqs |-> order]
       /\ \A s \in Ranks \ {r} : ongoing'[s] = ongoing[s]
  BY <1>3, <1>4
<1>11. ongoing'[r] \in Batch /\ IsBatch(ongoing'[r], q)
  <2>1. CASE b = {}
    <3>1. ongoing'[r] = NoBatch
      BY <1>10, <2>1
    <3>2. NoBatch.number = 0 /\ ToSet(NoBatch.reqs) = {}
      BY DEF NoBatch, ToSet
    <3>3. NoBatch \in Batch
      BY DEF NoBatch, Batch
    <3> QED
      BY <1>7, <2>1, <3>1, <3>2, <3>3 DEF IsBatch
  <2>2. CASE b # {}
    <3>1. order \in Seq(Reqs)
      <4>1. b \subseteq Reqs
        BY <1>7, <1>8
      <4> HIDE DEF b
      <4> QED
        BY <1>9, <4>1
    <3>2. ongoing'[r] = [number |-> launched[r] + 1, reqs |-> order]
      BY <1>10, <2>2
    <3>3. [number |-> launched[r] + 1, reqs |-> order] \in Batch
      BY <1>4, <3>1 DEF Batch
    <3> HIDE DEF b, q
    <3>4. IsBatch(ongoing'[r], q)
      BY <1>7, <1>9, <2>2, <3>2 DEF IsBatch
    <3> QED
      BY <3>2, <3>3, <3>4
  <2> QED
    BY <2>1, <2>2
<1>12. left'[r] = q.left /\ launched'[r] = q.launched
  <2>1. left'[r] = f /\ launched'[r] = IF b = {} THEN launched[r] ELSE launched[r] + 1
    BY <1>2, <1>4
  <2> HIDE DEF f, b, q
  <2> QED
    BY <1>4, <1>7, <2>1 DEF Bit
<1>13. Done(r)' = n + 1
  <2>1. applied[r] \in Seq(Seq(Msgs)) /\ pending[r] \in Seq(Msgs)
    BY DEF TypeOK
  <2>2. applied'[r] = Append(applied[r], pending[r])
    BY <1>1 DEF TypeOK
  <2> QED
    BY <2>1, <2>2 DEF Done
<1>14. /\ pc' \in [Ranks -> {"start", "poll", "publish", "count", "take", "handle",
                             "process", "stopping", "stopped"}]
       /\ pc'[r] = "process"
  BY <1>1, GotoType
<1> HIDE DEF n, p, q, b, f
<1>15. Computes(r, h)'
  <2>1. IF Overlap THEN IsBatch(last[r], h[n]) ELSE last[r] = NoBatch
    <3>1. IF Overlap THEN IsBatch(last[r], h[Done(r) - Bit(pc[r] = "process")])
                     ELSE last[r] = NoBatch
      BY DEF Good, Computes
    <3>2. Done(r) - Bit(pc[r] = "process") = n
      BY <1>1, <1>5 DEF Bit, n
    <3> QED
      BY <3>1, <3>2
  <2>2. Done(r)' - Bit(pc'[r] = "process") = n /\ Done(r)' > 0
    BY <1>5, <1>13, <1>14 DEF Bit
  <2>3. /\ left'[r] = h[Done(r)'].left /\ launched'[r] = h[Done(r)'].launched
        /\ IsBatch(ongoing'[r], h[Done(r)'])
    BY <1>11, <1>12, <1>13 DEF q
  <2>4. IF Overlap THEN IsBatch(last'[r], h[Done(r)' - Bit(pc'[r] = "process")])
                   ELSE last'[r] = NoBatch
    BY <1>1, <2>1, <2>2
  <2> QED
    BY <1>14, <2>2, <2>3, <2>4 DEF Computes, IsBatch, Bit
<1>16. \A s \in Ranks \ {r} : /\ left'[s] = left[s] /\ launched'[s] = launched[s]
                              /\ ongoing'[s] = ongoing[s]
  BY <1>2, <1>10
<1>17. Good(h)' /\ applied' \in [Ranks -> Seq(Seq(Msgs))] /\ pending' \in [Ranks -> Seq(Msgs)]
  BY <1>1, <1>15, <1>16, AppliedStep
<1>18. /\ left' \in [Ranks -> [Reqs -> Nat]] /\ launched' \in [Ranks -> Nat]
       /\ ongoing' \in [Ranks -> Batch]
  <2>1. left' \in [Ranks -> [Reqs -> Nat]]
    <3>1. f \in [Reqs -> Nat]
      BY <1>7, <1>8
    <3> QED
      BY <1>2, <1>4, <3>1
  <2>2. launched' \in [Ranks -> Nat]
    BY <1>2, <1>4
  <2>3. ongoing' \in [Ranks -> Batch]
    BY <1>3, <1>4, <1>11
  <2> QED
    BY <2>1, <2>2, <2>3
<1>19. TypeOK'
  BY <1>1, <1>14, <1>17, <1>18 DEF TypeOK
<1> QED
  BY <1>17, <1>19

LEMMA InterruptedStep ==
  ASSUME TypeOK, NEW h, Good(h), NEW r \in Ranks, Interrupted(r)
  PROVE  Good(h)' /\ TypeOK'
<1> DEFINE n == Done(r)
           p == h[n]
           q == h[n + 1]
<1>1. /\ pc[r] = "handle" /\ Contains(pending[r], Exit) /\ Goto(r, "stopping")
      /\ applied' = [applied EXCEPT ![r] = Append(@, pending[r])]
      /\ pending' = [pending EXCEPT ![r] = << >>]
      /\ inbox' = inbox /\ joined' = joined /\ sub' = sub /\ counts' = counts /\ raw' = raw
      /\ want' = want /\ left' = left /\ last' = last /\ ongoing' = ongoing
      /\ launched' = launched /\ replies' = replies /\ arrived' = arrived
      /\ taken' = taken /\ log' = log
  BY DEF Interrupted, socketVars, batchVars
<1>2. /\ n \in 0..Len(log) /\ n \in Nat /\ q = After(p, pending[r], q.upto)
  <2>1. /\ n \in Nat /\ n + 1 \in 1..Len(log) /\ q = After(p, pending[r], q.upto)
    BY <1>1, HandlesNext
  <2>2. n \in 0..Len(log)
    BY Places
  <2> QED
    BY <2>1, <2>2
<1>3. q.left = p.left /\ q.launched = p.launched /\ q.number = p.number /\ q.batch = p.batch
  <2>1. p \in Points
    BY <1>2, PointFacts DEF Good, Point
  <2>2. q = [p EXCEPT !.upto = q.upto]
    BY <1>1, <1>2 DEF After
  <2> HIDE DEF p, q
  <2> QED
    BY <2>1, <2>2 DEF Points
<1>4. Done(r)' = n + 1
  <2>1. applied[r] \in Seq(Seq(Msgs)) /\ pending[r] \in Seq(Msgs)
    BY DEF TypeOK
  <2>2. applied'[r] = Append(applied[r], pending[r])
    BY <1>1 DEF TypeOK
  <2> QED
    BY <2>1, <2>2 DEF Done
<1>5. /\ pc' \in [Ranks -> {"start", "poll", "publish", "count", "take", "handle",
                            "process", "stopping", "stopped"}]
      /\ pc'[r] = "stopping"
  BY <1>1, GotoType
<1>6. /\ left[r] = p.left /\ launched[r] = p.launched /\ ongoing[r] = NoBatch
      /\ IF Overlap THEN IsBatch(last[r], p) ELSE last[r] = NoBatch
  <2>1. n - Bit(pc[r] = "process") = n
    BY <1>1, <1>2 DEF Bit
  <2>2. Computes(r, h)
    BY DEF Good
  <2> QED
    BY <1>1, <2>1, <2>2 DEF Computes
<1> HIDE DEF n, p, q
<1>7. Computes(r, h)'
  <2>1. h[Done(r)'] = q /\ Done(r)' - Bit(pc'[r] = "process") = n + 1
    BY <1>2, <1>4, <1>5 DEF Bit, q
  <2>2. /\ left'[r] = h[Done(r)'].left /\ launched'[r] = h[Done(r)'].launched
        /\ ongoing'[r] = NoBatch
    BY <1>1, <1>3, <1>6, <2>1
  <2>3. IF Overlap THEN IsBatch(last'[r], h[Done(r)' - Bit(pc'[r] = "process")])
                   ELSE last'[r] = NoBatch
    BY <1>1, <1>3, <1>6, <2>1 DEF IsBatch, q
  <2> QED
    BY <1>5, <2>2, <2>3 DEF Computes, IsBatch, Bit
<1>8. /\ Good(h)' /\ applied' \in [Ranks -> Seq(Seq(Msgs))] /\ pending' \in [Ranks -> Seq(Msgs)]
  BY <1>1, <1>7, AppliedStep
<1>9. TypeOK'
  BY <1>1, <1>5, <1>8 DEF TypeOK
<1> QED
  BY <1>8, <1>9

-----------------------------------------------------------------------------
(* The steps that touch no message, and those of the outside. *)

LEMMA LoopStep ==
  ASSUME TypeOK, NEW h, Good(h),
         /\ log' = log /\ taken' = taken /\ arrived' = arrived /\ inbox' = inbox /\ raw' = raw
         /\ sub' = sub /\ counts' = counts /\ pending' = pending /\ want' = want
         /\ applied' = applied,
         \A s \in Ranks : \/ pc'[s] = pc[s]
                          \/ {pc[s], pc'[s]} \subseteq {"start", "process", "stopping", "stopped"},
         \A s \in Ranks : Computes(s, h)'
  PROVE  Good(h)'
<1>1. History(h)'
  BY HistorySame DEF Good
<1>2. /\ \A s \in Ranks : Done(s)' = Done(s) /\ Got(s, h)' = Got(s, h)
      /\ Received' = Received /\ Out' = Out
  BY DEF Done, Got, Received, Out
<1>3. Stream(h)'
  <2>1. \A s \in Ranks : Slice(arrived', pending'[s], h[Done(s)'].upto, Got(s, h)')
    BY <1>2 DEF Good, Stream
  <2>2. \A s \in Others : Slice(arrived', sub'[s], Got(s, h)', Out')
    BY <1>2, RankZero DEF Good, Stream
  <2>3. /\ Slice(arrived', inbox', Received', Len(arrived'))
        /\ Slice(arrived', raw', Out', Received') /\ Got(0, h)' = Out'
    BY <1>2, RankZero DEF Good, Stream
  <2> QED
    BY <2>1, <2>2, <2>3 DEF Stream
<1>4. Leads(h)'
  BY <1>2, RankZero DEF Good, Leads, Bit, Waits
<1>5. ASSUME NEW s \in Ranks PROVE Follows(s)'
  BY <1>2 DEF Good, Follows
<1>6. ASSUME NEW s \in Others PROVE Obeys(s, h)'
  <2>1. Obeys(s, h) /\ s \in Ranks
    BY RankZero DEF Good
  <2>2. CASE pc'[s] = pc[s]
    BY <2>1, <2>2, ObeysSame
  <2>3. CASE {pc[s], pc'[s]} \subseteq {"start", "process", "stopping", "stopped"}
    <3>1. Told(s)' = Told(s)
      BY <1>2, <2>1, <2>3 DEF Told, Bit
    <3> QED
      BY <1>2, <2>1, <2>3, <3>1 DEF Obeys, Announced, Waits, Bit
  <2> QED
    BY <2>1, <2>2, <2>3
<1> QED
  BY <1>1, <1>3, <1>4, <1>5, <1>6 DEF Good

LEMMA ProcessStep ==
  ASSUME TypeOK, NEW h, Good(h), NEW r \in Ranks, Process(r)
  PROVE  Good(h)' /\ TypeOK'
<1> DEFINE n == Done(r)
<1>1. /\ pc[r] = "process" /\ Goto(r, "start")
      /\ last' = [last EXCEPT ![r] = IF Overlap THEN ongoing[r] ELSE NoBatch]
      /\ ongoing' = [ongoing EXCEPT ![r] = NoBatch]
      /\ inbox' = inbox /\ joined' = joined /\ sub' = sub /\ counts' = counts /\ raw' = raw
      /\ pending' = pending /\ want' = want /\ left' = left /\ launched' = launched
      /\ arrived' = arrived /\ taken' = taken /\ log' = log /\ applied' = applied
  BY DEF Process, socketVars, historyVars
<1>2. replies' = Reply(r, IF Overlap THEN last[r] ELSE ongoing[r])
  BY DEF Process
<1>3. /\ last \in [Ranks -> Batch] /\ ongoing \in [Ranks -> Batch] /\ NoBatch \in Batch
  BY DEF TypeOK, NoBatch, Batch
<1>4. /\ last' \in [Ranks -> Batch] /\ ongoing' \in [Ranks -> Batch]
      /\ last'[r] = (IF Overlap THEN ongoing[r] ELSE NoBatch) /\ ongoing'[r] = NoBatch
      /\ \A s \in Ranks \ {r} : last'[s] = last[s] /\ ongoing'[s] = ongoing[s]
  BY <1>1, <1>3
<1>5. /\ pc' \in [Ranks -> {"start", "poll", "publish", "count", "take", "handle",
                            "process", "stopping", "stopped"}]
      /\ pc'[r] = "start" /\ \A s \in Ranks \ {r} : pc'[s] = pc[s]
  BY <1>1, GotoType
<1>6. ASSUME NEW s \in Ranks PROVE Computes(s, h)'
  <2>1. CASE s # r
    <3>1. Follows(s) /\ Computes(s, h)
      BY DEF Good
    <3>2. /\ last'[s] = last[s] /\ ongoing'[s] = ongoing[s] /\ pc'[s] = pc[s]
      BY <1>4, <1>5, <2>1
    <3> QED
      BY <1>1, <3>1, <3>2, ComputesSame
  <2>2. CASE s = r
    <3>1. /\ left[r] = h[n].left /\ launched[r] = h[n].launched /\ n > 0
          /\ IsBatch(ongoing[r], h[n])
      BY <1>1 DEF Good, Computes
    <3>2. Done(r)' = n /\ n \in Nat
      BY <1>1, Places DEF Done
    <3>3. Done(r)' - Bit(pc'[r] = "process") = n
      BY <1>5, <3>2 DEF Bit
    <3>4. IF Overlap THEN IsBatch(last'[r], h[Done(r)' - Bit(pc'[r] = "process")])
                     ELSE last'[r] = NoBatch
      BY <1>4, <3>1, <3>3
    <3>5. /\ left'[r] = h[Done(r)'].left /\ launched'[r] = h[Done(r)'].launched
      BY <1>1, <3>1, <3>2
    <3> HIDE DEF n
    <3>6. Computes(r, h)'
      BY <1>4, <1>5, <3>4, <3>5 DEF Computes, IsBatch, Bit
    <3> QED
      BY <2>2, <3>6
  <2> QED
    BY <2>1, <2>2
<1>7. Good(h)'
  <2>1. \A s \in Ranks :
          \/ pc'[s] = pc[s]
          \/ {pc[s], pc'[s]} \subseteq {"start", "process", "stopping", "stopped"}
    BY <1>1, <1>5
  <2> QED
    BY <1>1, <1>6, <2>1, LoopStep
<1>8. replies' \in [Reqs -> Nat]
  BY <1>2 DEF Reply, TypeOK
<1>9. TypeOK'
  BY <1>1, <1>4, <1>5, <1>8 DEF TypeOK
<1> QED
  BY <1>7, <1>9

LEMMA ShutdownStep ==
  ASSUME TypeOK, NEW h, Good(h), Shutdown
  PROVE  Good(h)' /\ TypeOK'
<1>1. /\ \A r \in Ranks : pc[r] = "stopping"
      /\ pc' = [r \in Ranks |-> "stopped"]
      /\ inbox' = inbox /\ joined' = joined /\ sub' = sub /\ counts' = counts /\ raw' = raw
      /\ pending' = pending /\ want' = want /\ left' = left /\ last' = last
      /\ ongoing' = ongoing /\ launched' = launched /\ replies' = replies
      /\ arrived' = arrived /\ taken' = taken /\ log' = log /\ applied' = applied
  BY DEF Shutdown, socketVars, batchVars, historyVars
<1>2. ASSUME NEW s \in Ranks PROVE Computes(s, h)'
  <2>1. Follows(s) /\ Computes(s, h)
    BY DEF Good
  <2>2. pc'[s] = "process" <=> pc[s] = "process"
    BY <1>1
  <2> QED
    BY <1>1, <2>1, <2>2, ComputesSame
<1>3. Good(h)'
  BY <1>1, <1>2, LoopStep
<1>4. TypeOK'
  BY <1>1 DEF TypeOK
<1> QED
  BY <1>3, <1>4

LEMMA SendStep ==
  ASSUME TypeOK, NEW h, Good(h), NEW m \in Msgs, Send(m)
  PROVE  Good(h)' /\ TypeOK'
<1>1. /\ inbox' = Append(inbox, m) /\ arrived' = Append(arrived, m)
      /\ joined' = joined /\ sub' = sub /\ counts' = counts /\ pc' = pc /\ raw' = raw
      /\ pending' = pending /\ want' = want /\ left' = left /\ last' = last
      /\ ongoing' = ongoing /\ launched' = launched /\ replies' = replies
      /\ taken' = taken /\ log' = log /\ applied' = applied
  BY DEF Send, loopVars, batchVars
<1>2. /\ inbox \in Seq(Msgs) /\ arrived \in Seq(Msgs) /\ raw \in Seq(Msgs)
      /\ \A r \in Ranks : pending[r] \in Seq(Msgs)
      /\ \A r \in Others : sub[r] \in Seq(Msgs)
  BY DEF TypeOK
<1>3. /\ Received \in Nat /\ Out \in Nat /\ Len(arrived) \in Nat /\ Len(inbox) \in Nat
      /\ Received = Len(arrived) - Len(inbox)
      /\ \A r \in Ranks : Got(r, h) \in Nat /\ h[Done(r)].upto \in Nat
  BY Places, RankZero
<1>4. /\ inbox' \in Seq(Msgs) /\ arrived' \in Seq(Msgs)
      /\ Len(inbox') = Len(inbox) + 1 /\ Len(arrived') = Len(arrived) + 1
      /\ arrived'[Len(arrived) + 1] = m
  BY <1>1, <1>2
<1>5. /\ \A r \in Ranks : Done(r)' = Done(r) /\ Got(r, h)' = Got(r, h)
      /\ Received' = Received /\ Out' = Out
  <2>1. \A r \in Ranks : Done(r)' = Done(r) /\ Got(r, h)' = Got(r, h)
    BY <1>1 DEF Done, Got
  <2>2. Received' = Received
    <3>1. Received' = Len(arrived') - Len(inbox')
      BY DEF Received
    <3>2. (Len(arrived) + 1) - (Len(inbox) + 1) = Len(arrived) - Len(inbox)
      BY <1>3
    <3> QED
      BY <1>3, <1>4, <3>1, <3>2
  <2>3. Out' = Out
    BY <1>1, <2>2 DEF Out
  <2> QED
    BY <2>1, <2>2, <2>3
<1>6. Stream(h)'
  <2>1. Slice(arrived', inbox', Received, Len(arrived) + 1)
    <3>1. Slice(arrived, inbox, Received, Len(arrived))
      BY DEF Good, Stream
    <3>2. Slice(arrived', inbox, Received, Len(arrived))
      BY <1>1, <1>2, <1>3, <3>1, SliceMore
    <3>3. Len(arrived) < Len(arrived') /\ m = arrived'[Len(arrived) + 1]
      BY <1>3, <1>4
    <3> QED
      BY <1>1, <1>2, <1>3, <1>4, <3>2, <3>3, SliceAppend
  <2>2. Slice(arrived', raw, Out, Received)
    BY <1>1, <1>2, <1>3, SliceMore DEF Good, Stream
  <2>3. ASSUME NEW r \in Ranks PROVE Slice(arrived', pending[r], h[Done(r)].upto, Got(r, h))
    <3>1. Slice(arrived, pending[r], h[Done(r)].upto, Got(r, h))
      BY DEF Good, Stream
    <3> QED
      BY <1>1, <1>2, <1>3, <3>1, SliceMore
  <2>4. ASSUME NEW r \in Others PROVE Slice(arrived', sub[r], Got(r, h), Out)
    <3>1. Slice(arrived, sub[r], Got(r, h), Out) /\ r \in Ranks
      BY RankZero DEF Good, Stream
    <3> QED
      BY <1>1, <1>2, <1>3, <3>1, SliceMore
  <2>5. /\ \A r \in Ranks : Slice(arrived', pending'[r], h[Done(r)'].upto, Got(r, h)')
        /\ \A r \in Others : Slice(arrived', sub'[r], Got(r, h)', Out')
    BY <1>1, <1>5, <2>3, <2>4, RankZero
  <2>6. /\ Slice(arrived', inbox', Received', Len(arrived'))
        /\ Slice(arrived', raw', Out', Received') /\ Got(0, h)' = Out'
    BY <1>1, <1>4, <1>5, <2>1, <2>2, RankZero DEF Good, Stream
  <2> QED
    BY <2>5, <2>6 DEF Stream
<1>7. History(h)'
  BY <1>1, HistorySame DEF Good
<1>8. Leads(h)'
  BY <1>1, <1>5, RankZero DEF Good, Leads, Bit, Waits
<1>9. ASSUME NEW r \in Ranks PROVE Follows(r)' /\ Computes(r, h)'
  <2>1. Follows(r) /\ Computes(r, h)
    BY DEF Good
  <2> QED
    BY <1>1, <2>1, ComputesSame
<1>10. ASSUME NEW r \in Others PROVE Obeys(r, h)'
  <2>1. Obeys(r, h)
    BY DEF Good
  <2> QED
    BY <1>1, <2>1, ObeysSame
<1>11. Good(h)'
  BY <1>6, <1>7, <1>8, <1>9, <1>10 DEF Good
<1>12. TypeOK'
  BY <1>1, <1>4 DEF TypeOK
<1> QED
  BY <1>11, <1>12

\* A step that changes nothing but the subscribers rank 0 knows
LEMMA JoinStep ==
  ASSUME TypeOK, NEW h, Good(h), joined' \subseteq Others,
         UNCHANGED << inbox, sub, counts, loopVars, batchVars, historyVars >>
  PROVE  Good(h)' /\ TypeOK'
<1>1. /\ inbox' = inbox /\ sub' = sub /\ counts' = counts /\ pc' = pc /\ raw' = raw
      /\ pending' = pending /\ want' = want /\ left' = left /\ last' = last
      /\ ongoing' = ongoing /\ launched' = launched /\ replies' = replies
      /\ arrived' = arrived /\ taken' = taken /\ log' = log /\ applied' = applied
  BY DEF loopVars, batchVars, historyVars
<1>2. ASSUME NEW r \in Ranks PROVE Computes(r, h)'
  <2>1. Follows(r) /\ Computes(r, h)
    BY DEF Good
  <2> QED
    BY <1>1, <2>1, ComputesSame
<1>3. Good(h)'
  BY <1>1, <1>2, LoopStep
<1>4. TypeOK'
  BY <1>1 DEF TypeOK
<1> QED
  BY <1>3, <1>4

LEMMA InitGood ==
  ASSUME Init
  PROVE  IInv
<1> PICK h : h = [k \in 0..0 |-> Beginning]
  OBVIOUS
<1>1. Beginning \in Point /\ Beginning.upto = 0 /\ Beginning.batch = {}
      /\ Beginning.number = 0 /\ Beginning.left = [m \in Reqs |-> 0] /\ Beginning.launched = 0
  <2>1. Beginning \in Points
    BY DEF Beginning, Points
  <2> QED
    BY <2>1 DEF Beginning, Point
<1>2. /\ inbox = << >> /\ joined = {} /\ arrived = << >> /\ taken = 0 /\ log = << >>
      /\ sub = [r \in Others |-> << >>] /\ counts = [r \in Others |-> << >>]
      /\ pc = [r \in Ranks |-> "start"] /\ raw = << >>
      /\ pending = [r \in Ranks |-> << >>] /\ want = [r \in Ranks |-> 0]
      /\ left = [r \in Ranks |-> [m \in Reqs |-> 0]]
      /\ last = [r \in Ranks |-> NoBatch] /\ ongoing = last
      /\ launched = [r \in Ranks |-> 0] /\ replies = [m \in Reqs |-> 0]
      /\ applied = [r \in Ranks |-> << >>]
  BY DEF Init
<1>3. NoBatch \in Batch /\ IsBatch(NoBatch, Beginning)
  <2>1. NoBatch.number = 0 /\ ToSet(NoBatch.reqs) = {}
    BY DEF NoBatch, ToSet
  <2>2. NoBatch \in Batch
    BY DEF NoBatch, Batch
  <2> QED
    BY <1>1, <2>1, <2>2 DEF IsBatch
<1>4. TypeOK
  BY <1>2, <1>3 DEF TypeOK
<1>5. /\ \A r \in Ranks : Done(r) = 0 /\ pending[r] = << >> /\ pc[r] = "start"
      /\ h[0] = Beginning /\ Len(log) = 0
  BY <1>2 DEF Done
<1>6. /\ \A r \in Ranks : Got(r, h) = 0
      /\ Received = 0 /\ Out = 0 /\ Len(arrived) = 0
  <2>1. ASSUME NEW r \in Ranks PROVE Got(r, h) = 0
    <3>1. Got(r, h) = h[Done(r)].upto + Len(pending[r])
      BY DEF Got
    <3>2. h[Done(r)].upto = 0 /\ Len(pending[r]) = 0
      BY <1>1, <1>5
    <3> QED
      BY <3>1, <3>2
  <2>2. Len(arrived) = 0 /\ Len(inbox) = 0 /\ Len(raw) = 0
    BY <1>2
  <2> QED
    BY <2>1, <2>2 DEF Received, Out
<1>7. History(h)
  <2>1. h \in [0..0 -> Point]
    BY <1>1
  <2> QED
    BY <1>1, <1>2, <1>5, <2>1 DEF History, Numbered
<1>8. Stream(h)
  <2>1. Slice(arrived, << >>, 0, 0)
    BY <1>2 DEF Slice
  <2> QED
    BY <1>1, <1>2, <1>5, <1>6, <2>1, RankZero DEF Stream
<1>9. Leads(h)
  BY <1>2, <1>5, <1>6, RankZero DEF Leads, Bit
<1>10. ASSUME NEW r \in Ranks PROVE Follows(r) /\ Computes(r, h)
  <2>1. Follows(r)
    BY <1>5 DEF Follows
  <2>2. Done(r) - Bit(pc[r] = "process") = 0
    BY <1>5 DEF Bit
  <2>3. last[r] = NoBatch /\ ongoing[r] = NoBatch /\ left[r] = [m \in Reqs |-> 0]
        /\ launched[r] = 0
    BY <1>2
  <2>4. Computes(r, h)
    BY <1>1, <1>3, <1>5, <2>2, <2>3 DEF Computes
  <2> QED
    BY <2>1, <2>4
<1>11. ASSUME NEW r \in Others PROVE Obeys(r, h)
  <2>1. Len(counts[r]) = 0 /\ Told(r) = 0 /\ r \in Ranks
    BY <1>2, <1>5, RankZero DEF Told, Bit
  <2> QED
    BY <1>5, <2>1 DEF Obeys
<1>12. Good(h)
  BY <1>7, <1>8, <1>9, <1>10, <1>11 DEF Good
<1> QED
  BY <1>2, <1>4, <1>12 DEF IInv, Subscribed

-----------------------------------------------------------------------------
(* The invariant, and the refinement of RankLog. *)

LEMMA StepGood ==
  ASSUME TypeOK, Subscribed, ~ Late, RoomLeft, [Next]_vars, NEW h, Good(h), ~ Broadcast
  PROVE  Good(h)' /\ TypeOK'
<1>1. CASE Step0
  <2>1. CASE Wait0
    BY <2>1, Wait0Step
  <2>2. CASE NoWait0 \/ Publish0
    BY <2>2, Collect0Step
  <2>3. CASE Poll
    BY <2>3, PollStep
  <2>4. CASE Publish
    BY <2>4, PublishStep
  <2> QED
    BY <1>1, <2>1, <2>2, <2>3, <2>4 DEF Step0
<1>2. CASE Shutdown
  BY <1>2, ShutdownStep
<1>3. CASE \E r \in Others : Step1(r)
  <2> PICK r \in Others : Step1(r)
    BY <1>3
  <2>1. CASE Wait1(r)
    BY <2>1, Wait1Step
  <2>2. CASE NoWait1(r) \/ TookAll(r)
    BY <2>2, GoOnStep
  <2>3. CASE TakeCount(r)
    BY <2>3, TakeCountStep
  <2>4. CASE TakeMsg(r)
    BY <2>4, TakeMsgStep
  <2> QED
    BY <2>1, <2>2, <2>3, <2>4 DEF Step1
<1>4. CASE \E r \in Others : Join(r)
  <2> PICK r \in Others : Join(r)
    BY <1>4
  <2>1. /\ joined' = joined \cup {r}
        /\ UNCHANGED << inbox, sub, counts, loopVars, batchVars, historyVars >>
    BY DEF Join
  <2>2. joined' \subseteq Others
    BY <2>1 DEF TypeOK
  <2> QED
    BY <2>1, <2>2, JoinStep
<1>5. CASE \E r \in Ranks : Step(r)
  <2> PICK r \in Ranks : Step(r)
    BY <1>5
  <2>1. CASE Handle(r)
    BY <2>1, HandleStep
  <2>2. CASE Process(r)
    BY <2>2, ProcessStep
  <2>3. CASE Interrupted(r)
    BY <2>3, InterruptedStep
  <2> QED
    BY <2>1, <2>2, <2>3 DEF Step
<1>6. CASE \E m \in Msgs : Send(m)
  BY <1>6, SendStep
<1>7. CASE UNCHANGED vars
  <2>1. joined' \subseteq Others
    BY <1>7 DEF vars, socketVars, TypeOK
  <2>2. UNCHANGED << inbox, sub, counts, loopVars, batchVars, historyVars >>
    BY <1>7 DEF vars, socketVars
  <2> QED
    BY <2>1, <2>2, JoinStep
<1> QED
  BY <1>1, <1>2, <1>3, <1>4, <1>5, <1>6, <1>7 DEF Next

\* What a step may do to the messages that arrived and the subscribers
LEMMA ArrivedStep ==
  ASSUME [Next]_vars
  PROVE  \/ arrived' = arrived /\ joined' = joined
         \/ \E r \in Others : Join(r) /\ arrived' = arrived
         \/ \E m \in Msgs : Send(m)
<1>1. CASE Step0 \/ Shutdown
  BY <1>1 DEF Step0, Wait0, NoWait0, Poll, Broadcast, Publish, Publish0, Shutdown,
              socketVars, historyVars
<1>2. CASE \E r \in Others : Step1(r)
  BY <1>2 DEF Step1, Wait1, NoWait1, TakeCount, TakeMsg, TookAll, socketVars, historyVars
<1>3. CASE \E r \in Others : Join(r)
  BY <1>3 DEF Join, historyVars
<1>4. CASE \E r \in Ranks : Step(r)
  BY <1>4 DEF Step, Handle, Process, Interrupted, socketVars, historyVars
<1>5. CASE UNCHANGED vars
  BY <1>5 DEF vars, socketVars, historyVars
<1> QED
  BY <1>1, <1>2, <1>3, <1>4, <1>5 DEF Next

LEMMA StepPreserves ==
  ASSUME IInv, ~ Late, RoomLeft, [Next]_vars
  PROVE  IInv'
<1>1. TypeOK /\ Subscribed
  BY DEF IInv
<1> PICK h : Good(h)
  BY DEF IInv
<1>2. (\E g : Good(g)') /\ TypeOK'
  <2>1. CASE Broadcast
    BY <1>1, <2>1, BroadcastStep
  <2>2. CASE ~ Broadcast
    BY <1>1, <2>2, StepGood
  <2> QED
    BY <2>1, <2>2
<1>3. Subscribed'
  <2>1. CASE arrived' = arrived /\ joined' = joined
    BY <1>1, <2>1 DEF Subscribed
  <2>2. CASE \E r \in Others : Join(r) /\ arrived' = arrived
    BY <1>1, <2>2 DEF Join, Subscribed
  <2>3. CASE \E m \in Msgs : Send(m)
    BY <2>3 DEF Send, Subscribed
  <2> QED
    BY <2>1, <2>2, <2>3, ArrivedStep
<1> QED
  BY <1>2, <1>3 DEF IInv

\* As long as no subscription comes late and no subscriber's socket is full, all
\* ranks go through one history of iterations.
THEOREM RanksInvariant ==
  ASSUME ~ Late
  PROVE  Spec /\ []RoomLeft => []IInv
<1>1. Init => IInv
  BY InitGood
<1>2. IInv /\ RoomLeft /\ [Next]_vars => IInv'
  BY StepPreserves
<1> QED
  BY <1>1, <1>2, PTL DEF Spec

LEMMA SliceIsSubSeq ==
  ASSUME NEW M, NEW q \in Seq(M), NEW s \in Seq(M), NEW n \in Nat, NEW m \in Nat,
         Slice(q, s, n, m)
  PROVE  s = SubSeq(q, n + 1, m)
<1>1. Len(s) \in Nat /\ Len(q) \in Nat /\ m = n + Len(s) /\ m <= Len(q)
  BY DEF Slice
<1>2. \A i \in (n + 1)..m : q[i] \in M
  BY <1>1
<1>3. SubSeq(q, n + 1, m) \in Seq(M) /\ Len(SubSeq(q, n + 1, m)) = Len(s)
  BY <1>1, <1>2
<1>4. \A i \in 1..Len(s) : SubSeq(q, n + 1, m)[i] = q[n + i]
  BY <1>1, <1>3
<1>5. \A i \in 1..Len(s) : s[i] = q[n + i]
  BY DEF Slice
<1> DEFINE t == SubSeq(q, n + 1, m)
<1> HIDE DEF t
<1>6. t \in Seq(M) /\ Len(s) = Len(t) /\ \A i \in 1..Len(s) : s[i] = t[i]
  BY <1>3, <1>4, <1>5 DEF t
<1>7. s = t
  BY <1>6, SeqEqual
<1> QED
  BY <1>7 DEF t

LEMMA AppliesNext ==
  ASSUME TypeOK, NEW h, Good(h), NEW r \in Ranks, pc[r] = "handle",
         applied' = [applied EXCEPT ![r] = Append(@, pending[r])],
         arrived' = arrived, taken' = taken, log' = log
  PROVE  Log!Apply(r)
<1> DEFINE n == Len(applied[r])
           s == SubSeq(log, 1, n + 1)
<1>1. /\ n \in Nat /\ n + 1 \in 1..Len(log) /\ pending[r] = log[n + 1]
  BY HandlesNext DEF Done
<1>2. /\ applied[r] \in Seq(Seq(Msgs)) /\ log \in Seq(Seq(Msgs)) /\ Len(log) \in Nat
      /\ \A k \in 1..n : applied[r][k] = log[k]
  BY DEF TypeOK, Good, Follows, Done
<1> DEFINE a == Append(applied[r], pending[r])
<1>3. pending[r] \in Seq(Msgs)
  BY DEF TypeOK
<1>4. /\ a \in Seq(Seq(Msgs)) /\ Len(a) = n + 1 /\ a[n + 1] = pending[r]
      /\ \A k \in 1..n : a[k] = applied[r][k]
  BY <1>2, <1>3
<1> HIDE DEF n, a
<1>5. /\ s \in Seq(Seq(Msgs)) /\ Len(s) = n + 1 /\ \A k \in 1..(n + 1) : s[k] = log[k]
  BY <1>1, <1>2
<1> HIDE DEF s
<1>6. ASSUME NEW k \in 1..(n + 1) PROVE a[k] = s[k]
  <2>1. s[k] = log[k]
    BY <1>5
  <2>2. CASE k = n + 1
    BY <1>1, <1>4, <2>1, <2>2
  <2>3. CASE k # n + 1
    <3>1. k \in 1..n
      BY <1>1, <2>3
    <3>2. a[k] = applied[r][k] /\ applied[r][k] = log[k]
      BY <1>2, <1>4, <3>1
    <3> QED
      BY <2>1, <3>2
  <2> QED
    BY <2>2, <2>3
<1>7. a = s
  BY <1>1, <1>4, <1>5, <1>6
<1>8. applied' = [applied EXCEPT ![r] = SubSeq(log, 1, Len(applied[r]) + 1)]
  BY <1>7 DEF a, s, n
<1>9. Len(applied[r]) < Len(log)
  BY <1>1, <1>2 DEF n
<1> QED
  BY <1>8, <1>9 DEF Log!Apply

LEMMA StepRefines ==
  ASSUME IInv, [Next]_vars
  PROVE  [Log!Next]_(Log!vars)
<1>1. TypeOK
  BY DEF IInv
<1> PICK h : Good(h)
  BY DEF IInv
<1>2. CASE Broadcast
  <2> DEFINE e == pending[0] \o raw
  <2>1. /\ pc[0] = "poll" /\ log' = Append(log, e) /\ taken' = taken + Len(e)
        /\ arrived' = arrived /\ applied' = applied
    BY <1>2 DEF Broadcast
  <2>2. e = SubSeq(arrived, taken + 1, taken') /\ taken' \in taken..Len(arrived)
    <3>1. /\ raw \in Seq(Msgs) /\ arrived \in Seq(Msgs) /\ pending[0] \in Seq(Msgs)
          /\ taken \in Nat /\ e \in Seq(Msgs) /\ Len(e) = Len(pending[0]) + Len(raw)
          /\ Len(e) \in Nat /\ Len(arrived) \in Nat
      BY <1>1, RankZero DEF TypeOK
    <3>2. /\ Received \in Nat /\ Out \in Nat /\ Got(0, h) = Out
      BY <1>1, Places, RankZero
    <3>3. Done(0) = Len(log) /\ h[Len(log)].upto = taken
      <4>1. Len(log) = Done(0) + Bit(pc[0] \in {"publish", "handle"})
        BY DEF Good, Leads
      <4>2. Done(0) \in 0..Len(log) /\ Len(log) \in Nat
        BY <1>1, Places, RankZero
      <4> QED
        BY <2>1, <4>1, <4>2 DEF Good, History, Bit
    <3>4. Slice(arrived, pending[0], taken, Out)
      BY <3>2, <3>3, RankZero DEF Good, Stream
    <3>5. Slice(arrived, raw, Out, Received)
      BY DEF Good, Stream
    <3>6. Slice(arrived, e, taken, Received)
      BY <3>1, <3>2, <3>4, <3>5, SliceJoin
    <3> HIDE DEF e
    <3>7. e = SubSeq(arrived, taken + 1, Received) /\ Received = taken + Len(e)
          /\ taken <= Received /\ Received <= Len(arrived)
      BY <3>1, <3>2, <3>6, SliceIsSubSeq, SliceLength
    <3> QED
      BY <2>1, <3>1, <3>2, <3>7
  <2> HIDE DEF e
  <2>3. Log!Decide
    BY <2>1, <2>2 DEF Log!Decide
  <2> QED
    BY <2>3 DEF Log!Next
<1>3. CASE \E r \in Ranks : Handle(r) \/ Interrupted(r)
  <2> PICK r \in Ranks : Handle(r) \/ Interrupted(r)
    BY <1>3
  <2>1. /\ pc[r] = "handle" /\ applied' = [applied EXCEPT ![r] = Append(@, pending[r])]
        /\ arrived' = arrived /\ taken' = taken /\ log' = log
    BY DEF Handle, Interrupted
  <2>2. Log!Apply(r)
    BY <1>1, <2>1, AppliesNext
  <2> QED
    BY <2>2 DEF Log!Next
<1>4. CASE \E m \in Msgs : Send(m)
  <2> PICK m \in Msgs : Send(m)
    BY <1>4
  <2>1. Log!Arrive(m)
    BY DEF Send, Log!Arrive
  <2> QED
    BY <2>1 DEF Log!Next
<1>5. CASE /\ ~ Broadcast /\ ~ (\E r \in Ranks : Handle(r) \/ Interrupted(r))
           /\ ~ (\E m \in Msgs : Send(m))
  <2>1. arrived' = arrived /\ taken' = taken /\ log' = log /\ applied' = applied
    <3>1. CASE Wait0 \/ NoWait0 \/ Poll \/ Publish \/ Publish0 \/ Shutdown
      BY <3>1 DEF Wait0, NoWait0, Poll, Publish, Publish0, Shutdown, historyVars
    <3>2. CASE \E r \in Others : Step1(r) \/ Join(r)
      BY <3>2 DEF Step1, Wait1, NoWait1, TakeCount, TakeMsg, TookAll, Join, historyVars
    <3>3. CASE \E r \in Ranks : Process(r)
      BY <3>3 DEF Process, historyVars
    <3>4. CASE UNCHANGED vars
      BY <3>4 DEF vars, historyVars
    <3> QED
      BY <1>5, <3>1, <3>2, <3>3, <3>4 DEF Next, Step0, Step
  <2> QED
    BY <2>1 DEF Log!vars
<1> QED
  BY <1>2, <1>3, <1>4, <1>5

\* Whatever the relative speeds of the ranks, all handle the same messages in the
\* same iterations, in the order of their arrival (_recv_msg_multi_rank0 and
\* _recv_msg_multi_rank1), when every subscriber knows rank 0 before the first
\* message and keeps up with it.
THEOREM RanksFollowOneLog ==
  ASSUME ~ Late
  PROVE  Spec /\ []RoomLeft => SameIterations
<1>1. Init => Log!Init
  BY DEF Init, Log!Init
<1>2. IInv /\ [Next]_vars => [Log!Next]_(Log!vars)
  BY StepRefines
<1>3. Spec /\ []RoomLeft => []IInv
  BY RanksInvariant
<1> QED
  BY <1>1, <1>2, <1>3, PTL DEF Spec, SameIterations, Log!Spec

-----------------------------------------------------------------------------
(* Nothing is lost, and rank 0 replies once for a batch. *)

LEMMA UptoIs ==
  ASSUME TypeOK, NEW h, Good(h), NEW r \in Ranks
  PROVE  /\ Upto(r) = h[Done(r)].upto /\ Upto(r) \in Nat
         /\ Got(r, h) = Upto(r) + Len(pending[r]) /\ Got(r, h) <= Len(arrived)
<1> DEFINE a == h[Done(r)].upto
           b == Len(pending[r])
<1>1. /\ a \in Nat /\ b \in Nat /\ Got(r, h) = a + b /\ Out \in Nat /\ Got(0, h) = Out
  BY Places DEF Got
<1>2. Got(r, h) <= Len(arrived)
  BY DEF Good, Stream, Slice
<1>3. Upto(r) = a
  <2>1. CASE r = 0
    <3>1. Upto(r) = Out - b - 0 /\ Out = a + b
      BY <1>1, <2>1 DEF Upto
    <3> HIDE DEF a, b
    <3> QED
      BY <1>1, <3>1
  <2>2. CASE r \in Others
    <3> DEFINE c == Len(sub[r])
    <3>1. c \in Nat
      BY <2>2 DEF TypeOK
    <3>2. Out = Got(r, h) + c
      BY <2>2 DEF Good, Stream, Slice
    <3>3. Upto(r) = Out - b - c
      BY <2>2 DEF Upto, Others
    <3> HIDE DEF a, b, c
    <3> QED
      BY <1>1, <3>1, <3>2, <3>3
  <2> QED
    BY <2>1, <2>2, RankZero
<1> HIDE DEF a, b
<1> QED
  BY <1>1, <1>2, <1>3 DEF a, b

LEMMA UptoNow ==
  \A h : \A r \in Ranks : TypeOK /\ Good(h) => Upto(r) = h[Done(r)].upto
BY UptoIs

LEMMA UptoNext ==
  (\A h : \A r \in Ranks : TypeOK /\ Good(h) => Upto(r) = h[Done(r)].upto)'
BY UptoNow, PTL

\* A rank that handles nothing has handled as much as before.
LEMMA UptoSame ==
  ASSUME IInv, ~ Late, RoomLeft, [Next]_vars, NEW r \in Ranks, applied'[r] = applied[r]
  PROVE  Upto(r)' = Upto(r)
<1>1. TypeOK /\ Subscribed
  BY DEF IInv
<1> PICK h : Good(h)
  BY DEF IInv
<1>2. CASE Broadcast
  <2>1. /\ arrived' = arrived /\ inbox' = inbox /\ raw' = raw /\ sub' = sub
        /\ pending' = pending
    BY <1>2 DEF Broadcast
  <2> QED
    BY <2>1 DEF Upto, Out, Received
<1>3. CASE ~ Broadcast
  <2>1. Good(h)' /\ TypeOK'
    BY <1>1, <1>3, StepGood
  <2>2. Upto(r)' = h[Done(r)'].upto
    BY <2>1, UptoNext
  <2>3. Upto(r) = h[Done(r)].upto /\ Done(r)' = Done(r)
    BY <1>1, UptoIs DEF Done
  <2> QED
    BY <2>2, <2>3
<1> QED
  BY <1>2, <1>3

\* A rank that handles pending_msgs has handled so many more.
LEMMA UptoMore ==
  ASSUME IInv, ~ Late, RoomLeft, [Next]_vars, NEW r \in Ranks, Handle(r) \/ Interrupted(r)
  PROVE  /\ applied'[r] = Append(applied[r], pending[r]) /\ arrived' = arrived
         /\ Upto(r) \in Nat /\ Upto(r)' = Upto(r) + Len(pending[r])
         /\ Slice(arrived, pending[r], Upto(r), Upto(r)')
<1>1. TypeOK /\ Subscribed
  BY DEF IInv
<1> PICK h : Good(h)
  BY DEF IInv
<1>2. /\ pc[r] = "handle" /\ applied' = [applied EXCEPT ![r] = Append(@, pending[r])]
      /\ arrived' = arrived
  BY DEF Handle, Interrupted
<1>3. /\ applied[r] \in Seq(Seq(Msgs)) /\ pending[r] \in Seq(Msgs)
      /\ applied'[r] = Append(applied[r], pending[r])
  BY <1>1, <1>2 DEF TypeOK
<1>4. Done(r)' = Done(r) + 1
  BY <1>3 DEF Done
<1>5. Good(h)' /\ TypeOK'
  BY <1>1, HandleStep, InterruptedStep
<1>6. Upto(r)' = h[Done(r) + 1].upto
  <2>1. Upto(r)' = h[Done(r)'].upto
    BY <1>5, UptoNext
  <2> QED
    BY <1>4, <2>1
<1>7. /\ Upto(r) = h[Done(r)].upto /\ Upto(r) \in Nat
      /\ Got(r, h) = Upto(r) + Len(pending[r])
  BY <1>1, UptoIs
<1>8. Got(r, h) = h[Done(r) + 1].upto
  BY <1>1, <1>2, HandlesNext
<1>9. Slice(arrived, pending[r], h[Done(r)].upto, Got(r, h))
  BY DEF Good, Stream
<1> QED
  BY <1>2, <1>3, <1>6, <1>7, <1>8, <1>9

\* What a step may do to what a rank has handled
LEMMA AppliedChange ==
  ASSUME TypeOK, [Next]_vars, NEW r \in Ranks
  PROVE  applied'[r] = applied[r] \/ Handle(r) \/ Interrupted(r)
<1>1. CASE Step0 \/ Shutdown
  BY <1>1 DEF Step0, Wait0, NoWait0, Poll, Broadcast, Publish, Publish0, Shutdown, historyVars
<1>2. CASE \E s \in Others : Step1(s) \/ Join(s)
  BY <1>2 DEF Step1, Wait1, NoWait1, TakeCount, TakeMsg, TookAll, Join, historyVars
<1>3. CASE \E s \in Ranks : Step(s)
  <2> PICK s \in Ranks : Step(s)
    BY <1>3
  <2>1. CASE Process(s)
    BY <2>1 DEF Process, historyVars
  <2>2. CASE Handle(s) \/ Interrupted(s)
    <3>1. applied' = [applied EXCEPT ![s] = Append(@, pending[s])]
      BY <2>2 DEF Handle, Interrupted
    <3> QED
      BY <2>2, <3>1 DEF TypeOK
  <2> QED
    BY <2>1, <2>2 DEF Step
<1>4. CASE \E m \in Msgs : Send(m)
  BY <1>4 DEF Send
<1>5. CASE UNCHANGED vars
  BY <1>5 DEF vars, historyVars
<1> QED
  BY <1>1, <1>2, <1>3, <1>4, <1>5 DEF Next

LEMMA FlatStep ==
  ASSUME IInv, ~ Late, RoomLeft, [Next]_vars, NEW r \in Ranks, Flat(r)
  PROVE  Flat(r)'
<1> DEFINE f == FlattenSeq(applied[r])
<1>1. /\ TypeOK /\ arrived \in Seq(Msgs) /\ applied[r] \in Seq(Seq(Msgs))
      /\ pending[r] \in Seq(Msgs)
  BY DEF IInv, TypeOK
<1>2. f \in Seq(Msgs) /\ Slice(arrived, f, 0, Upto(r))
  BY DEF Flat
<1>3. CASE Handle(r) \/ Interrupted(r)
  <2>1. /\ applied'[r] = Append(applied[r], pending[r]) /\ arrived' = arrived
        /\ Upto(r) \in Nat /\ Upto(r)' = Upto(r) + Len(pending[r])
        /\ Slice(arrived, pending[r], Upto(r), Upto(r)')
    BY <1>3, UptoMore
  <2>2. FlattenSeq(applied'[r]) = f \o pending[r]
    BY <1>1, <2>1, FlattenAppend
  <2>3. Upto(r)' \in Nat
    BY <1>1, <2>1
  <2> HIDE DEF f
  <2>4. Slice(arrived, f \o pending[r], 0, Upto(r)')
    BY <1>1, <1>2, <2>1, <2>3, SliceJoin
  <2>5. f \o pending[r] \in Seq(Msgs)
    BY <1>1, <1>2
  <2> QED
    BY <2>1, <2>2, <2>4, <2>5 DEF Flat
<1>4. CASE applied'[r] = applied[r]
  <2>1. Upto(r)' = Upto(r) /\ Upto(r) \in Nat
    <3>1. Upto(r) \in Nat
      BY <1>1, UptoIs DEF IInv
    <3> QED
      BY <1>4, <3>1, UptoSame
  <2>2. arrived' = arrived \/ \E m \in Msgs : arrived' = Append(arrived, m)
    BY ArrivedStep DEF Send
  <2>3. Slice(arrived', f, 0, Upto(r))
    <3> HIDE DEF f
    <3> QED
      BY <1>1, <1>2, <2>1, <2>2, SliceMore
  <2> QED
    BY <1>2, <1>4, <2>1, <2>3 DEF Flat
<1> QED
  BY <1>1, <1>3, <1>4, AppliedChange

LEMMA HandledGrows ==
  ASSUME IInv, ~ Late, RoomLeft, [Next]_vars, NEW m, Handled(m)
  PROVE  Handled(m)'
<1>1. TypeOK /\ 0 \in Ranks /\ arrived \in Seq(Msgs) /\ Len(arrived) \in Nat
  <2>1. TypeOK
    BY DEF IInv
  <2>2. arrived \in Seq(Msgs)
    BY <2>1 DEF TypeOK
  <2> QED
    BY <2>1, <2>2, RankZero
<1>2. Upto(0) \in 0..Len(arrived)
  <2> PICK h : Good(h)
    BY DEF IInv
  <2>1. /\ Upto(0) \in Nat /\ Got(0, h) = Upto(0) + Len(pending[0]) /\ Got(0, h) <= Len(arrived)
    BY <1>1, UptoIs
  <2>2. Len(pending[0]) \in Nat
    BY <1>1 DEF TypeOK
  <2> QED
    BY <1>1, <2>1, <2>2
<1> PICK i \in 1..Upto(0) : arrived[i] = m
  BY DEF Handled
<1>3. arrived'[i] = m
  <2>1. arrived' = arrived \/ \E x \in Msgs : arrived' = Append(arrived, x)
    BY ArrivedStep DEF Send
  <2>2. i \in 1..Len(arrived)
    BY <1>1, <1>2
  <2>3. CASE \E x \in Msgs : arrived' = Append(arrived, x)
    <3> PICK x \in Msgs : arrived' = Append(arrived, x)
      BY <2>3
    <3>1. Append(arrived, x)[i] = arrived[i]
      BY <1>1, <2>2
    <3> QED
      BY <3>1
  <2> QED
    BY <2>1, <2>3
<1>4. i \in 1..Upto(0)'
  <2>1. CASE applied'[0] = applied[0]
    BY <1>1, <2>1, UptoSame
  <2>2. CASE Handle(0) \/ Interrupted(0)
    <3>1. Upto(0)' = Upto(0) + Len(pending[0]) /\ Upto(0) \in Nat
      BY <1>1, <2>2, UptoMore
    <3>2. Len(pending[0]) \in Nat
      BY <1>1 DEF TypeOK
    <3> QED
      BY <3>1, <3>2
  <2> QED
    BY <1>1, <2>1, <2>2, AppliedChange
<1> QED
  BY <1>3, <1>4 DEF Handled

LEMMA BatchesType ==
  ASSUME TypeOK, NEW m \in Reqs
  PROVE  /\ replies[m] \in Nat /\ left[0][m] \in Nat /\ left[0] \in [Reqs -> Nat]
         /\ Bit(m \in ToSet(last[0].reqs)) \in 0..1 /\ Bit(m \in ToSet(ongoing[0].reqs)) \in 0..1
         /\ Batches(m) \in Nat /\ Work[m] \in Nat
<1>1. replies[m] \in Nat /\ left[0][m] \in Nat /\ left[0] \in [Reqs -> Nat]
  BY RankZero DEF TypeOK
<1>2. \A P \in BOOLEAN : Bit(P) \in 0..1
  BY DEF Bit
<1>3. /\ Bit(m \in ToSet(last[0].reqs)) \in 0..1 /\ Bit(m \in ToSet(ongoing[0].reqs)) \in 0..1
  BY DEF Bit
<1>4. Work[m] \in Nat
  BY RankBroadcastAssumption
<1> QED
  BY <1>1, <1>3, <1>4 DEF Batches

\* A rank that goes on to handle has no batch in progress.
LEMMA NothingOngoing ==
  ASSUME IInv, pc[0] # "process"
  PROVE  ongoing[0] = NoBatch
<1> PICK h : Good(h)
  BY DEF IInv
<1> QED
  BY RankZero DEF Good, Computes

LEMMA ContainsToSet ==
  ASSUME NEW S, NEW s \in Seq(S), NEW x
  PROVE  Contains(s, x) <=> x \in ToSet(s)
<1>1. DOMAIN s = 1..Len(s)
  OBVIOUS
<1> QED
  BY <1>1 DEF Contains, ToSet

LEMMA CountedHandle ==
  ASSUME IInv, RInv, ~ Late, RoomLeft, Handle(0), NEW m \in Reqs
  PROVE  Counted(m)'
<1> DEFINE b == BatchOf(left[0], pending[0])
           now == Now(left[0], pending[0])[m]
           y == Bit(m \in ToSet(last[0].reqs))
<1>1. [Next]_vars /\ 0 \in Ranks /\ TypeOK
  BY RankZero DEF Next, Step, IInv
<1>2. pc[0] = "handle" /\ last' = last /\ replies' = replies /\ arrived' = arrived
  BY DEF Handle
<1>3. /\ left' = [left EXCEPT ![0] = Less(left[0], pending[0])]
      /\ \E order \in SetToSeqs(b) :
           ongoing' = [ongoing EXCEPT ![0] =
                         IF b = {} THEN NoBatch ELSE [number |-> launched[0] + 1, reqs |-> order]]
  BY HandleComputes
<1>4. /\ replies[m] \in Nat /\ left[0][m] \in Nat /\ y \in 0..1 /\ Work[m] \in Nat
      /\ left[0] \in [Reqs -> Nat]
  BY <1>1, BatchesType
<1>5. now = (IF Contains(pending[0], m) THEN Work[m] ELSE left[0][m]) /\ now \in Nat
      /\ (m \in b <=> now > 0) /\ b \subseteq Reqs
  BY <1>4 DEF Now, BatchOf
<1>6. left'[0][m] = IF m \in b THEN now - 1 ELSE 0
  <2>1. left'[0] = Less(left[0], pending[0])
    BY <1>1, <1>3 DEF TypeOK
  <2> QED
    BY <2>1 DEF Less
<1>7. m \in ToSet(ongoing'[0].reqs) <=> m \in b
  <2>1. PICK order \in SetToSeqs(b) :
          ongoing' = [ongoing EXCEPT ![0] =
                        IF b = {} THEN NoBatch ELSE [number |-> launched[0] + 1, reqs |-> order]]
    BY <1>3
  <2>2. ongoing'[0] = IF b = {} THEN NoBatch ELSE [number |-> launched[0] + 1, reqs |-> order]
    BY <1>1, <2>1 DEF TypeOK
  <2>3. ToSet(order) = b
    <3>1. IsFiniteSet(b)
      BY <1>5, RankBroadcastAssumption, FS_Subset
    <3> HIDE DEF b
    <3> QED
      BY <3>1, EnumerationFull
  <2>4. ToSet(NoBatch.reqs) = {}
    BY DEF NoBatch, ToSet
  <2> HIDE DEF b
  <2>5. CASE b = {}
    BY <2>2, <2>4, <2>5
  <2>6. CASE b # {}
    BY <2>2, <2>3, <2>6
  <2> QED
    BY <2>5, <2>6
<1> HIDE DEF b, now
<1>8. Batches(m)' = replies[m] + now + y
  <2>1. left'[0][m] + Bit(m \in ToSet(ongoing'[0].reqs)) = now
    BY <1>5, <1>6, <1>7 DEF Bit
  <2>2. Batches(m)' = replies[m] + left'[0][m] + y + Bit(m \in ToSet(ongoing'[0].reqs))
    BY <1>2 DEF Batches
  <2>3. left'[0][m] \in Nat /\ Bit(m \in ToSet(ongoing'[0].reqs)) \in Nat
    BY <1>5, <1>6 DEF Bit
  <2> HIDE DEF y
  <2> QED
    BY <1>4, <2>1, <2>2, <2>3
<1>9. Batches(m) = replies[m] + left[0][m] + y
  <2>1. Bit(m \in ToSet(ongoing[0].reqs)) = 0
    <3>1. ongoing[0] = NoBatch
      BY <1>2, NothingOngoing
    <3>2. ToSet(NoBatch.reqs) = {}
      BY DEF NoBatch, ToSet
    <3> QED
      BY <3>1, <3>2 DEF Bit
  <2>2. Batches(m) = replies[m] + left[0][m] + y + Bit(m \in ToSet(ongoing[0].reqs))
    BY DEF Batches
  <2> HIDE DEF y
  <2> QED
    BY <1>4, <2>1, <2>2
<1> HIDE DEF y
<1>10. Counted(m)
  BY DEF RInv
<1>11. CASE Contains(pending[0], m)
  <2>1. /\ Upto(0) \in Nat /\ Upto(0)' = Upto(0) + Len(pending[0])
        /\ Slice(arrived, pending[0], Upto(0), Upto(0)')
    BY <1>1, UptoMore
  <2>2. PICK i \in 1..Len(pending[0]) : pending[0][i] = m
    BY <1>11 DEF Contains
  <2>3. /\ arrived[Upto(0) + i] = m /\ Upto(0) + i \in 1..Upto(0)'
        /\ Upto(0) + i \in 1..Len(arrived) /\ Len(pending[0]) \in Nat /\ Len(arrived) \in Nat
        /\ Upto(0)' <= Len(arrived)
    <3>1. Len(pending[0]) \in Nat /\ Len(arrived) \in Nat
      BY <1>1 DEF TypeOK
    <3> QED
      BY <2>1, <2>2, <3>1 DEF Slice
  <2>4. Handled(m)'
    BY <1>2, <2>3 DEF Handled
  <2>5. ~ Handled(m)
    <3>1. ASSUME NEW j \in 1..Upto(0), arrived[j] = m PROVE FALSE
      <4>1. j \in 1..Len(arrived) /\ j # Upto(0) + i
        BY <2>1, <2>2, <2>3
      <4>2. DOMAIN arrived = 1..Len(arrived)
        BY <1>1 DEF TypeOK
      <4> QED
        BY <2>3, <3>1, <4>1, <4>2 DEF RInv, Distinct
    <3> QED
      BY <3>1 DEF Handled
  <2>6. Batches(m) <= 0
    BY <1>10, <2>5 DEF Counted
  <2>7. replies[m] = 0 /\ y = 0 /\ now = Work[m]
    BY <1>4, <1>5, <1>9, <1>11, <2>6
  <2> QED
    BY <1>4, <1>8, <2>4, <2>7 DEF Counted
<1>12. CASE ~ Contains(pending[0], m)
  <2>1. Batches(m)' = Batches(m)
    BY <1>5, <1>8, <1>9, <1>12
  <2>2. Batches(m) \in Nat
    BY <1>1, BatchesType
  <2>3. Handled(m) => Handled(m)'
    BY <1>1, HandledGrows
  <2> QED
    BY <1>4, <1>10, <2>1, <2>2, <2>3 DEF Counted
<1> QED
  BY <1>11, <1>12

LEMMA CountedProcess ==
  ASSUME IInv, RInv, ~ Late, RoomLeft, Process(0), NEW m \in Reqs
  PROVE  Counted(m)'
<1> DEFINE y == Bit(m \in ToSet(last[0].reqs))
           z == Bit(m \in ToSet(ongoing[0].reqs))
           batch == IF Overlap THEN last[0] ELSE ongoing[0]
<1>1. [Next]_vars /\ 0 \in Ranks /\ TypeOK
  BY RankZero DEF Next, Step, IInv
<1>2. /\ left' = left /\ replies' = Reply(0, batch)
      /\ last' = [last EXCEPT ![0] = IF Overlap THEN ongoing[0] ELSE NoBatch]
      /\ ongoing' = [ongoing EXCEPT ![0] = NoBatch]
  BY DEF Process
<1>3. last'[0] = (IF Overlap THEN ongoing[0] ELSE NoBatch) /\ ongoing'[0] = NoBatch
  BY <1>1, <1>2 DEF TypeOK
<1>4. /\ replies[m] \in Nat /\ left[0][m] \in Nat /\ y \in 0..1 /\ z \in 0..1 /\ Work[m] \in Nat
  BY <1>1, BatchesType
<1>5. Bit(m \in ToSet(NoBatch.reqs)) = 0
  BY DEF NoBatch, ToSet, Bit
<1>6. replies'[m] = replies[m] + Bit(m \in ToSet(batch.reqs))
  <2>1. batch.reqs \in Seq(Reqs)
    <3>1. batch \in Batch
      BY <1>1 DEF TypeOK
    <3> HIDE DEF batch
    <3> QED
      BY <3>1 DEF Batch
  <2>2. Contains(batch.reqs, m) <=> m \in ToSet(batch.reqs)
    BY <2>1, ContainsToSet
  <2> HIDE DEF batch
  <2> QED
    BY <1>2, <2>2 DEF Reply, Bit
<1>7. Batches(m)' <= Batches(m)
  <2>1. Batches(m)' = replies'[m] + left[0][m] + Bit(m \in ToSet(last'[0].reqs))
                        + Bit(m \in ToSet(ongoing'[0].reqs))
    BY <1>2 DEF Batches
  <2>2. Batches(m) = replies[m] + left[0][m] + y + z
    BY DEF Batches
  <2>3. Bit(m \in ToSet(ongoing'[0].reqs)) = 0
    BY <1>3, <1>5
  <2>4. CASE Overlap
    <3>1. Bit(m \in ToSet(last'[0].reqs)) = z /\ replies'[m] = replies[m] + y
      BY <1>3, <1>6, <2>4
    <3> HIDE DEF y, z
    <3> QED
      BY <1>4, <2>1, <2>2, <2>3, <3>1
  <2>5. CASE ~ Overlap
    <3>1. Bit(m \in ToSet(last'[0].reqs)) = 0 /\ replies'[m] = replies[m] + z
      BY <1>3, <1>5, <1>6, <2>5
    <3> HIDE DEF y, z
    <3> QED
      BY <1>4, <2>1, <2>2, <2>3, <3>1
  <2> QED
    BY <2>4, <2>5
<1>8. Batches(m) \in Nat /\ Batches(m)' \in Nat
  <2>1. Batches(m) \in Nat
    BY <1>1, BatchesType
  <2>2. replies'[m] \in Nat /\ left'[0][m] \in Nat
    BY <1>2, <1>4, <1>6 DEF Bit
  <2>3. Batches(m)' \in Nat
    BY <2>2 DEF Batches, Bit
  <2> QED
    BY <2>1, <2>3
<1>9. Counted(m)
  BY DEF RInv
<1>10. Handled(m) => Handled(m)'
  BY <1>1, HandledGrows
<1> QED
  BY <1>4, <1>7, <1>8, <1>9, <1>10 DEF Counted

\* What a step may do to the batches of rank 0
LEMMA BatchesChange ==
  ASSUME TypeOK, [Next]_vars
  PROVE  \/ Handle(0) \/ Process(0)
         \/ /\ replies' = replies /\ left'[0] = left[0]
            /\ last'[0] = last[0] /\ ongoing'[0] = ongoing[0]
<1>1. CASE UNCHANGED batchVars
  BY <1>1 DEF batchVars
<1>2. CASE Step0 \/ Shutdown
  BY <1>1, <1>2 DEF Step0, Wait0, NoWait0, Poll, Broadcast, Publish, Publish0, Shutdown
<1>3. CASE \E s \in Others : Step1(s) \/ Join(s)
  BY <1>1, <1>3 DEF Step1, Wait1, NoWait1, TakeCount, TakeMsg, TookAll, Join
<1>4. CASE \E s \in Ranks : Step(s)
  <2> PICK s \in Ranks : Step(s)
    BY <1>4
  <2>1. CASE s = 0
    BY <1>1, <2>1 DEF Step, Interrupted
  <2>2. CASE s # 0
    <3>1. CASE Handle(s)
      <4>1. /\ left' = [left EXCEPT ![s] = Less(left[s], pending[s])]
            /\ \E b : ongoing' = [ongoing EXCEPT ![s] = b]
        BY <3>1, HandleComputes
      <4>2. last' = last /\ replies' = replies
        BY <3>1 DEF Handle
      <4> QED
        BY <2>2, <4>1, <4>2, RankZero DEF TypeOK
    <3>2. CASE Process(s)
      <4>1. /\ left' = left /\ \E b : replies' = Reply(s, b)
            /\ \E b : last' = [last EXCEPT ![s] = b]
            /\ ongoing' = [ongoing EXCEPT ![s] = NoBatch]
        BY <3>2 DEF Process
      <4>2. \A b : Reply(s, b) = replies
        BY <2>2 DEF Reply, TypeOK
      <4> QED
        BY <2>2, <4>1, <4>2, RankZero DEF TypeOK
    <3>3. CASE Interrupted(s)
      BY <1>1, <3>3 DEF Interrupted
    <3> QED
      BY <3>1, <3>2, <3>3 DEF Step
  <2> QED
    BY <2>1, <2>2
<1>5. CASE \E m \in Msgs : Send(m)
  BY <1>1, <1>5 DEF Send
<1>6. CASE UNCHANGED vars
  BY <1>1, <1>6 DEF vars
<1> QED
  BY <1>2, <1>3, <1>4, <1>5, <1>6 DEF Next

LEMMA CountedStep ==
  ASSUME IInv, RInv, ~ Late, RoomLeft, [Next]_vars, NEW m \in Reqs
  PROVE  Counted(m)'
<1>1. TypeOK /\ Counted(m)
  BY DEF IInv, RInv
<1>2. CASE Handle(0)
  BY <1>2, CountedHandle
<1>3. CASE Process(0)
  BY <1>3, CountedProcess
<1>4. CASE /\ replies' = replies /\ left'[0] = left[0]
           /\ last'[0] = last[0] /\ ongoing'[0] = ongoing[0]
  <2>1. Batches(m)' = Batches(m) /\ Batches(m) \in Nat /\ Work[m] \in Nat
    <3>1. Batches(m) \in Nat /\ Work[m] \in Nat
      BY <1>1, BatchesType
    <3> QED
      BY <1>4, <3>1 DEF Batches
  <2>2. Handled(m) => Handled(m)'
    BY HandledGrows
  <2> QED
    BY <1>1, <2>1, <2>2 DEF Counted
<1> QED
  BY <1>1, <1>2, <1>3, <1>4, BatchesChange

LEMMA DistinctStep ==
  ASSUME TypeOK, Distinct(arrived), [Next]_vars
  PROVE  Distinct(arrived)'
<1>1. arrived \in Seq(Msgs)
  BY DEF TypeOK
<1>2. CASE arrived' = arrived
  BY <1>2 DEF Distinct
<1>3. CASE \E m \in Msgs : Send(m)
  <2> PICK m \in Msgs : Send(m)
    BY <1>3
  <2> DEFINE n == Len(arrived)
  <2>1. ~ Contains(arrived, m) /\ arrived' = Append(arrived, m)
    BY DEF Send
  <2>2. /\ n \in Nat /\ DOMAIN arrived' = 1..(n + 1) /\ arrived'[n + 1] = m
        /\ \A i \in 1..n : arrived'[i] = arrived[i]
    BY <1>1, <2>1
  <2>3. \A i \in 1..n : arrived[i] # m
    BY <2>1 DEF Contains
  <2>4. \A i, j \in 1..n : arrived[i] = arrived[j] => i = j
    BY <1>1 DEF Distinct
  <2>5. ASSUME NEW i \in 1..(n + 1), NEW j \in 1..(n + 1), arrived'[i] = arrived'[j] PROVE i = j
    <3>1. \A k \in 1..(n + 1) : k \in 1..n \/ k = n + 1
      BY <2>2
    <3> HIDE DEF n
    <3> QED
      BY <2>2, <2>3, <2>4, <2>5, <3>1
  <2> QED
    BY <2>2, <2>5 DEF Distinct
<1> QED
  BY <1>2, <1>3, ArrivedStep

LEMMA InitCounted ==
  ASSUME Init
  PROVE  RInv
<1>1. /\ arrived = << >> /\ inbox = << >> /\ raw = << >>
      /\ pending = [r \in Ranks |-> << >>] /\ sub = [r \in Others |-> << >>]
      /\ left = [r \in Ranks |-> [m \in Reqs |-> 0]]
      /\ last = [r \in Ranks |-> NoBatch] /\ ongoing = last
      /\ replies = [m \in Reqs |-> 0] /\ applied = [r \in Ranks |-> << >>]
  BY DEF Init
<1>2. Distinct(arrived)
  BY <1>1 DEF Distinct
<1>3. ASSUME NEW r \in Ranks PROVE Upto(r) = 0 /\ Flat(r)
  <2>1. Upto(r) = 0
    <3>1. (IF r = 0 THEN 0 ELSE Len(sub[r])) = 0
      BY <1>1 DEF Others
    <3>2. Len(pending[r]) = 0 /\ Len(raw) = 0 /\ Len(arrived) = 0 /\ Len(inbox) = 0
      BY <1>1
    <3>3. Out = 0
      BY <3>2 DEF Out, Received
    <3>4. Upto(r) = Out - Len(pending[r]) - (IF r = 0 THEN 0 ELSE Len(sub[r]))
      BY DEF Upto
    <3>5. Upto(r) = 0 - 0 - 0
      BY <3>1, <3>2, <3>3, <3>4
    <3> QED
      BY <3>5
  <2>2. FlattenSeq(applied[r]) = << >>
    <3>1. applied[r] = << >>
      BY <1>1
    <3> QED
      BY <3>1 DEF FlattenSeq
  <2>3. Slice(arrived, << >>, 0, 0)
    BY <1>1 DEF Slice
  <2> QED
    BY <2>1, <2>2, <2>3 DEF Flat
<1>4. ASSUME NEW m \in Reqs PROVE Counted(m)
  <2>1. 0 \in Ranks
    BY RankZero
  <2>2. replies[m] = 0 /\ left[0][m] = 0 /\ last[0] = NoBatch /\ ongoing[0] = NoBatch
    BY <1>1, <2>1
  <2>3. Bit(m \in ToSet(NoBatch.reqs)) = 0
    BY DEF NoBatch, ToSet, Bit
  <2>4. Batches(m) = 0
    BY <2>2, <2>3 DEF Batches
  <2> QED
    BY <2>4, RankBroadcastAssumption DEF Counted
<1> QED
  BY <1>2, <1>3, <1>4 DEF RInv

-----------------------------------------------------------------------------
(* The ranks together. *)

LEMMA RInvStep ==
  ASSUME IInv, RInv, ~ Late, RoomLeft, [Next]_vars
  PROVE  RInv'
<1>1. Distinct(arrived)'
  BY DistinctStep DEF IInv, RInv
<1>2. ASSUME NEW r \in Ranks PROVE Flat(r)'
  BY FlatStep DEF RInv
<1>3. ASSUME NEW m \in Reqs PROVE Counted(m)'
  BY CountedStep
<1> QED
  BY <1>1, <1>2, <1>3 DEF RInv

LEMMA NothingIsLost ==
  ASSUME IInv, RInv
  PROVE  NothingLost
<1>1. TypeOK
  BY DEF IInv
<1> PICK h : Good(h)
  BY DEF IInv
<1>2. ASSUME NEW r \in Others
      PROVE  FlattenSeq(applied[r]) \o pending[r] \o sub[r] \o raw
               = SubSeq(arrived, 1, Len(arrived) - Len(inbox))
  <2> DEFINE f == FlattenSeq(applied[r])
  <2>1. r \in Ranks
    BY RankZero
  <2>2. /\ f \in Seq(Msgs) /\ pending[r] \in Seq(Msgs) /\ sub[r] \in Seq(Msgs)
        /\ raw \in Seq(Msgs) /\ arrived \in Seq(Msgs)
        /\ Slice(arrived, f, 0, Upto(r))
    BY <1>1, <2>1 DEF TypeOK, RInv, Flat
  <2>3. /\ Upto(r) \in Nat /\ Got(r, h) \in Nat /\ Out \in Nat /\ Received \in Nat
        /\ Upto(r) = h[Done(r)].upto
    BY <1>1, <2>1, Places, UptoIs
  <2>4. /\ Slice(arrived, pending[r], Upto(r), Got(r, h)) /\ Slice(arrived, sub[r], Got(r, h), Out)
        /\ Slice(arrived, raw, Out, Received)
    BY <2>1, <2>3 DEF Good, Stream
  <2> HIDE DEF f
  <2>5. Slice(arrived, f \o pending[r], 0, Got(r, h)) /\ f \o pending[r] \in Seq(Msgs)
    BY <2>2, <2>3, <2>4, SliceJoin
  <2>6. /\ Slice(arrived, f \o pending[r] \o sub[r], 0, Out)
        /\ f \o pending[r] \o sub[r] \in Seq(Msgs)
    <3> DEFINE q == f \o pending[r]
    <3>1. q \in Seq(Msgs) /\ Slice(arrived, q, 0, Got(r, h))
      BY <2>5
    <3> HIDE DEF q
    <3>2. q \o sub[r] \in Seq(Msgs)
      BY <2>2, <3>1
    <3>3. Slice(arrived, q \o sub[r], 0, Out)
      <4>1. 0 \in Nat
        OBVIOUS
      <4> QED
        BY <2>2, <2>3, <2>4, <3>1, <4>1, SliceJoin
    <3> QED
      BY <3>2, <3>3 DEF q
  <2>7. f \o pending[r] \o sub[r] \o raw = SubSeq(arrived, 1, Received)
    <3> DEFINE q == f \o pending[r] \o sub[r]
    <3>1. q \in Seq(Msgs) /\ Slice(arrived, q, 0, Out)
      BY <2>6
    <3> HIDE DEF q
    <3>2. Slice(arrived, q \o raw, 0, Received) /\ q \o raw \in Seq(Msgs)
      BY <2>2, <2>3, <2>4, <3>1, SliceJoin
    <3>3. q \o raw = SubSeq(arrived, 0 + 1, Received)
      BY <2>2, <2>3, <3>2, SliceIsSubSeq
    <3>4. 0 + 1 = 1
      OBVIOUS
    <3> QED
      BY <3>3, <3>4 DEF q
  <2> QED
    BY <2>7 DEF f, Received
<1> QED
  BY <1>2 DEF NothingLost

LEMMA BatchesAreSame ==
  ASSUME IInv
  PROVE  SameBatches
<1>1. TypeOK
  BY DEF IInv
<1> PICK h : Good(h)
  BY DEF IInv
<1>2. ASSUME NEW r \in Ranks, NEW x \in Computing(r)
      PROVE  \E k \in 0..Len(log) : x.number = h[k].number /\ ToSet(x.reqs) = h[k].batch
  <2>1. Done(r) \in 0..Len(log) /\ Len(log) \in Nat /\ Computes(r, h)
    BY <1>1, Places DEF Good
  <2>2. x \in {last[r], ongoing[r]} /\ x # NoBatch
    BY <1>2 DEF Computing
  <2>3. CASE x = ongoing[r]
    <3>1. IsBatch(x, h[Done(r)])
      BY <2>1, <2>2, <2>3 DEF Computes
    <3> QED
      BY <2>1, <3>1 DEF IsBatch
  <2>4. CASE x = last[r]
    <3>1. IsBatch(x, h[Done(r) - Bit(pc[r] = "process")])
      BY <2>1, <2>2, <2>4 DEF Computes
    <3>2. Done(r) - Bit(pc[r] = "process") \in 0..Len(log)
      BY <2>1 DEF Computes, Bit
    <3> QED
      BY <3>1, <3>2 DEF IsBatch
  <2> QED
    BY <2>2, <2>3, <2>4
<1>3. \A j, k \in 0..Len(log) : h[j].number = h[k].number => h[j].batch = h[k].batch
  BY DEF Good, History, Numbered
<1>4. ASSUME NEW r \in Ranks, NEW s \in Ranks, NEW x \in Computing(r), NEW y \in Computing(s),
             x.number = y.number
      PROVE  ToSet(x.reqs) = ToSet(y.reqs)
  <2>1. PICK j \in 0..Len(log) : x.number = h[j].number /\ ToSet(x.reqs) = h[j].batch
    BY <1>2
  <2>2. PICK k \in 0..Len(log) : y.number = h[k].number /\ ToSet(y.reqs) = h[k].batch
    BY <1>2
  <2> QED
    BY <1>3, <1>4, <2>1, <2>2
<1> QED
  BY <1>4 DEF SameBatches

LEMMA RepliesBounded ==
  ASSUME IInv, RInv
  PROVE  OneReplyPerBatch
<1>1. ASSUME NEW m \in Reqs PROVE replies[m] <= Work[m]
  <2>1. /\ replies[m] \in Nat /\ left[0][m] \in Nat /\ Work[m] \in Nat
        /\ Bit(m \in ToSet(last[0].reqs)) \in 0..1 /\ Bit(m \in ToSet(ongoing[0].reqs)) \in 0..1
        /\ Batches(m) \in Nat
    BY BatchesType DEF IInv
  <2>2. replies[m] <= Batches(m)
    BY <2>1 DEF Batches
  <2>3. Batches(m) <= IF Handled(m) THEN Work[m] ELSE 0
    BY DEF RInv, Counted
  <2> QED
    BY <2>1, <2>2, <2>3
<1> QED
  BY <1>1 DEF OneReplyPerBatch

\* Whatever the speeds of the ranks, no message is lost or reordered on its way to
\* another rank, two ranks that compute a batch of one number have the same requests
\* in it, and rank 0 alone replies, at most once per request and batch (send_result),
\* when every subscriber knows rank 0 before the first message and keeps up with it.
THEOREM RanksStayTogether ==
  ASSUME ~ Late
  PROVE  Spec /\ []RoomLeft => []RanksTogether
<1>1. Init => RInv
  BY InitCounted
<1>2. IInv /\ RInv /\ RoomLeft /\ [Next]_vars => RInv'
  BY RInvStep
<1>3. IInv /\ RInv => RanksTogether
  BY NothingIsLost, BatchesAreSame, RepliesBounded DEF RanksTogether
<1>4. Spec /\ []RoomLeft => []IInv
  BY RanksInvariant
<1> QED
  BY <1>1, <1>2, <1>3, <1>4, PTL DEF Spec

LEMMA RoomForFew ==
  ASSUME IInv, RInv, Cardinality(Msgs) < HighWater
  PROVE  RoomLeft
<1> PICK h : Good(h)
  BY DEF IInv
<1>1. TypeOK /\ arrived \in Seq(Msgs) /\ Len(arrived) \in Nat
  BY DEF IInv, TypeOK
<1>2. IsFiniteSet(Msgs) /\ Cardinality(Msgs) \in Nat /\ HighWater \in Nat
  <2>1. IsFiniteSet({Exit}) /\ IsFiniteSet(Reqs)
    BY FS_Singleton, RankBroadcastAssumption
  <2>2. IsFiniteSet(Msgs)
    BY <2>1, FS_Union DEF Msgs
  <2> QED
    BY <2>2, FS_CardinalityType, RankBroadcastAssumption
<1>3. Len(arrived) <= Cardinality(Msgs)
  <2> DEFINE n == Len(arrived)
  <2>1. arrived \in Injection(1..n, Msgs)
    <3>1. arrived \in [1..n -> Msgs] /\ DOMAIN arrived = 1..n
      BY <1>1
    <3> QED
      BY <3>1 DEF RInv, Distinct, Injection, IsInjective
  <2>2. IsFiniteSet(1..n) /\ Cardinality(1..n) = n
    BY <1>1, FS_Interval
  <2> HIDE DEF n
  <2>3. Cardinality(1..n) <= Cardinality(Msgs)
    BY <1>2, <2>1, FS_Injection
  <2> QED
    BY <2>2, <2>3 DEF n
<1>4. ASSUME NEW r \in Others PROVE Len(sub[r]) < HighWater
  <2>1. Slice(arrived, sub[r], Got(r, h), Out) /\ Got(r, h) \in Nat /\ sub[r] \in Seq(Msgs)
    BY <1>1, Places, RankZero DEF Good, Stream, TypeOK
  <2>2. Len(sub[r]) \in Nat /\ Got(r, h) + Len(sub[r]) <= Len(arrived)
    BY <2>1 DEF Slice
  <2> QED
    BY <1>1, <1>2, <1>3, <2>1, <2>2
<1> QED
  BY <1>4 DEF RoomLeft

\* No subscriber's socket is full as long as all messages there are fit into it.
THEOREM FewMessagesFit ==
  ASSUME ~ Late, Cardinality(Msgs) < HighWater
  PROVE  Spec => []RoomLeft
<1>1. Init => IInv /\ RInv
  BY InitGood, InitCounted
<1>2. IInv /\ RInv => RoomLeft
  BY RoomForFew
<1>3. IInv /\ RInv /\ RoomLeft /\ [Next]_vars => IInv' /\ RInv'
  BY StepPreserves, RInvStep
<1> QED
  BY <1>1, <1>2, <1>3, PTL DEF Spec
=============================================================================
