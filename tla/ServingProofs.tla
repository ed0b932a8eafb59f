---------------------------- MODULE ServingProofs -----------------------------
(***************************************************************************)
(* Proofs about Serving, for any number of requests, replies and messages  *)
(* per turn and every order of handlers, listener, abort tasks and         *)
(* processes.  The two maps hold the same uids and an entry for every      *)
(* coroutine that will read its own, and only requests whose client has    *)
(* gone are aborted (IInv); replies come in order, nobody is worked for in *)
(* vain, and the whole implements RequestService (Flow, Behind).           *)
(***************************************************************************)
EXTENDS Serving, FiniteSetTheorems, NaturalsInduction, SequenceTheorems, TLAPS

LEMMA SmallestNat ==
  ASSUME NEW T \in SUBSET Nat, T # {}
  PROVE  \E m \in T : \A k \in T : m <= k
<1>1. PICK m \in T : \A k \in T : ~ (<< k, m >> \in OpToRel(<, Nat))
  BY NatLessThanWellFounded, WFMin
<1>2. \A k \in T : ~ (k < m)
  BY <1>1 DEF OpToRel
<1> QED
  BY <1>2

\* g is the function of Within, up to n elements of the list s
Keeps(g, s, S, n) ==
  g = [k \in 0..n |-> IF k = 0 THEN << >>
                      ELSE IF s[k] \in S THEN Append(g[k - 1], s[k]) ELSE g[k - 1]]

LEMMA KeepsExists ==
  ASSUME NEW s, NEW S, NEW n \in Nat
  PROVE  \E g : Keeps(g, s, S, n)
<1> DEFINE B == {k \in 0..n : ~ \E g : Keeps(g, s, S, k)}
<1>1. ASSUME B # {} PROVE FALSE
  <2>1. B \in SUBSET Nat
    OBVIOUS
  <2>2. PICK k \in B : \A j \in B : k <= j
    <3> HIDE DEF B
    <3> QED
      BY <1>1, <2>1, SmallestNat
  <2>3. k \in 0..n /\ k \in Nat /\ ~ \E g : Keeps(g, s, S, k)
    BY <2>2
  <2>4. CASE k = 0
    <3>1. Keeps([j \in 0..0 |-> << >>], s, S, 0)
      BY DEF Keeps
    <3> QED
      BY <2>3, <2>4, <3>1
  <2>5. CASE k # 0
    <3>1. k - 1 \in 0..n /\ k - 1 \in Nat /\ k - 1 \notin B
      BY <2>2, <2>3, <2>5
    <3>2. PICK f : Keeps(f, s, S, k - 1)
      BY <3>1
    <3> PICK g : g = [j \in 0..k |-> IF j = k THEN (IF s[k] \in S THEN Append(f[k - 1], s[k])
                                                    ELSE f[k - 1])
                                     ELSE f[j]]
      OBVIOUS
    <3>3. \A j \in 0..(k - 1) : f[j] = IF j = 0 THEN << >>
                                       ELSE IF s[j] \in S THEN Append(f[j - 1], s[j])
                                            ELSE f[j - 1]
      BY <3>2 DEF Keeps
    <3>4. \A j \in 0..(k - 1) : g[j] = f[j]
      BY <2>3
    <3>5. ASSUME NEW j \in 0..k
          PROVE  g[j] = IF j = 0 THEN << >>
                        ELSE IF s[j] \in S THEN Append(g[j - 1], s[j]) ELSE g[j - 1]
      <4>1. CASE j = k
        <5>1. k - 1 \in 0..(k - 1)
          BY <2>3, <2>5
        <5>2. g[k - 1] = f[k - 1]
          BY <3>4, <5>1
        <5> QED
          BY <2>5, <4>1, <5>2
      <4>2. CASE j # k
        <5>1. j \in 0..(k - 1) /\ (j # 0 => j - 1 \in 0..(k - 1))
          BY <2>3, <4>2
        <5> QED
          BY <3>3, <3>4, <5>1
      <4> QED
        BY <4>1, <4>2
    <3>6. Keeps(g, s, S, k)
      BY <3>5 DEF Keeps
    <3> QED
      BY <2>3, <3>6
  <2> QED
    BY <2>4, <2>5
<1>2. n \notin B
  BY <1>1
<1> QED
  BY <1>2

LEMMA KeepsOne ==
  ASSUME NEW s, NEW t, NEW S, NEW n \in Nat, NEW m \in Nat, n <= m,
         \A i \in 1..n : t[i] = s[i],
         NEW f, Keeps(f, s, S, n), NEW g, Keeps(g, t, S, m)
  PROVE  \A i \in 0..n : g[i] = f[i]
<1>1. \A i \in 0..n : f[i] = IF i = 0 THEN << >>
                             ELSE IF s[i] \in S THEN Append(f[i - 1], s[i]) ELSE f[i - 1]
  BY DEF Keeps
<1>2. \A i \in 0..n : g[i] = IF i = 0 THEN << >>
                             ELSE IF t[i] \in S THEN Append(g[i - 1], t[i]) ELSE g[i - 1]
  <2>1. \A i \in 0..m : g[i] = IF i = 0 THEN << >>
                               ELSE IF t[i] \in S THEN Append(g[i - 1], t[i]) ELSE g[i - 1]
    BY DEF Keeps
  <2>2. \A i \in 0..n : i \in 0..m
    OBVIOUS
  <2> QED
    BY <2>1, <2>2
<1> DEFINE B == {i \in 0..n : g[i] # f[i]}
<1>3. ASSUME B # {} PROVE FALSE
  <2>1. B \in SUBSET Nat
    OBVIOUS
  <2>2. PICK i \in B : \A j \in B : i <= j
    <3> HIDE DEF B
    <3> QED
      BY <1>3, <2>1, SmallestNat
  <2>3. CASE i = 0
    BY <1>1, <1>2, <2>2, <2>3
  <2>4. CASE i # 0
    <3>1. i - 1 \in 0..n /\ i \in 1..n /\ i \in Nat
      BY <2>2, <2>4
    <3>2. i - 1 \notin B
      BY <2>2, <3>1
    <3>3. g[i - 1] = f[i - 1] /\ t[i] = s[i]
      BY <3>1, <3>2
    <3> QED
      BY <1>1, <1>2, <2>2, <2>4, <3>1, <3>3
  <2> QED
    BY <2>3, <2>4
<1> QED
  BY <1>3

LEMMA WithinIs ==
  ASSUME NEW s, NEW S, NEW f, Len(s) \in Nat, Keeps(f, s, S, Len(s))
  PROVE  Within(s, S) = f[Len(s)]
<1> DEFINE n == Len(s)
           P(g) == g = [k \in 0..n |-> IF k = 0 THEN << >>
                                       ELSE IF s[k] \in S THEN Append(g[k - 1], s[k])
                                            ELSE g[k - 1]]
           c == CHOOSE g : P(g)
<1>1. P(f)
  BY DEF Keeps
<1>2. P(c)
  <2> HIDE DEF P
  <2> QED
    BY <1>1
<1>3. Within(s, S) = c[n]
  BY DEF Within
<1>4. Keeps(c, s, S, Len(s))
  BY <1>2 DEF Keeps
<1>5. c[n] = f[n]
  <2>1. n \in Nat /\ n \in 0..n /\ n <= n /\ \A i \in 1..n : s[i] = s[i]
    OBVIOUS
  <2> HIDE DEF c, P
  <2>2. \A i \in 0..n : c[i] = f[i]
    <3> HIDE DEF n
    <3> QED
      BY <1>4, <2>1, KeepsOne DEF n
  <2> QED
    BY <2>1, <2>2
<1> QED
  BY <1>3, <1>5

LEMMA WithinEmpty == \A S : Within(<< >>, S) = << >>
<1> TAKE S
<1>1. Len(<< >>) = 0
  OBVIOUS
<1>2. PICK f : Keeps(f, << >>, S, 0)
  BY KeepsExists
<1>3. f[0] = << >>
  BY <1>2 DEF Keeps
<1> QED
  BY <1>1, <1>2, <1>3, WithinIs

LEMMA WithinAppend ==
  ASSUME NEW M, NEW s \in Seq(M), NEW e \in M, NEW S
  PROVE  Within(Append(s, e), S) =
           IF e \in S THEN Append(Within(s, S), e) ELSE Within(s, S)
<1> DEFINE n == Len(s)
           t == Append(s, e)
<1>1. n \in Nat /\ Len(t) = n + 1 /\ t[n + 1] = e /\ \A i \in 1..n : t[i] = s[i]
  OBVIOUS
<1>2. PICK f : Keeps(f, s, S, n)
  BY <1>1, KeepsExists
<1>3. PICK g : Keeps(g, t, S, n + 1)
  <2>1. n + 1 \in Nat
    BY <1>1
  <2> HIDE DEF n, t
  <2> QED
    BY <2>1, KeepsExists
<1>4. Within(s, S) = f[n]
  BY <1>1, <1>2, WithinIs
<1>5. Within(t, S) = g[n + 1]
  <2> HIDE DEF n, t
  <2>1. Len(t) \in Nat /\ Keeps(g, t, S, Len(t))
    BY <1>1, <1>3
  <2> QED
    BY <1>1, <2>1, WithinIs
<1>6. g[n] = f[n]
  <2> DEFINE m == n + 1
  <2>1. m \in Nat /\ n \in Nat /\ n <= m /\ n \in 0..n /\ Keeps(g, t, S, m)
    BY <1>1, <1>3
  <2> HIDE DEF n, m, t
  <2>2. \A i \in 0..n : g[i] = f[i]
    BY <1>1, <1>2, <2>1, KeepsOne
  <2> QED
    BY <2>1, <2>2
<1>7. g[n + 1] = IF t[n + 1] \in S THEN Append(g[n], t[n + 1]) ELSE g[n]
  <2>1. \A i \in 0..(n + 1) : g[i] = IF i = 0 THEN << >>
                               ELSE IF t[i] \in S THEN Append(g[i - 1], t[i]) ELSE g[i - 1]
    BY <1>3 DEF Keeps
  <2>2. n + 1 \in 0..(n + 1) /\ n + 1 # 0 /\ n + 1 - 1 = n
    BY <1>1
  <2> HIDE DEF n, t
  <2> QED
    BY <1>1, <2>1, <2>2
<1> HIDE DEF n
<1> QED
  BY <1>1, <1>4, <1>5, <1>6, <1>7

\* Induction over sequences, on a set of them.
LEMMA AllSequences ==
  ASSUME NEW M, NEW T, << >> \in T,
         \A s \in Seq(M) : \A e \in M : s \in T => Append(s, e) \in T
  PROVE  \A s \in Seq(M) : s \in T
<1> DEFINE B == {n \in Nat : \E s \in Seq(M) : Len(s) = n /\ s \notin T}
<1>1. ASSUME B # {} PROVE FALSE
  <2>1. B \in SUBSET Nat
    OBVIOUS
  <2>2. PICK n \in B : \A m \in B : n <= m
    <3> HIDE DEF B
    <3> QED
      BY <1>1, <2>1, SmallestNat
  <2>3. PICK s \in Seq(M) : Len(s) = n /\ s \notin T
    BY <2>2
  <2>4. PICK r \in Seq(M), e \in M : s = Append(r, e)
    BY <2>3, SequenceEmptyOrAppend
  <2>5. Len(r) \in Nat /\ Len(r) < n
    BY <2>3, <2>4
  <2>6. Len(r) \notin B
    BY <2>2, <2>5
  <2> QED
    BY <2>3, <2>4, <2>5, <2>6
<1>2. ASSUME NEW s \in Seq(M) PROVE s \in T
  <2>1. Len(s) \in Nat /\ Len(s) \notin B
    BY <1>1
  <2> QED
    BY <2>1
<1> QED
  BY <1>2

LEMMA WithinType ==
  ASSUME NEW M, NEW s \in Seq(M), NEW S
  PROVE  Within(s, S) \in Seq(M)
<1> DEFINE T == {t \in Seq(M) : Within(t, S) \in Seq(M)}
<1>1. << >> \in T
  BY WithinEmpty, EmptySeq
<1>2. ASSUME NEW t \in Seq(M), NEW e \in M, t \in T PROVE Append(t, e) \in T
  <2>1. Append(t, e) \in Seq(M) /\ Within(t, S) \in Seq(M)
    BY <1>2
  <2>2. Append(Within(t, S), e) \in Seq(M)
    BY <2>1
  <2>3. Within(Append(t, e), S) = Append(Within(t, S), e) \/ Within(Append(t, e), S) = Within(t, S)
    BY WithinAppend
  <2> QED
    BY <2>1, <2>2, <2>3
<1> HIDE DEF T
<1>3. s \in T
  BY <1>1, <1>2, AllSequences
<1> QED
  BY <1>3 DEF T

LEMMA AppendConcat ==
  ASSUME NEW M, NEW s \in Seq(M), NEW t \in Seq(M), NEW e \in M
  PROVE  s \o Append(t, e) = Append(s \o t, e)
OBVIOUS

LEMMA WithinConcat ==
  ASSUME NEW M, NEW s \in Seq(M), NEW t \in Seq(M), NEW S
  PROVE  Within(s \o t, S) = Within(s, S) \o Within(t, S)
<1> DEFINE T == {r \in Seq(M) : Within(s \o r, S) = Within(s, S) \o Within(r, S)}
<1>0. Within(s, S) \in Seq(M)
  BY WithinType
<1>1. << >> \in T
  <2>1. s \o << >> = s /\ Within(s, S) \o << >> = Within(s, S) /\ << >> \in Seq(M)
    BY <1>0, ConcatEmptySeq, EmptySeq
  <2> QED
    BY <2>1, WithinEmpty
<1>2. ASSUME NEW r \in Seq(M), NEW e \in M, r \in T PROVE Append(r, e) \in T
  <2>1. /\ s \o Append(r, e) = Append(s \o r, e) /\ s \o r \in Seq(M)
        /\ Append(r, e) \in Seq(M)
    BY AppendConcat
  <2>2. Within(Append(s \o r, e), S) =
          IF e \in S THEN Append(Within(s \o r, S), e) ELSE Within(s \o r, S)
    BY <2>1, WithinAppend
  <2>3. Within(Append(r, e), S) = IF e \in S THEN Append(Within(r, S), e) ELSE Within(r, S)
    BY WithinAppend
  <2>4. Within(r, S) \in Seq(M)
    BY WithinType
  <2>5. Within(s, S) \o Append(Within(r, S), e) = Append(Within(s, S) \o Within(r, S), e)
    BY <1>0, <2>4, AppendConcat
  <2>6. Within(s \o r, S) = Within(s, S) \o Within(r, S)
    BY <1>2
  <2> QED
    BY <2>1, <2>2, <2>3, <2>5, <2>6
<1> HIDE DEF T
<1>3. t \in T
  BY <1>1, <1>2, AllSequences
<1> QED
  BY <1>3 DEF T

\* f says where the elements of Within(t, S) come from: each from a place of its
\* own, and every place that passes is taken.
Picks(f, t, S) ==
  /\ f \in [DOMAIN Within(t, S) -> DOMAIN t]
  /\ \A i \in DOMAIN Within(t, S) : Within(t, S)[i] = t[f[i]]
  /\ \A i, j \in DOMAIN Within(t, S) : f[i] = f[j] => i = j
  /\ \A k \in DOMAIN t : t[k] \in S <=> \E i \in DOMAIN Within(t, S) : f[i] = k

LEMMA PicksEmpty == \A S : \E f : Picks(f, << >>, S)
<1> TAKE S
<1>1. Within(<< >>, S) = << >> /\ DOMAIN << >> = {}
  BY WithinEmpty
<1> DEFINE f == [i \in {} |-> i]
<1>2. f \in [{} -> {}]
  OBVIOUS
<1>3. Picks(f, << >>, S)
  BY <1>1, <1>2 DEF Picks
<1> QED
  BY <1>3

LEMMA AppendPlaces ==
  ASSUME NEW M, NEW s \in Seq(M), NEW e \in M
  PROVE  /\ Append(s, e) \in Seq(M) /\ Len(s) \in Nat /\ DOMAIN s = 1..Len(s)
         /\ DOMAIN Append(s, e) = 1..(Len(s) + 1) /\ Append(s, e)[Len(s) + 1] = e
         /\ \A k \in 1..Len(s) : Append(s, e)[k] = s[k]
OBVIOUS

LEMMA PicksAppend ==
  ASSUME NEW M, NEW t \in Seq(M), NEW e \in M, NEW S, NEW f, Picks(f, t, S)
  PROVE  \E g : Picks(g, Append(t, e), S)
<1>1. PICK w \in Seq(M) : w = Within(t, S)
  BY WithinType
<1>2. /\ f \in [DOMAIN w -> DOMAIN t]
      /\ \A i \in DOMAIN w : w[i] = t[f[i]]
      /\ \A i, j \in DOMAIN w : f[i] = f[j] => i = j
      /\ \A k \in DOMAIN t : t[k] \in S <=> \E i \in DOMAIN w : f[i] = k
  BY <1>1 DEF Picks
<1> DEFINE n == Len(t)
           a == Append(t, e)
<1>3. /\ n \in Nat /\ DOMAIN t = 1..n /\ DOMAIN a = 1..(n + 1) /\ a[n + 1] = e
      /\ \A k \in 1..n : a[k] = t[k]
  BY AppendPlaces
<1>4. Within(a, S) = IF e \in S THEN Append(w, e) ELSE w
  BY <1>1, WithinAppend
<1> HIDE DEF n, a
<1>5. CASE e \notin S
  <2>1. Within(a, S) = w
    BY <1>4, <1>5
  <2>2. f \in [DOMAIN w -> DOMAIN a]
    <3>1. DOMAIN t \subseteq DOMAIN a
      BY <1>3
    <3> QED
      BY <1>2, <3>1
  <2>3. \A k \in DOMAIN a : a[k] \in S <=> \E i \in DOMAIN w : f[i] = k
    <3> TAKE k \in DOMAIN a
    <3>1. CASE k = n + 1
      BY <1>2, <1>3, <1>5, <3>1
    <3>2. CASE k # n + 1
      <4>1. k \in DOMAIN t /\ a[k] = t[k]
        BY <1>3, <3>2
      <4> QED
        BY <1>2, <4>1
    <3> QED
      BY <3>1, <3>2
  <2>4. \A i \in DOMAIN w : w[i] = a[f[i]]
    BY <1>2, <1>3
  <2>5. Picks(f, a, S)
    BY <1>2, <2>1, <2>2, <2>3, <2>4 DEF Picks
  <2> QED
    BY <2>5 DEF a
<1>6. CASE e \in S
  <2> DEFINE m == Len(w)
             v == Append(w, e)
             g == [i \in 1..(m + 1) |-> IF i = m + 1 THEN n + 1 ELSE f[i]]
  <2>1. /\ m \in Nat /\ DOMAIN w = 1..m /\ DOMAIN v = 1..(m + 1) /\ v[m + 1] = e
        /\ \A k \in 1..m : v[k] = w[k]
    BY AppendPlaces
  <2>2. Within(a, S) = v
    BY <1>4, <1>6
  <2> HIDE DEF m, v
  <2>3. g[m + 1] = n + 1 /\ \A i \in 1..m : g[i] = f[i] /\ f[i] \in 1..n
    BY <1>2, <1>3, <2>1
  <2>4. \A i \in 1..(m + 1) : i = m + 1 \/ i \in 1..m
    BY <2>1
  <2>5. g \in [DOMAIN v -> DOMAIN a]
    <3>1. \A i \in 1..(m + 1) : g[i] \in 1..(n + 1)
      <4> TAKE i \in 1..(m + 1)
      <4>1. CASE i = m + 1
        BY <1>3, <2>3, <4>1
      <4>2. CASE i \in 1..m
        <5>1. g[i] \in 1..n
          BY <2>3, <4>2
        <5> HIDE DEF g
        <5> QED
          BY <1>3, <5>1
      <4> QED
        BY <2>4, <4>1, <4>2
    <3> QED
      BY <1>3, <2>1, <3>1
  <2> HIDE DEF g
  <2>6. \A i \in DOMAIN v : v[i] = a[g[i]]
    <3> TAKE i \in DOMAIN v
    <3>1. CASE i = m + 1
      BY <1>3, <2>1, <2>3, <3>1
    <3>2. CASE i \in 1..m
      BY <1>2, <1>3, <2>1, <2>3, <3>2
    <3> QED
      BY <2>1, <2>4, <3>1, <3>2
  <2>7. \A i, j \in DOMAIN v : g[i] = g[j] => i = j
    <3>1. \A i, j \in 1..m : g[i] = g[j] => i = j
      BY <1>2, <2>1, <2>3
    <3>2. \A i \in 1..m : g[i] # n + 1
      BY <1>3, <2>3
    <3> QED
      BY <2>1, <2>3, <2>4, <3>1, <3>2
  <2>8. \A k \in DOMAIN a : a[k] \in S <=> \E i \in DOMAIN v : g[i] = k
    <3> TAKE k \in DOMAIN a
    <3>1. CASE k = n + 1
      <4>1. m + 1 \in DOMAIN v
        BY <2>1
      <4> QED
        BY <1>3, <1>6, <2>3, <3>1, <4>1
    <3>2. CASE k # n + 1
      <4>1. k \in DOMAIN t /\ a[k] = t[k]
        BY <1>3, <3>2
      <4>2. t[k] \in S <=> \E i \in 1..m : f[i] = k
        BY <1>2, <2>1, <4>1
      <4>3. ASSUME NEW i \in 1..m, f[i] = k PROVE \E j \in DOMAIN v : g[j] = k
        <5>1. i \in DOMAIN v /\ g[i] = k
          BY <2>1, <2>3, <4>3
        <5> QED
          BY <5>1
      <4>4. ASSUME NEW j \in DOMAIN v, g[j] = k PROVE \E i \in 1..m : f[i] = k
        <5>1. j # m + 1
          BY <2>3, <3>2, <4>4
        <5>2. j \in 1..m /\ f[j] = k
          BY <2>1, <2>3, <2>4, <4>4, <5>1
        <5> QED
          BY <5>2
      <4> QED
        BY <4>1, <4>2, <4>3, <4>4
    <3> QED
      BY <3>1, <3>2
  <2>9. Picks(g, a, S)
    BY <2>2, <2>5, <2>6, <2>7, <2>8 DEF Picks
  <2> QED
    BY <2>9 DEF a
<1> QED
  BY <1>5, <1>6

LEMMA WithinPlaces ==
  ASSUME NEW M, NEW s \in Seq(M), NEW S
  PROVE  \E f : Picks(f, s, S)
<1> DEFINE T == {t \in Seq(M) : \E f : Picks(f, t, S)}
<1>1. << >> \in T
  BY PicksEmpty, EmptySeq
<1>2. ASSUME NEW t \in Seq(M), NEW e \in M, t \in T PROVE Append(t, e) \in T
  <2>1. PICK f : Picks(f, t, S)
    BY <1>2
  <2>2. \E g : Picks(g, Append(t, e), S)
    BY <2>1, PicksAppend
  <2>3. Append(t, e) \in Seq(M)
    OBVIOUS
  <2> QED
    BY <2>2, <2>3
<1> HIDE DEF T
<1>3. s \in T
  BY <1>1, <1>2, AllSequences
<1> QED
  BY <1>3 DEF T

-----------------------------------------------------------------------------
(* FlattenSeq of a longer sequence. *)

\* f flattens the first n elements of s.
Flattens(f, s, n) == f = [i \in 1..n |-> IF i = 1 THEN s[i] ELSE f[i - 1] \o s[i]]

LEMMA FlattensUnique ==
  ASSUME NEW s, NEW t, NEW n \in Nat, NEW m \in Nat, n <= m, \A i \in 1..n : t[i] = s[i],
         NEW f, Flattens(f, s, n), NEW g, Flattens(g, t, m)
  PROVE  \A i \in 1..n : g[i] = f[i]
<1>1. \A i \in 1..n : f[i] = IF i = 1 THEN s[i] ELSE f[i - 1] \o s[i]
  BY DEF Flattens
<1>2. \A i \in 1..n : g[i] = IF i = 1 THEN t[i] ELSE g[i - 1] \o t[i]
  <2>1. \A i \in 1..m : g[i] = IF i = 1 THEN t[i] ELSE g[i - 1] \o t[i]
    BY DEF Flattens
  <2>2. \A i \in 1..n : i \in 1..m
    OBVIOUS
  <2> QED
    BY <2>1, <2>2
<1> DEFINE B == {i \in 1..n : g[i] # f[i]}
<1>3. ASSUME B # {} PROVE FALSE
  <2>1. B \in SUBSET Nat
    OBVIOUS
  <2>2. PICK i \in B : \A j \in B : i <= j
    <3> HIDE DEF B
    <3> QED
      BY <1>3, <2>1, SmallestNat
  <2>3. CASE i = 1
    BY <1>1, <1>2, <2>2, <2>3
  <2>4. CASE i # 1
    <3>1. i - 1 \in 1..n /\ i \in 1..n /\ i \in Nat
      BY <2>2, <2>4
    <3>2. i - 1 \notin B
      BY <2>2, <3>1
    <3>3. g[i - 1] = f[i - 1]
      BY <3>1, <3>2
    <3> QED
      BY <1>1, <1>2, <2>2, <2>4, <3>1, <3>3
  <2> QED
    BY <2>3, <2>4
<1> QED
  BY <1>3

LEMMA FlattensExists ==
  ASSUME NEW s, NEW n \in Nat
  PROVE  \E f : Flattens(f, s, n)
<1> DEFINE B == {k \in 0..n : ~ \E f : Flattens(f, s, k)}
<1>1. ASSUME B # {} PROVE FALSE
  <2>1. B \in SUBSET Nat
    OBVIOUS
  <2>2. PICK k \in B : \A j \in B : k <= j
    <3> HIDE DEF B
    <3> QED
      BY <1>1, <2>1, SmallestNat
  <2>3. k \in 0..n /\ k \in Nat /\ ~ \E f : Flattens(f, s, k)
    BY <2>2
  <2>4. CASE k = 0
    <3>1. Flattens([i \in 1..0 |-> {}], s, 0)
      BY DEF Flattens
    <3> QED
      BY <2>3, <2>4, <3>1
  <2>5. CASE k # 0
    <3>1. k - 1 \in 0..n /\ k - 1 \in Nat /\ k - 1 \notin B
      BY <2>2, <2>3, <2>5
    <3>2. PICK f : Flattens(f, s, k - 1)
      BY <3>1
    <3> PICK g : g = [i \in 1..k |-> IF i = k THEN (IF k = 1 THEN s[k] ELSE f[k - 1] \o s[k])
                                     ELSE f[i]]
      OBVIOUS
    <3>3. \A i \in 1..(k - 1) : f[i] = IF i = 1 THEN s[i] ELSE f[i - 1] \o s[i]
      BY <3>2 DEF Flattens
    <3>4. \A i \in 1..(k - 1) : g[i] = f[i]
      BY <2>3
    <3>5. ASSUME NEW i \in 1..k PROVE g[i] = IF i = 1 THEN s[i] ELSE g[i - 1] \o s[i]
      <4>1. CASE i = k
        <5>1. k # 1 => k - 1 \in 1..(k - 1)
          BY <2>3, <2>5
        <5> QED
          BY <3>4, <4>1, <5>1
      <4>2. CASE i # k
        <5>1. i \in 1..(k - 1) /\ (i # 1 => i - 1 \in 1..(k - 1))
          BY <2>3, <4>2
        <5> QED
          BY <3>3, <3>4, <5>1
      <4> QED
        BY <4>1, <4>2
    <3>6. Flattens(g, s, k)
      BY <3>5 DEF Flattens
    <3> QED
      BY <2>3, <3>6
  <2> QED
    BY <2>4, <2>5
<1>2. n \notin B
  BY <1>1
<1> QED
  BY <1>2

LEMMA FlattensOne ==
  ASSUME NEW s, NEW n \in Nat, NEW f, Flattens(f, s, n), NEW g, Flattens(g, s, n)
  PROVE  \A i \in 1..n : g[i] = f[i]
<1>1. n <= n /\ \A i \in 1..n : s[i] = s[i]
  OBVIOUS
<1> QED
  BY <1>1, FlattensUnique

LEMMA FlattenIs ==
  ASSUME NEW s, NEW f, Len(s) \in Nat, Len(s) # 0, Flattens(f, s, Len(s))
  PROVE  FlattenSeq(s) = f[Len(s)]
<1> DEFINE P(g) == g = [i \in 1..Len(s) |-> IF i = 1 THEN s[i] ELSE g[i - 1] \o s[i]]
           c == CHOOSE g : P(g)
<1>1. P(f)
  BY DEF Flattens
<1>2. P(c)
  BY <1>1
<1>3. FlattenSeq(s) = c[Len(s)]
  BY DEF FlattenSeq
<1>4. Flattens(c, s, Len(s))
  BY <1>2 DEF Flattens
<1>5. c[Len(s)] = f[Len(s)]
  <2>1. Len(s) \in 1..Len(s) /\ Len(s) <= Len(s)
    OBVIOUS
  <2> HIDE DEF c
  <2>2. \A i \in 1..Len(s) : c[i] = f[i]
    BY <1>4, FlattensOne
  <2> QED
    BY <2>1, <2>2
<1> QED
  BY <1>3, <1>5

LEMMA FlattenAppend ==
  ASSUME NEW M, NEW s \in Seq(Seq(M)), NEW e \in Seq(M)
  PROVE  FlattenSeq(Append(s, e)) = FlattenSeq(s) \o e
<1> DEFINE n == Len(s)
           t == Append(s, e)
<1>1. n \in Nat /\ Len(t) = n + 1 /\ t[n + 1] = e /\ \A i \in 1..n : t[i] = s[i]
  OBVIOUS
<1>2. PICK g : Flattens(g, t, n + 1)
  <2>1. n + 1 \in Nat
    BY <1>1
  <2> HIDE DEF n, t
  <2> QED
    BY <2>1, FlattensExists
<1>3. FlattenSeq(t) = g[n + 1]
  <2> HIDE DEF n, t
  <2> QED
    BY <1>1, <1>2, FlattenIs
<1>4. g[n + 1] = IF n + 1 = 1 THEN e ELSE g[n + 1 - 1] \o e
  <2>1. \A i \in 1..(n + 1) : g[i] = IF i = 1 THEN t[i] ELSE g[i - 1] \o t[i]
    BY <1>2 DEF Flattens
  <2> HIDE DEF n, t
  <2> QED
    BY <1>1, <2>1
<1>5. CASE n = 0
  <2>1. FlattenSeq(s) = s /\ s = << >>
    BY <1>5 DEF FlattenSeq
  <2>2. FlattenSeq(s) \o e = e
    BY <2>1
  <2> QED
    BY <1>3, <1>4, <1>5, <2>2
<1>6. CASE n # 0
  <2>1. PICK f : Flattens(f, s, n)
    BY <1>1, FlattensExists
  <2>2. FlattenSeq(s) = f[n]
    BY <1>1, <1>6, <2>1, FlattenIs
  <2> HIDE DEF n, t
  <2>3. g[n] = f[n]
    <3>1. n \in 1..n /\ n <= n + 1 /\ n + 1 \in Nat
      BY <1>1, <1>6
    <3> QED
      <4>1. n \in Nat /\ \A i \in 1..n : t[i] = s[i]
        BY <1>1
      <4>2. Flattens(f, s, n) /\ Flattens(g, t, n + 1)
        BY <1>2, <2>1
      <4> DEFINE m == n + 1
      <4>3. m \in Nat /\ n <= m /\ Flattens(g, t, m)
        BY <3>1, <4>2
      <4> HIDE DEF m
      <4>4. \A i \in 1..n : g[i] = f[i]
        BY <4>1, <4>2, <4>3, FlattensUnique
      <4> QED
        BY <3>1, <4>4
  <2>4. n + 1 # 1 /\ n + 1 - 1 = n
    BY <1>1, <1>6
  <2> QED
    BY <1>3, <1>4, <2>2, <2>3, <2>4 DEF t
<1> QED
  BY <1>5, <1>6

LEMMA FlattenEmpty == FlattenSeq(<< >>) = << >>
BY DEF FlattenSeq

LEMMA FlattenType ==
  ASSUME NEW M, NEW s \in Seq(Seq(M))
  PROVE  FlattenSeq(s) \in Seq(M)
<1> DEFINE T == {t \in Seq(Seq(M)) : FlattenSeq(t) \in Seq(M)}
<1>1. << >> \in T
  <2>1. << >> \in Seq(Seq(M)) /\ << >> \in Seq(M)
    OBVIOUS
  <2> QED
    BY <2>1, FlattenEmpty
<1>2. ASSUME NEW t \in Seq(Seq(M)), NEW e \in Seq(M), t \in T PROVE Append(t, e) \in T
  <2>1. Append(t, e) \in Seq(Seq(M)) /\ FlattenSeq(t) \in Seq(M)
    BY <1>2
  <2>2. FlattenSeq(t) \o e \in Seq(M)
    BY <2>1
  <2>3. FlattenSeq(Append(t, e)) = FlattenSeq(t) \o e
    BY FlattenAppend
  <2> QED
    BY <2>1, <2>2, <2>3
<1> HIDE DEF T
<1>3. s \in T
  BY <1>1, <1>2, AllSequences
<1> QED
  BY <1>3 DEF T

LEMMA FlattenConcat ==
  ASSUME NEW M, NEW s \in Seq(Seq(M)), NEW t \in Seq(Seq(M))
  PROVE  FlattenSeq(s \o t) = FlattenSeq(s) \o FlattenSeq(t)
<1> DEFINE T == {r \in Seq(Seq(M)) : FlattenSeq(s \o r) = FlattenSeq(s) \o FlattenSeq(r)}
<1>0. FlattenSeq(s) \in Seq(M)
  BY FlattenType
<1>1. << >> \in T
  <2>1. s \o << >> = s /\ FlattenSeq(s) \o << >> = FlattenSeq(s)
    BY <1>0, ConcatEmptySeq
  <2>2. << >> \in Seq(Seq(M))
    OBVIOUS
  <2> QED
    BY <2>1, <2>2, FlattenEmpty
<1>2. ASSUME NEW r \in Seq(Seq(M)), NEW e \in Seq(M), r \in T PROVE Append(r, e) \in T
  <2>1. /\ s \o Append(r, e) = Append(s \o r, e) /\ s \o r \in Seq(Seq(M))
        /\ Append(r, e) \in Seq(Seq(M))
    BY AppendConcat
  <2>2. FlattenSeq(Append(s \o r, e)) = FlattenSeq(s \o r) \o e
    BY <2>1, FlattenAppend
  <2>3. FlattenSeq(Append(r, e)) = FlattenSeq(r) \o e
    BY FlattenAppend
  <2>4. FlattenSeq(r) \in Seq(M)
    BY FlattenType
  <2>5. FlattenSeq(s) \o (FlattenSeq(r) \o e) = (FlattenSeq(s) \o FlattenSeq(r)) \o e
    BY <1>0, <2>4, ConcatAssociative
  <2>6. FlattenSeq(s \o r) = FlattenSeq(s) \o FlattenSeq(r)
    BY <1>2
  <2> QED
    BY <2>1, <2>2, <2>3, <2>5, <2>6
<1> HIDE DEF T
<1>3. t \in T
  BY <1>1, <1>2, AllSequences
<1> QED
  BY <1>3 DEF T

LEMMA FlattenOne == ASSUME NEW M, NEW e \in Seq(M) PROVE FlattenSeq(<< e >>) = e
<1>1. << e >> = Append(<< >>, e) /\ << >> \in Seq(Seq(M)) /\ << >> \o e = e
  BY ConcatEmptySeq
<1> QED
  BY <1>1, FlattenAppend, FlattenEmpty
-----------------------------------------------------------------------------
\* The types the steps need
Shapes ==
  /\ uid_counter \in Nat
  /\ task \in [User -> Stop]
  /\ aborting \in [User -> {"no", "sleeping", "sending", "sent"}]
  /\ connected \subseteq User
  /\ to_tokenizer \in [Tokenizer -> Seq(Message)]

\* Uids are taken in order
FreshUids == \A u \in User : u >= uid_counter => task[u] = "none"

\* abort_user runs for cancelled handlers only, and those have lost their client
AbortsAreOfLost ==
  \A u \in User : aborting[u] # "no" => task[u] = "cancelled" /\ u \notin connected

AbortMessage(u) == [kind |-> "abort", uid |-> u]

\* So have the requests whose abort is on its way
MessagesAreOfLost ==
  \A t \in Tokenizer : \A i \in DOMAIN to_tokenizer[t] : \A u \in connected :
    to_tokenizer[t][i] # AbortMessage(u)

IInv ==
  Shapes /\ FreshUids /\ AbortsAreOfLost /\ MessagesAreOfLost /\ MapsTogether

-----------------------------------------------------------------------------
LEMMA InitHolds == ServingInit => IInv
<1> SUFFICES ASSUME Init PROVE IInv
  BY DEF ServingInit
<1>1. DOMAIN ack_map = {} /\ DOMAIN event_map = {}
  BY DEF Init
<1>2. Shapes
  BY DEF Init, Shapes, Stop
<1>3. FreshUids /\ AbortsAreOfLost /\ MessagesAreOfLost
  BY DEF Init, FreshUids, AbortsAreOfLost, MessagesAreOfLost
<1>4. MapsTogether
  BY <1>1 DEF Init, MapsTogether, Streaming
<1> QED
  BY <1>2, <1>3, <1>4 DEF IInv

\* A message that is no abort of a connected client may be sent.
LEMMA PutHolds ==
  ASSUME Shapes, MessagesAreOfLost, NEW m \in Message, Put(m),
         \A u \in connected : m # AbortMessage(u), UNCHANGED connected
  PROVE  to_tokenizer' \in [Tokenizer -> Seq(Message)] /\ MessagesAreOfLost'
<1>1. PICK t \in Tokenizer : to_tokenizer' = [to_tokenizer EXCEPT ![t] = Append(@, m)]
  BY DEF Put
<1>2. to_tokenizer[t] \in Seq(Message)
  BY DEF Shapes
<1>3. \A s \in Tokenizer : to_tokenizer'[s] = IF s = t THEN Append(to_tokenizer[t], m)
                                              ELSE to_tokenizer[s]
  BY <1>1 DEF Shapes
<1>4. to_tokenizer' \in [Tokenizer -> Seq(Message)]
  <2>1. Append(to_tokenizer[t], m) \in Seq(Message)
    BY <1>2
  <2> QED
    BY <1>1, <2>1 DEF Shapes
<1>5. \A i \in DOMAIN Append(to_tokenizer[t], m) :
        Append(to_tokenizer[t], m)[i] = m
          \/ (i \in DOMAIN to_tokenizer[t] /\ Append(to_tokenizer[t], m)[i] = to_tokenizer[t][i])
  BY <1>2
<1>6. MessagesAreOfLost'
  BY <1>3, <1>5 DEF MessagesAreOfLost, AbortMessage
<1> QED
  BY <1>4, <1>6

\* A handler moves on: to a place where it will not read its entry, or from one
\* where it would.
LEMMA TaskMoves ==
  ASSUME IInv, NEW u \in User, NEW stop \in Stop, task[u] # "none",
         task' = [task EXCEPT ![u] = stop],
         stop \in {"sending", "starting", "waiting", "delivering"} => Streaming(u),
         aborting[u] # "no" => stop = "cancelled",
         UNCHANGED << uid_counter, aborting, connected >>,
         DOMAIN ack_map' = DOMAIN ack_map, DOMAIN event_map' = DOMAIN event_map,
         to_tokenizer' \in [Tokenizer -> Seq(Message)], MessagesAreOfLost'
  PROVE  IInv'
<1>1. \A v \in User : task'[v] = IF v = u THEN stop ELSE task[v]
  BY DEF IInv, Shapes
<1>2. Shapes'
  BY DEF IInv, Shapes
<1>3. FreshUids'
  BY <1>1 DEF IInv, FreshUids
<1>4. AbortsAreOfLost'
  BY <1>1 DEF IInv, AbortsAreOfLost
<1>5. MapsTogether'
  BY <1>1 DEF IInv, MapsTogether, Streaming
<1> QED
  BY <1>2, <1>3, <1>4, <1>5 DEF IInv

LEMMA NewUserHolds == ASSUME IInv, NewUser PROVE IInv'
<1>1. uid_counter \in User /\ uid_counter \in Nat /\ task[uid_counter] = "none"
  BY DEF NewUser, IInv, Shapes, FreshUids
<1>2. \A v \in User : task'[v] = IF v = uid_counter THEN "sending" ELSE task[v]
  BY DEF NewUser, IInv, Shapes
<1>3. /\ UNCHANGED << aborting, connected, to_tokenizer >>
      /\ uid_counter' = uid_counter + 1
      /\ DOMAIN ack_map' = DOMAIN ack_map \cup {uid_counter}
      /\ DOMAIN event_map' = DOMAIN event_map \cup {uid_counter}
      /\ task' = [task EXCEPT ![uid_counter] = "sending"]
  BY DEF NewUser, world, links
<1>4. Shapes'
  BY <1>1, <1>3 DEF IInv, Shapes, Stop
<1>5. FreshUids'
  BY <1>1, <1>2, <1>3 DEF IInv, FreshUids, User
<1>6. AbortsAreOfLost' /\ MessagesAreOfLost'
  BY <1>1, <1>2, <1>3 DEF IInv, AbortsAreOfLost, MessagesAreOfLost
<1>7. MapsTogether'
  BY <1>2, <1>3 DEF IInv, MapsTogether, Streaming
<1> QED
  BY <1>4, <1>5, <1>6, <1>7 DEF IInv

LEMMA DisconnectHolds == ASSUME IInv, NEW u \in User, Disconnect(u) PROVE IInv'
<1>1. /\ connected' = connected \ {u}
      /\ UNCHANGED << uid_counter, ack_map, event_map, task, aborting, to_tokenizer >>
  BY DEF Disconnect, manager, tasks, links
<1> QED
  BY <1>1 DEF IInv, Shapes, FreshUids, AbortsAreOfLost, MessagesAreOfLost, MapsTogether,
              Streaming

\* The except branch: the client has gone.
LEMMA CancelledHolds ==
  ASSUME IInv, NEW u \in User, task[u] # "none", u \notin connected, Cancelled(u)
  PROVE  IInv'
<1>1. /\ task' = [task EXCEPT ![u] = "cancelled"]
      /\ aborting' = [aborting EXCEPT ![u] = "sleeping"]
      /\ UNCHANGED << uid_counter, ack_map, event_map, connected, to_tokenizer >>
  BY DEF Cancelled, manager, world, links
<1>2. \A v \in User : /\ task'[v] = IF v = u THEN "cancelled" ELSE task[v]
                      /\ aborting'[v] = IF v = u THEN "sleeping" ELSE aborting[v]
  BY <1>1 DEF IInv, Shapes
<1>3. Shapes'
  BY <1>1 DEF IInv, Shapes, Stop
<1>4. FreshUids' /\ AbortsAreOfLost' /\ MessagesAreOfLost'
  BY <1>1, <1>2 DEF IInv, FreshUids, AbortsAreOfLost, MessagesAreOfLost
<1>5. MapsTogether'
  BY <1>1, <1>2 DEF IInv, MapsTogether, Streaming
<1> QED
  BY <1>3, <1>4, <1>5 DEF IInv

LEMMA AbortUserHolds == ASSUME IInv, NEW u \in User, AbortUser(u) PROVE IInv'
<1>1. /\ aborting[u] = "sleeping" /\ aborting' = [aborting EXCEPT ![u] = "sending"]
      /\ DOMAIN ack_map' = DOMAIN ack_map \ {u} /\ DOMAIN event_map' = DOMAIN event_map \ {u}
      /\ UNCHANGED << uid_counter, task, connected, to_tokenizer >>
  BY DEF AbortUser, world, links, Restrict
<1>2. \A v \in User : aborting'[v] = IF v = u THEN "sending" ELSE aborting[v]
  BY <1>1 DEF IInv, Shapes
<1>3. ~Streaming(u)
  BY <1>1 DEF IInv, AbortsAreOfLost, Streaming
<1>4. Shapes'
  BY <1>1 DEF IInv, Shapes
<1>5. FreshUids' /\ AbortsAreOfLost' /\ MessagesAreOfLost'
  BY <1>1, <1>2 DEF IInv, FreshUids, AbortsAreOfLost, MessagesAreOfLost
<1>6. MapsTogether'
  BY <1>1, <1>3 DEF IInv, MapsTogether, Streaming
<1> QED
  BY <1>4, <1>5, <1>6 DEF IInv

LEMMA SendAbortHolds == ASSUME IInv, NEW u \in User, SendAbort(u) PROVE IInv'
<1>1. /\ aborting[u] = "sending" /\ Put(AbortMessage(u))
      /\ aborting' = [aborting EXCEPT ![u] = "sent"]
      /\ UNCHANGED << uid_counter, ack_map, event_map, task, connected >>
  BY DEF SendAbort, AbortMessage, manager, world
<1>2. u \notin connected
  BY <1>1 DEF IInv, AbortsAreOfLost
<1>3. AbortMessage(u) \in Message /\ \A v \in connected : AbortMessage(u) # AbortMessage(v)
  BY <1>2 DEF Message, AbortMessage
<1>4. to_tokenizer' \in [Tokenizer -> Seq(Message)] /\ MessagesAreOfLost'
  BY <1>1, <1>3, PutHolds DEF IInv
<1>5. \A v \in User : aborting'[v] = IF v = u THEN "sent" ELSE aborting[v]
  BY <1>1 DEF IInv, Shapes
<1>6. Shapes'
  BY <1>1, <1>4 DEF IInv, Shapes
<1>7. FreshUids' /\ AbortsAreOfLost' /\ MapsTogether'
  BY <1>1, <1>5 DEF IInv, FreshUids, AbortsAreOfLost, MapsTogether, Streaming
<1> QED
  BY <1>4, <1>6, <1>7 DEF IInv

LEMMA UserStepHolds == ASSUME IInv, NEW u \in User, UserStep(u) PROVE IInv'
<1> USE DEF Stop
<1>0. /\ \A v \in User : aborting[v] # "no" => task[v] = "cancelled"
      /\ to_tokenizer \in [Tokenizer -> Seq(Message)] /\ MessagesAreOfLost
  BY DEF IInv, Shapes, AbortsAreOfLost
<1>1. CASE SendRequest(u)
  <2>1. /\ task[u] = "sending" /\ Put([kind |-> "tokenize", uid |-> u])
        /\ task' = [task EXCEPT ![u] = "starting"]
        /\ UNCHANGED << uid_counter, ack_map, event_map, aborting, connected >>
    BY <1>1 DEF SendRequest, manager, world
  <2>2. /\ [kind |-> "tokenize", uid |-> u] \in Message
        /\ \A v \in connected : [kind |-> "tokenize", uid |-> u] # AbortMessage(v)
    BY DEF Message, AbortMessage
  <2>3. to_tokenizer' \in [Tokenizer -> Seq(Message)] /\ MessagesAreOfLost'
    BY <2>1, <2>2, PutHolds DEF IInv
  <2> QED
    BY <1>0, <2>1, <2>3, TaskMoves DEF Streaming
<1>2. ASSUME \/ StartStream(u) \/ Wake(u) \/ Deliver(u) \/ EndStream(u)
             \/ CancelSending(u) \/ CancelStarting(u)
      PROVE  IInv'
  <2>1. /\ UNCHANGED << uid_counter, aborting, connected, to_tokenizer >>
        /\ DOMAIN ack_map' = DOMAIN ack_map /\ DOMAIN event_map' = DOMAIN event_map
    BY <1>2 DEF StartStream, Wake, Deliver, EndStream, CancelSending, CancelStarting,
                manager, world, links
  <2>2. MessagesAreOfLost'
    BY <1>0, <2>1 DEF MessagesAreOfLost
  <2>3. PICK stop \in Stop :
          /\ task' = [task EXCEPT ![u] = stop]
          /\ stop \in {"sending", "starting", "waiting", "delivering"} => Streaming(u)
          /\ task[u] \in {"starting", "waiting", "delivering", "ending"}
    <3>1. CASE StartStream(u)
      BY <3>1 DEF StartStream, Streaming
    <3>2. CASE Wake(u)
      BY <3>2 DEF Wake, Streaming
    <3>3. CASE Deliver(u)
      <4>1. NextStop(u) \in {"ending", "waiting", "delivering"}
        BY DEF NextStop
      <4> QED
        BY <3>3, <4>1 DEF Deliver, Streaming
    <3>4. CASE EndStream(u)
      BY <3>4 DEF EndStream, Streaming
    <3>5. CASE CancelSending(u) \/ CancelStarting(u)
      BY <3>5 DEF CancelSending, CancelStarting, Streaming
    <3> QED
      BY <1>2, <3>1, <3>2, <3>3, <3>4, <3>5
  <2> QED
    BY <1>0, <2>1, <2>2, <2>3, TaskMoves
<1>3. CASE NoticeDisconnect(u)
  BY <1>3, CancelledHolds DEF NoticeDisconnect
<1>4. CASE CancelWaiting(u)
  BY <1>4, CancelledHolds DEF CancelWaiting
<1> QED
  BY <1>1, <1>2, <1>3, <1>4, AbortUserHolds, SendAbortHolds DEF UserStep

\* A step that leaves tasks, uids and the domains of the maps alone, and at most
\* takes messages from the front of a tokenizer's pipe.
LEMMA FramedHolds ==
  ASSUME IInv,
         UNCHANGED << uid_counter, task, aborting, connected >>,
         DOMAIN ack_map' = DOMAIN ack_map, DOMAIN event_map' = DOMAIN event_map,
         to_tokenizer' \in [Tokenizer -> Seq(Message)], MessagesAreOfLost'
  PROVE  IInv'
BY DEF IInv, Shapes, FreshUids, AbortsAreOfLost, MapsTogether, Streaming

\* The listener, the scheduler and the detokenizer do not touch the pipes of the
\* frontend to the tokenizers.
LEMMA OthersHold ==
  ASSUME IInv,
         \/ Listen \/ SchedulerEnds \/ Detokenize
         \/ \E t \in Tokenizer : Receive(t)
         \/ \E S \in SUBSET User : ReplyBatch(S)
  PROVE  IInv'
<1>1. /\ UNCHANGED << uid_counter, task, aborting, connected, to_tokenizer >>
      /\ DOMAIN ack_map' = DOMAIN ack_map /\ DOMAIN event_map' = DOMAIN event_map
  <2>1. CASE Listen
    BY <2>1 DEF Listen, tasks, world
  <2>2. CASE Detokenize
    BY <2>2 DEF Detokenize, manager, tasks, world
  <2>3. CASE \E t \in Tokenizer : Receive(t)
    BY <2>3 DEF Receive, frontend, manager, tasks, world, links
  <2>4. CASE \E S \in SUBSET User : ReplyBatch(S)
    BY <2>4 DEF ReplyBatch, manager, tasks, world
  <2>5. CASE SchedulerEnds
    BY <2>5 DEF SchedulerEnds, frontend, manager, tasks, world, links
  <2> QED
    BY <2>1, <2>2, <2>3, <2>4, <2>5
<1>2. to_tokenizer' \in [Tokenizer -> Seq(Message)] /\ MessagesAreOfLost'
  BY <1>1 DEF IInv, Shapes, MessagesAreOfLost
<1> QED
  BY <1>1, <1>2, FramedHolds

\* A worker takes its messages from the front of its pipe.
LEMMA TokenizeHolds ==
  ASSUME IInv, args \in Args, NEW t \in Tokenizer, Tokenize(t)
  PROVE  IInv'
<1>0. args.local_bs \in Nat
  BY ServingAssumption
<1>1. PICK k \in 1..args.local_bs :
        /\ k <= Len(to_tokenizer[t])
        /\ to_tokenizer' = [to_tokenizer EXCEPT ![t] = SubSeq(@, k + 1, Len(@))]
        /\ UNCHANGED << manager, tasks, world >>
  BY DEF Tokenize
<1>2. k \in Nat /\ to_tokenizer[t] \in Seq(Message)
  BY <1>0 DEF IInv, Shapes
<1> DEFINE rest == SubSeq(to_tokenizer[t], k + 1, Len(to_tokenizer[t]))
<1>3. /\ rest \in Seq(Message)
      /\ \A i \in DOMAIN rest : k + i \in DOMAIN to_tokenizer[t] /\ rest[i] = to_tokenizer[t][k + i]
  BY <1>1, <1>2
<1>4. \A s \in Tokenizer : to_tokenizer'[s] = IF s = t THEN rest ELSE to_tokenizer[s]
  BY <1>1 DEF IInv, Shapes
<1>5. to_tokenizer' \in [Tokenizer -> Seq(Message)]
  BY <1>1, <1>3 DEF IInv, Shapes
<1>6. UNCHANGED << uid_counter, ack_map, event_map, task, aborting, connected >>
  BY <1>1 DEF manager, tasks, world
<1>7. MessagesAreOfLost'
  BY <1>3, <1>4, <1>6 DEF IInv, MessagesAreOfLost
<1> QED
  BY <1>5, <1>6, <1>7, FramedHolds

\* The arguments of a run stay what they are.
LEMMA ArgsStay == ServingSpec => [](args \in Args)
<1>1. ServingInit => args \in Args
  BY DEF ServingInit
<1>2. args \in Args /\ [ServingNext]_all => (args \in Args)'
  BY DEF ServingNext, FrontendStep, Tokenize, Receive, ReplyBatch, SchedulerEnds, Detokenize,
         all, backend
<1> QED
  BY <1>1, <1>2, PTL DEF ServingSpec

LEMMA Invariance == ServingSpec => []IInv
<1>1. IInv /\ args \in Args /\ [ServingNext]_all => IInv'
  <2> SUFFICES ASSUME IInv, args \in Args, [ServingNext]_all PROVE IInv'
    OBVIOUS
  <2>1. CASE UNCHANGED all
    BY <2>1 DEF all, frontend, manager, tasks, world, links, IInv, Shapes, FreshUids,
                AbortsAreOfLost, MessagesAreOfLost, MapsTogether, Streaming
  <2>2. CASE FrontendStep
    BY <2>2, NewUserHolds, DisconnectHolds, UserStepHolds, OthersHold DEF FrontendStep, Client
  <2> QED
    BY <2>1, <2>2, TokenizeHolds, OthersHold DEF ServingNext
<1> QED
  BY <1>1, InitHolds, ArgsStay, PTL DEF ServingSpec

-----------------------------------------------------------------------------
\* A cancellation takes nothing from anybody who still uses it.  No KeyError in the
\* listener or in a handler: the maps hold the same uids, and one for every coroutine
\* that will read its entry; and abort_user never removes or aborts the request of a
\* client that still waits (FrontendManager).
THEOREM CancelsAreClean == ServingSpec => []CancelsCleanly
<1>1. IInv => MapsTogether
  BY DEF IInv
<1>2. IInv => OnlyLostAborted
  BY DEF IInv, Shapes, AbortsAreOfLost, MessagesAreOfLost, OnlyLostAborted, AbortMessage
<1>3. IInv => CancelsCleanly
  BY <1>1, <1>2 DEF CancelsCleanly
<1> QED
  BY <1>3, Invariance, PTL

-----------------------------------------------------------------------------
(* What is true of messages, replies and statuses on their way. *)

Asks(u) == [kind |-> "tokenize", uid |-> u]

\* Message m is the i-th in the pipe of worker t (j = 0), or the j-th of the i-th
\* batch between t and the scheduler
At(m, t, i, j) ==
  IF j = 0 THEN i \in DOMAIN to_tokenizer[t] /\ to_tokenizer[t][i] = m
  ELSE /\ i \in DOMAIN to_backend[t] /\ j \in DOMAIN to_backend[t][i]
       /\ to_backend[t][i][j] = m

OnItsWay(m) == \E t \in Tokenizer : \E i, j \in Nat : At(m, t, i, j)

Once(m) ==
  \A t, s \in Tokenizer : \A i, j, k, l \in Nat :
    At(m, t, i, j) /\ At(m, s, k, l) => t = s /\ i = k /\ j = l

\* The types of queues and replies
Contents ==
  /\ running \subseteq User /\ late \subseteq User /\ decode_map \subseteq User
  /\ got \in [User -> Seq(Reply)] /\ held \in [User -> Seq(Reply)]
  /\ issued \in [User -> Seq(Reply)]
  /\ inbox \in Seq(Seq(Reply)) /\ to_detokenizer \in Seq(Seq(Reply))
  /\ to_backend \in [Tokenizer -> Seq(Seq(Message))]
  /\ DOMAIN ack_map \subseteq User /\ ack_map \in [DOMAIN ack_map -> Seq(Reply)]

Untold(u) == task[u] \in {"none", "sending"}

\* Nothing is done for a request before it has been sent, and it is sent once; no
\* abort is on its way before the abort_user task has sent it.
AskedFor ==
  \A u \in User :
    /\ Once(Asks(u))
    /\ OnItsWay(Asks(u)) => issued[u] = << >> /\ u \notin running \cup late
    /\ Untold(u) => /\ ~ OnItsWay(Asks(u)) /\ u \notin running \cup late
                    /\ issued[u] = << >>
    /\ OnItsWay(AbortMessage(u)) => aborting[u] = "sent"
    /\ task[u] = "cancelled" => aborting[u] # "no"
    /\ task[u] = "none" => u \in connected

Undetokenized(u) == Of(FlattenSeq(to_detokenizer), u)

\* The rest of pending is there exactly while it is delivered.
HeldNow ==
  \A u \in User :
    /\ task[u] \in {"none", "sending", "starting", "waiting"} => held[u] = << >>
    /\ task[u] = "delivering" => held[u] # << >>

\* Nothing waits for a request that does not exist yet.
Nothing ==
  \A u \in User : task[u] = "none" =>
    got[u] = << >> /\ Queued(u) = << >> /\ Undetokenized(u) = << >>

\* A running request has no final reply, and one whose stream is over has.
Ends ==
  \A u \in User :
    /\ u \in running => \A i \in DOMAIN issued[u] : ~ issued[u][i].finished
    /\ task[u] \in {"ending", "done"} => \E i \in DOMAIN issued[u] : issued[u][i].finished

\* In normal_loop a final reply is the last; a request that was not aborted runs, has
\* no reply yet, or a final one; and the detokenizer has a status only for one of whose
\* replies it has handled some, none of them final.
NormalEnds ==
  ~ args.overlap =>
    /\ late = {}
    /\ \A u \in User :
         /\ \A i \in DOMAIN issued[u] : issued[u][i].finished => i = Len(issued[u])
         /\ aborting[u] = "no" /\ u \notin running /\ issued[u] # << >> =>
              issued[u][Len(issued[u])].finished

Handled ==
  \A u \in User : \E p \in Seq(Reply) :
    /\ issued[u] = p \o Undetokenized(u)
    /\ ~ args.overlap /\ u \in decode_map =>
         p # << >> /\ \A i \in DOMAIN p : ~ p[i].finished

\* Of two places between a worker and the scheduler, the first comes earlier
Earlier(i, j, k, l) == IF j = 0 THEN l = 0 /\ i < k ELSE l = 0 \/ i < k

AbortsBehind ==
  \A u \in User : \A t \in Tokenizer : \A i, j, k, l \in Nat :
    At(Asks(u), t, i, j) /\ At(AbortMessage(u), t, k, l) => Earlier(i, j, k, l)

-----------------------------------------------------------------------------
(* Types. *)

LEMMA OfType ==
  ASSUME NEW s \in Seq(Reply), NEW u
  PROVE  Of(s, u) \in Seq(Reply)
BY WithinType DEF Of

LEMMA KindType ==
  ASSUME NEW s \in Seq(Message), NEW k
  PROVE  Kind(s, k) \in Seq(Message)
BY WithinType DEF Kind

\* The uids of one kind of messages are those of its messages.
LEMMA KindUids ==
  ASSUME NEW s \in Seq(Message), NEW k \in {"tokenize", "abort"}, NEW u \in User
  PROVE  u \in Uids(Kind(s, k)) <=> \E j \in DOMAIN s : s[j] = [kind |-> k, uid |-> u]
<1> DEFINE S == {x \in Message : x.kind = k}
           w == Within(s, S)
           m == [kind |-> k, uid |-> u]
<1>1. Kind(s, k) = w
  BY DEF Kind
<1>2. PICK f : Picks(f, s, S)
  BY WithinPlaces
<1>3. /\ f \in [DOMAIN w -> DOMAIN s]
      /\ \A i \in DOMAIN w : w[i] = s[f[i]]
      /\ \A j \in DOMAIN s : s[j] \in S <=> \E i \in DOMAIN w : f[i] = j
  BY <1>2 DEF Picks
<1>4. m \in S /\ m.uid = u /\ \A x \in S : x.uid = u => x = m
  BY DEF Message
<1>5. \A j \in DOMAIN s : s[j] \in Message
  OBVIOUS
<1> HIDE DEF S, w, m
<1>6. ASSUME NEW i \in DOMAIN w, w[i].uid = u PROVE \E j \in DOMAIN s : s[j] = m
  <2>1. f[i] \in DOMAIN s /\ s[f[i]] \in S
    BY <1>3
  <2> QED
    BY <1>3, <1>4, <1>6, <2>1
<1>7. ASSUME NEW j \in DOMAIN s, s[j] = m PROVE \E i \in DOMAIN w : w[i].uid = u
  <2>1. PICK i \in DOMAIN w : f[i] = j
    BY <1>3, <1>4, <1>7
  <2> QED
    BY <1>3, <1>4, <1>7, <2>1
<1>8. u \in Uids(w) <=> \E i \in DOMAIN w : w[i].uid = u
  BY DEF Uids
<1> QED
  BY <1>1, <1>6, <1>7, <1>8 DEF m

LEMMA UidsType ==
  ASSUME NEW s \in Seq(Message) PROVE Uids(s) \subseteq User
<1>1. \A i \in DOMAIN s : s[i] \in Message
  OBVIOUS
<1> QED
  BY <1>1 DEF Uids, Message

\* A reply that a batch makes
LEMMA BatchReply ==
  ASSUME args \in Args, Contents, NEW S \in SUBSET User, NEW f \in FreeToAnswer(S),
         \A u \in S : Len(issued[u]) < args.replies
  PROVE  \A u \in S : [uid |-> u, n |-> Len(issued[u]) + 1, finished |-> f[u]] \in Reply
<1> TAKE u \in S
<1>1. args.replies \in 1..MaxReplies /\ MaxReplies \in Nat
  BY ServingAssumption, FrontendAssumption
<1>2. Len(issued[u]) \in Nat /\ u \in User
  BY DEF Contents
<1>3. Len(issued[u]) + 1 \in 1..MaxReplies
  BY <1>1, <1>2
<1>4. f[u] \in BOOLEAN
  BY DEF FreeToAnswer
<1> QED
  BY <1>2, <1>3, <1>4 DEF Reply

\* The invariant of messages, replies and statuses
Flow == Contents /\ AskedFor /\ HeldNow /\ RepliesInOrder /\ Nothing /\ Ends /\ NormalEnds
        /\ Handled

-----------------------------------------------------------------------------
(* What each part depends on. *)

LEMMA ContentsSame ==
  ASSUME Contents,
         UNCHANGED << running, late, decode_map, got, held, issued, inbox, to_detokenizer,
                      to_backend, ack_map >>
  PROVE  Contents'
BY DEF Contents

LEMMA WaySame ==
  ASSUME UNCHANGED << to_tokenizer, to_backend >>, NEW m
  PROVE  (OnItsWay(m)' <=> OnItsWay(m)) /\ (Once(m)' <=> Once(m))
BY DEF OnItsWay, Once, At

LEMMA AskedSame ==
  ASSUME AskedFor, UNCHANGED << to_tokenizer, to_backend, issued, running, late >>,
         \A v \in User : /\ Untold(v)' => Untold(v)
                         /\ aborting[v] = "sent" => aborting'[v] = "sent"
                         /\ task'[v] = "cancelled" => aborting'[v] # "no"
                         /\ task'[v] = "none" => v \in connected'
  PROVE  AskedFor'
<1>1. \A m : (OnItsWay(m)' <=> OnItsWay(m)) /\ (Once(m)' <=> Once(m))
  BY WaySame
<1> QED
  BY <1>1 DEF AskedFor

LEMMA HeldSame == ASSUME HeldNow, UNCHANGED << task, held >> PROVE HeldNow'
BY DEF HeldNow

Stream(u) == got[u] \o held[u] \o ack_map[u] \o Queued(u) \o Undetokenized(u)

LEMMA StreamIs == RepliesInOrder <=> \A u \in User : Streaming(u) => Stream(u) = issued[u]
BY DEF RepliesInOrder, Stream, Undetokenized

LEMMA StreamNext == (RepliesInOrder <=> \A u \in User : Streaming(u) => Stream(u) = issued[u])'
BY StreamIs, PTL

LEMMA OrderSame ==
  ASSUME RepliesInOrder, Nothing, UNCHANGED << got, issued, inbox, to_detokenizer >>,
         \A u \in User : /\ Streaming(u)' => /\ Streaming(u) /\ ack_map'[u] = ack_map[u]
                                           /\ held'[u] = held[u]
                         /\ task'[u] = "none" => task[u] = "none"
  PROVE  RepliesInOrder' /\ Nothing'
<1>1. \A u \in User : Queued(u)' = Queued(u) /\ Undetokenized(u)' = Undetokenized(u)
  BY DEF Queued, Undetokenized
<1>2. Nothing'
  BY <1>1 DEF Nothing
<1>3. ASSUME NEW u \in User, Streaming(u)' PROVE Stream(u)' = issued'[u]
  <2>1. Stream(u)' = Stream(u) /\ issued'[u] = issued[u]
    BY <1>1, <1>3 DEF Stream
  <2> QED
    BY <1>3, <2>1, StreamIs
<1> QED
  BY <1>2, <1>3, StreamNext

LEMMA EndsSame ==
  ASSUME Ends, UNCHANGED << running, issued >>,
         \A u \in User : task'[u] \in {"ending", "done"} => task[u] \in {"ending", "done"}
  PROVE  Ends'
BY DEF Ends

LEMMA NormalSame ==
  ASSUME NormalEnds, UNCHANGED << args, late, running, issued >>,
         \A u \in User : aborting'[u] = "no" => aborting[u] = "no"
  PROVE  NormalEnds'
BY DEF NormalEnds

LEMMA HandledSame ==
  ASSUME Handled, UNCHANGED << args, issued, to_detokenizer, decode_map >>
  PROVE  Handled'
BY DEF Handled, Undetokenized

\* A step of the frontend that neither files nor delivers a reply.
LEMMA QuietHolds ==
  ASSUME Flow, UNCHANGED << got, issued, inbox, to_detokenizer, to_backend >>,
         UNCHANGED << args, running, late, decode_map >>,
         held' \in [User -> Seq(Reply)], AskedFor', HeldNow',
         DOMAIN ack_map' \subseteq User, ack_map' \in [DOMAIN ack_map' -> Seq(Reply)],
         \A v \in User :
           /\ Streaming(v)' => /\ Streaming(v) /\ ack_map'[v] = ack_map[v]
                               /\ held'[v] = held[v]
           /\ task'[v] = "none" => task[v] = "none"
           /\ task'[v] \in {"ending", "done"} => task[v] \in {"ending", "done"}
           /\ aborting'[v] = "no" => aborting[v] = "no"
  PROVE  Flow'
<1>1. Contents'
  BY DEF Flow, Contents
<1>2. RepliesInOrder' /\ Nothing'
  BY OrderSame DEF Flow
<1>3. Ends'
  BY EndsSame DEF Flow
<1>4. NormalEnds' /\ Handled'
  BY NormalSame, HandledSame DEF Flow
<1> QED
  BY <1>1, <1>2, <1>3, <1>4 DEF Flow

\* A handler moves on without its replies.
LEMMA StopHolds ==
  ASSUME IInv, Flow, NEW u \in User, NEW stop \in {"starting", "waiting", "done", "lost"},
         task' = [task EXCEPT ![u] = stop],
         UNCHANGED << manager, held, aborting, world, inbox, issued, backend >>, AskedFor',
         stop = "starting" => task[u] = "sending",
         stop = "waiting" => task[u] = "starting",
         stop = "done" => task[u] = "ending",
         stop = "lost" => task[u] = "starting"
  PROVE  Flow'
<1>1. \A v \in User : task'[v] = IF v = u THEN stop ELSE task[v]
  BY DEF IInv, Shapes
<1>2. UNCHANGED << ack_map, held, aborting, got, inbox, issued,
                   args, to_backend, running, late, to_detokenizer, decode_map >>
  BY DEF manager, world, backend
<1>3. held' \in [User -> Seq(Reply)] /\ DOMAIN ack_map' \subseteq User
      /\ ack_map' \in [DOMAIN ack_map' -> Seq(Reply)]
  BY <1>2 DEF Flow, Contents
<1>4. HeldNow'
  BY <1>1, <1>2 DEF Flow, HeldNow
<1>5. \A v \in User :
         /\ Streaming(v)' => Streaming(v)
         /\ task'[v] = "none" => task[v] = "none"
         /\ task'[v] \in {"ending", "done"} => task[v] \in {"ending", "done"}
  <2> TAKE v \in User
  <2>1. CASE v = u
    BY <1>1, <2>1 DEF Streaming
  <2>2. CASE v # u
    BY <1>1, <2>2 DEF Streaming
  <2> QED
    BY <2>1, <2>2
<1> QED
  BY <1>2, <1>3, <1>4, <1>5, QuietHolds

LEMMA StartStreamFlow ==
  ASSUME IInv, Flow, NEW u \in User, UNCHANGED backend,
         StartStream(u) \/ EndStream(u) \/ CancelStarting(u)
  PROVE  Flow'
<1>1. /\ UNCHANGED << manager, held, aborting, world, links, backend >>
      /\ UNCHANGED << to_tokenizer, to_backend, inbox, issued, running, late, connected >>
  BY DEF StartStream, EndStream, CancelStarting, links, backend, world
<1>2. PICK stop \in {"waiting", "done", "lost"} :
        /\ task' = [task EXCEPT ![u] = stop]
        /\ stop = "waiting" => task[u] = "starting"
        /\ stop = "done" => task[u] = "ending"
        /\ stop = "lost" => task[u] = "starting"
  BY DEF StartStream, EndStream, CancelStarting
<1>3. \A v \in User : task'[v] = IF v = u THEN stop ELSE task[v]
  BY <1>2 DEF IInv, Shapes
<1>4. AskedFor'
  <2>1. \A v \in User : /\ task[v] = "none" => v \in connected
                        /\ task[v] = "cancelled" => aborting[v] # "no"
    BY DEF Flow, AskedFor
  <2>2. \A v \in User : /\ Untold(v)' => Untold(v)
                        /\ aborting[v] = "sent" => aborting'[v] = "sent"
                        /\ task'[v] = "cancelled" => aborting'[v] # "no"
                        /\ task'[v] = "none" => v \in connected'
    BY <1>1, <1>3, <2>1 DEF Untold
  <2> QED
    BY <1>1, <2>2, AskedSame DEF Flow
<1> QED
  BY <1>1, <1>2, <1>4, StopHolds

LEMMA CancelledFlow ==
  ASSUME IInv, Flow, NEW u \in User, UNCHANGED backend, Cancelled(u),
         task[u] \in {"delivering", "ending", "waiting"}
  PROVE  Flow'
<1>1. /\ UNCHANGED << manager, world, links, backend >>
      /\ UNCHANGED << to_tokenizer, to_backend, inbox, issued, running, late, connected >>
      /\ UNCHANGED << got, ack_map, args, to_detokenizer, decode_map >>
  BY DEF Cancelled, links, backend, world, manager
<1>2. /\ \A v \in User : task'[v] = IF v = u THEN "cancelled" ELSE task[v]
      /\ \A v \in User : aborting'[v] = IF v = u THEN "sleeping" ELSE aborting[v]
  BY DEF Cancelled, IInv, Shapes
<1>3. \A v \in User : held'[v] = IF v = u THEN << >> ELSE held[v]
  BY DEF Cancelled, Flow, Contents
<1>4. aborting[u] = "no"
  BY DEF IInv, Shapes, AbortsAreOfLost
<1>5. AskedFor'
  <2>1. \A v \in User : /\ task[v] = "none" => v \in connected
                        /\ task[v] = "cancelled" => aborting[v] # "no"
    BY DEF Flow, AskedFor
  <2>2. \A v \in User : /\ Untold(v)' => Untold(v)
                        /\ aborting[v] = "sent" => aborting'[v] = "sent"
                        /\ task'[v] = "cancelled" => aborting'[v] # "no"
                        /\ task'[v] = "none" => v \in connected'
    BY <1>1, <1>2, <1>4, <2>1 DEF Untold
  <2> QED
    BY <1>1, <2>2, AskedSame DEF Flow
<1>6. held' \in [User -> Seq(Reply)]
  <2>1. held \in [User -> Seq(Reply)] /\ << >> \in Seq(Reply)
    BY DEF Flow, Contents
  <2> QED
    BY <2>1 DEF Cancelled
<1>7. HeldNow'
  BY <1>2, <1>3 DEF Flow, HeldNow
<1>8. \A v \in User :
         /\ Streaming(v)' => Streaming(v) /\ v # u
         /\ task'[v] = "none" => task[v] = "none"
         /\ task'[v] \in {"ending", "done"} => task[v] \in {"ending", "done"}
         /\ aborting'[v] = "no" => aborting[v] = "no"
  <2> TAKE v \in User
  <2>1. CASE v = u
    BY <1>2, <2>1 DEF Streaming
  <2>2. CASE v # u
    BY <1>2, <2>2 DEF Streaming
  <2> QED
    BY <2>1, <2>2
<1>9. DOMAIN ack_map' \subseteq User /\ ack_map' \in [DOMAIN ack_map' -> Seq(Reply)]
  BY <1>1 DEF Flow, Contents
<1> QED
  BY <1>1, <1>3, <1>5, <1>6, <1>7, <1>8, <1>9, QuietHolds

LEMMA CancelSendingFlow ==
  ASSUME IInv, Flow, NEW u \in User, UNCHANGED backend, CancelSending(u)
  PROVE  Flow'
<1>1. /\ UNCHANGED << manager, aborting, world, links, backend >>
      /\ UNCHANGED << to_tokenizer, to_backend, inbox, issued, running, late, connected >>
      /\ UNCHANGED << got, ack_map, args, to_detokenizer, decode_map >>
  BY DEF CancelSending, links, backend, world, manager
<1>2. /\ task[u] \in {"waiting", "delivering", "ending"}
      /\ \A v \in User : task'[v] = IF v = u THEN "lost" ELSE task[v]
  BY DEF CancelSending, IInv, Shapes
<1>3. \A v \in User : held'[v] = IF v = u THEN << >> ELSE held[v]
  BY DEF CancelSending, Flow, Contents
<1>5. AskedFor'
  <2>1. \A v \in User : /\ task[v] = "none" => v \in connected
                        /\ task[v] = "cancelled" => aborting[v] # "no"
    BY DEF Flow, AskedFor
  <2>2. \A v \in User : /\ Untold(v)' => Untold(v)
                        /\ aborting[v] = "sent" => aborting'[v] = "sent"
                        /\ task'[v] = "cancelled" => aborting'[v] # "no"
                        /\ task'[v] = "none" => v \in connected'
    BY <1>1, <1>2, <2>1 DEF Untold
  <2> QED
    BY <1>1, <2>2, AskedSame DEF Flow
<1>6. held' \in [User -> Seq(Reply)]
  <2>1. held \in [User -> Seq(Reply)] /\ << >> \in Seq(Reply)
    BY DEF Flow, Contents
  <2> QED
    BY <2>1 DEF CancelSending
<1>7. HeldNow'
  BY <1>2, <1>3 DEF Flow, HeldNow
<1>8. \A v \in User :
         /\ Streaming(v)' => Streaming(v) /\ v # u
         /\ task'[v] = "none" => task[v] = "none"
         /\ task'[v] \in {"ending", "done"} => task[v] \in {"ending", "done"}
         /\ aborting'[v] = "no" => aborting[v] = "no"
  <2> TAKE v \in User
  <2>1. CASE v = u
    BY <1>1, <1>2, <2>1 DEF Streaming
  <2>2. CASE v # u
    BY <1>1, <1>2, <2>2 DEF Streaming
  <2> QED
    BY <2>1, <2>2
<1>9. DOMAIN ack_map' \subseteq User /\ ack_map' \in [DOMAIN ack_map' -> Seq(Reply)]
  BY <1>1 DEF Flow, Contents
<1> QED
  BY <1>1, <1>3, <1>5, <1>6, <1>7, <1>8, <1>9, QuietHolds

LEMMA AbortUserFlow ==
  ASSUME IInv, Flow, NEW u \in User, UNCHANGED backend, AbortUser(u)
  PROVE  Flow'
<1>1. /\ UNCHANGED << to_tokenizer, to_backend, inbox, issued, running, late, connected >>
      /\ UNCHANGED << got, held, task, args, to_detokenizer, decode_map >>
  BY DEF AbortUser, links, backend, world
<1>2. aborting[u] = "sleeping"
      /\ \A v \in User : aborting'[v] = IF v = u THEN "sending" ELSE aborting[v]
  BY DEF AbortUser, IInv, Shapes
<1>3. /\ ack_map' = [v \in DOMAIN ack_map \ {u} |-> ack_map[v]]
      /\ DOMAIN ack_map' = DOMAIN ack_map \ {u}
      /\ \A v \in DOMAIN ack_map' : ack_map'[v] = ack_map[v]
  <2>1. (DOMAIN ack_map) \cap (DOMAIN ack_map \ {u}) = DOMAIN ack_map \ {u}
    OBVIOUS
  <2> QED
    BY <2>1 DEF AbortUser, Restrict
<1>4. ~ Streaming(u)
  BY <1>2 DEF IInv, AbortsAreOfLost, Streaming
<1>5. AskedFor'
  <2>1. \A v \in User : /\ task[v] = "none" => v \in connected
                        /\ task[v] = "cancelled" => aborting[v] # "no"
    BY DEF Flow, AskedFor
  <2>2. \A v \in User : /\ Untold(v)' => Untold(v)
                        /\ aborting[v] = "sent" => aborting'[v] = "sent"
                        /\ task'[v] = "cancelled" => aborting'[v] # "no"
                        /\ task'[v] = "none" => v \in connected'
    BY <1>1, <1>2, <2>1 DEF Untold
  <2> QED
    BY <1>1, <2>2, AskedSame DEF Flow
<1>6. held' \in [User -> Seq(Reply)]
  BY <1>1 DEF Flow, Contents
<1>7. HeldNow'
  BY <1>1, HeldSame DEF Flow
<1>8. \A v \in User :
         /\ Streaming(v)' => Streaming(v) /\ ack_map'[v] = ack_map[v]
         /\ aborting'[v] = "no" => aborting[v] = "no"
  <2> TAKE v \in User
  <2>1. Streaming(v)' <=> Streaming(v)
    BY <1>1 DEF Streaming
  <2>2. Streaming(v) => v \in DOMAIN ack_map
    BY DEF IInv, MapsTogether
  <2> QED
    BY <1>2, <1>3, <1>4, <2>1, <2>2
<1>9. DOMAIN ack_map' \subseteq User /\ ack_map' \in [DOMAIN ack_map' -> Seq(Reply)]
  BY <1>3 DEF Flow, Contents
<1> QED
  BY <1>1, <1>5, <1>6, <1>7, <1>8, <1>9, QuietHolds

LEMMA DisconnectFlow ==
  ASSUME IInv, Flow, NEW u \in User, UNCHANGED backend, Disconnect(u)
  PROVE  Flow'
<1>1. /\ UNCHANGED << to_tokenizer, to_backend, inbox, issued, running, late >>
      /\ UNCHANGED << got, held, task, aborting, ack_map, args, to_detokenizer, decode_map >>
  BY DEF Disconnect, links, backend, manager, tasks
<1>2. task[u] # "none" /\ connected' = connected \ {u}
  BY DEF Disconnect
<1>5. AskedFor'
  <2>1. \A v \in User : /\ task[v] = "none" => v \in connected
                        /\ task[v] = "cancelled" => aborting[v] # "no"
    BY DEF Flow, AskedFor
  <2>2. \A v \in User : /\ Untold(v)' => Untold(v)
                        /\ aborting[v] = "sent" => aborting'[v] = "sent"
                        /\ task'[v] = "cancelled" => aborting'[v] # "no"
                        /\ task'[v] = "none" => v \in connected'
    BY <1>1, <1>2, <2>1 DEF Untold
  <2> QED
    BY <1>1, <2>2, AskedSame DEF Flow
<1>6. /\ held' \in [User -> Seq(Reply)]
      /\ DOMAIN ack_map' \subseteq User /\ ack_map' \in [DOMAIN ack_map' -> Seq(Reply)]
  BY <1>1 DEF Flow, Contents
<1>7. HeldNow'
  BY <1>1, HeldSame DEF Flow
<1>8. \A v \in User : Streaming(v)' => Streaming(v)
  BY <1>1 DEF Streaming
<1> QED
  BY <1>1, <1>5, <1>6, <1>7, <1>8, QuietHolds

-----------------------------------------------------------------------------
(* The frontend sends a message. *)

LEMMA PutPlaces ==
  ASSUME Shapes, NEW m \in Message, Put(m), UNCHANGED to_backend
  PROVE  \E t \in Tokenizer : \E n \in Nat :
           /\ \A x : \A i \in Nat : At(x, t, i, 0) => i < n
           /\ \A x : \A s \in Tokenizer : \A i, j \in Nat :
                At(x, s, i, j)' <=> At(x, s, i, j) \/ (x = m /\ s = t /\ j = 0 /\ i = n)
<1>1. PICK t \in Tokenizer : to_tokenizer' = [to_tokenizer EXCEPT ![t] = Append(@, m)]
  BY DEF Put
<1>2. PICK q \in Seq(Message) : q = to_tokenizer[t]
  BY DEF Shapes
<1>3. \A s \in Tokenizer : to_tokenizer'[s] = IF s = t THEN Append(q, m) ELSE to_tokenizer[s]
  BY <1>1, <1>2 DEF Shapes
<1>4. /\ Len(q) \in Nat /\ DOMAIN q = 1..Len(q) /\ DOMAIN Append(q, m) = 1..(Len(q) + 1)
      /\ Append(q, m)[Len(q) + 1] = m
      /\ \A k \in 1..Len(q) : Append(q, m)[k] = q[k]
  BY AppendPlaces
<1>5. ASSUME NEW x, NEW s \in Tokenizer, NEW i \in Nat, NEW j \in Nat
      PROVE  At(x, s, i, j)' <=> At(x, s, i, j) \/ (x = m /\ s = t /\ j = 0 /\ i = Len(q) + 1)
  <2>1. CASE j # 0
    BY <2>1 DEF At
  <2>2. CASE s # t
    BY <1>3, <2>2 DEF At
  <2>3. CASE s = t /\ j = 0
    <3>1. At(x, s, i, j)' <=> i \in DOMAIN Append(q, m) /\ Append(q, m)[i] = x
      BY <1>3, <2>3 DEF At
    <3>2. At(x, s, i, j) <=> i \in DOMAIN q /\ q[i] = x
      BY <1>2, <2>3 DEF At
    <3>3. CASE i \in 1..Len(q)
      BY <1>4, <2>3, <3>1, <3>2, <3>3
    <3>4. CASE i = Len(q) + 1
      BY <1>4, <2>3, <3>1, <3>2, <3>4
    <3>5. CASE i \notin 1..(Len(q) + 1)
      BY <1>4, <2>3, <3>1, <3>2, <3>5
    <3> QED
      BY <1>4, <3>3, <3>4, <3>5
  <2> QED
    BY <2>1, <2>2, <2>3
<1>6. \A x : \A i \in Nat : At(x, t, i, 0) => i < Len(q) + 1
  BY <1>2, <1>4 DEF At
<1>7. PICK n \in Nat : n = Len(q) + 1
  BY <1>4
<1> QED
  BY <1>5, <1>6, <1>7

\* What is on its way after that: the message besides what was.
LEMMA PutWay ==
  ASSUME Shapes, NEW m \in Message, Put(m), UNCHANGED to_backend
  PROVE  /\ \A x : OnItsWay(x)' <=> OnItsWay(x) \/ x = m
         /\ \A x : x # m => (Once(x)' <=> Once(x))
         /\ ~ OnItsWay(m) => Once(m)'
<1>1. PICK t \in Tokenizer, n \in Nat :
        \A x : \A s \in Tokenizer : \A i, j \in Nat :
          At(x, s, i, j)' <=> At(x, s, i, j) \/ (x = m /\ s = t /\ j = 0 /\ i = n)
  BY PutPlaces
<1>2. 0 \in Nat
  OBVIOUS
<1>3. ASSUME NEW x PROVE OnItsWay(x)' <=> OnItsWay(x) \/ x = m
  <2>1. CASE x = m
    <3>1. At(x, t, n, 0)'
      BY <1>1, <1>2, <2>1
    <3>2. OnItsWay(x)'
      BY <1>2, <3>1 DEF OnItsWay
    <3> QED
      BY <2>1, <3>2
  <2>2. CASE x # m
    <3>1. \A s \in Tokenizer : \A i, j \in Nat : At(x, s, i, j)' <=> At(x, s, i, j)
      BY <1>1, <2>2
    <3> QED
      BY <2>2, <3>1 DEF OnItsWay
  <2> QED
    BY <2>1, <2>2
<1>4. ASSUME NEW x, x # m PROVE Once(x)' <=> Once(x)
  <2>1. \A s \in Tokenizer : \A i, j \in Nat : At(x, s, i, j)' <=> At(x, s, i, j)
    BY <1>1, <1>4
  <2> QED
    BY <2>1 DEF Once
<1>5. ASSUME ~ OnItsWay(m) PROVE Once(m)'
  <2>1. \A s \in Tokenizer : \A i, j \in Nat :
          At(m, s, i, j)' <=> s = t /\ j = 0 /\ i = n
    BY <1>1, <1>5 DEF OnItsWay
  <2> QED
    BY <2>1 DEF Once
<1> QED
  BY <1>3, <1>4, <1>5

LEMMA SendRequestFlow ==
  ASSUME IInv, Flow, NEW u \in User, UNCHANGED backend, SendRequest(u)
  PROVE  Flow'
<1>1. /\ UNCHANGED << manager, held, aborting, world, inbox, issued, backend >>
      /\ UNCHANGED << to_backend, running, late, connected >>
      /\ task[u] = "sending" /\ task' = [task EXCEPT ![u] = "starting"]
      /\ Put(Asks(u)) /\ Asks(u) \in Message
  BY DEF SendRequest, backend, world, Asks, Message
<1>2. \A v \in User : task'[v] = IF v = u THEN "starting" ELSE task[v]
  BY <1>1 DEF IInv, Shapes
<1>3. \A v \in User : Asks(v) = Asks(u) => v = u
  BY DEF Asks
<1>4. \A v \in User : AbortMessage(v) # Asks(u)
  BY DEF AbortMessage, Asks
<1>5. /\ \A x : OnItsWay(x)' <=> OnItsWay(x) \/ x = Asks(u)
      /\ \A x : x # Asks(u) => (Once(x)' <=> Once(x))
      /\ ~ OnItsWay(Asks(u)) => Once(Asks(u))'
  BY <1>1, PutWay DEF IInv
<1>6. ~ OnItsWay(Asks(u)) /\ u \notin running \cup late /\ issued[u] = << >>
  BY <1>1 DEF Flow, AskedFor, Untold
<1>7. ASSUME NEW v \in User
      PROVE  /\ Once(Asks(v))'
             /\ OnItsWay(Asks(v))' => issued'[v] = << >> /\ v \notin running' \cup late'
             /\ Untold(v)' => /\ ~ OnItsWay(Asks(v))' /\ v \notin running' \cup late'
                              /\ issued'[v] = << >>
             /\ OnItsWay(AbortMessage(v))' => aborting'[v] = "sent"
             /\ task'[v] = "cancelled" => aborting'[v] # "no"
             /\ task'[v] = "none" => v \in connected'
  <2>1. /\ Once(Asks(v))
        /\ OnItsWay(Asks(v)) => issued[v] = << >> /\ v \notin running \cup late
        /\ Untold(v) => /\ ~ OnItsWay(Asks(v)) /\ v \notin running \cup late
                        /\ issued[v] = << >>
        /\ OnItsWay(AbortMessage(v)) => aborting[v] = "sent"
        /\ task[v] = "cancelled" => aborting[v] # "no"
        /\ task[v] = "none" => v \in connected
    BY DEF Flow, AskedFor
  <2>2. CASE v = u
    <3>1. ~ Untold(v)' /\ task'[v] = "starting"
      BY <1>2, <2>2 DEF Untold
    <3> QED
      BY <1>1, <1>4, <1>5, <1>6, <2>1, <2>2, <3>1
  <2>3. CASE v # u
    <3>1. (Untold(v)' <=> Untold(v)) /\ task'[v] = task[v]
      BY <1>2, <2>3 DEF Untold
    <3> QED
      BY <1>1, <1>3, <1>4, <1>5, <2>1, <2>3, <3>1
  <2> QED
    BY <2>2, <2>3
<1>8. AskedFor'
  BY <1>7 DEF AskedFor
<1> QED
  BY <1>1, <1>8, StopHolds

LEMMA SendAbortFlow ==
  ASSUME IInv, Flow, NEW u \in User, UNCHANGED backend, SendAbort(u)
  PROVE  Flow'
<1>1. /\ UNCHANGED << got, held, task, ack_map, connected, inbox, issued >>
      /\ UNCHANGED << args, to_backend, running, late, to_detokenizer, decode_map >>
      /\ Put(AbortMessage(u)) /\ AbortMessage(u) \in Message
  BY DEF SendAbort, backend, world, manager, AbortMessage, Message
<1>2. aborting[u] = "sending"
      /\ \A v \in User : aborting'[v] = IF v = u THEN "sent" ELSE aborting[v]
  BY DEF SendAbort, IInv, Shapes
<1>3. \A v \in User : AbortMessage(v) = AbortMessage(u) => v = u
  BY DEF AbortMessage
<1>4. \A v \in User : AbortMessage(u) # Asks(v)
  BY DEF AbortMessage, Asks
<1>5. /\ \A x : OnItsWay(x)' <=> OnItsWay(x) \/ x = AbortMessage(u)
      /\ \A x : x # AbortMessage(u) => (Once(x)' <=> Once(x))
  BY <1>1, PutWay DEF IInv
<1>7. ASSUME NEW v \in User
      PROVE  /\ Once(Asks(v))'
             /\ OnItsWay(Asks(v))' => issued'[v] = << >> /\ v \notin running' \cup late'
             /\ Untold(v)' => /\ ~ OnItsWay(Asks(v))' /\ v \notin running' \cup late'
                              /\ issued'[v] = << >>
             /\ OnItsWay(AbortMessage(v))' => aborting'[v] = "sent"
             /\ task'[v] = "cancelled" => aborting'[v] # "no"
             /\ task'[v] = "none" => v \in connected'
  <2>1. /\ Once(Asks(v))
        /\ OnItsWay(Asks(v)) => issued[v] = << >> /\ v \notin running \cup late
        /\ Untold(v) => /\ ~ OnItsWay(Asks(v)) /\ v \notin running \cup late
                        /\ issued[v] = << >>
        /\ OnItsWay(AbortMessage(v)) => aborting[v] = "sent"
        /\ task[v] = "cancelled" => aborting[v] # "no"
        /\ task[v] = "none" => v \in connected
    BY DEF Flow, AskedFor
  <2>2. (Untold(v)' <=> Untold(v)) /\ task'[v] = task[v]
    BY <1>1 DEF Untold
  <2> QED
    BY <1>1, <1>2, <1>3, <1>4, <1>5, <2>1, <2>2
<1>8. AskedFor'
  BY <1>7 DEF AskedFor
<1>9. /\ held' \in [User -> Seq(Reply)]
      /\ DOMAIN ack_map' \subseteq User /\ ack_map' \in [DOMAIN ack_map' -> Seq(Reply)]
  BY <1>1 DEF Flow, Contents
<1>10. HeldNow'
  BY <1>1, HeldSame DEF Flow
<1>11. \A v \in User : (Streaming(v)' => Streaming(v)) /\ (aborting'[v] = "no" => aborting[v] = "no")
  BY <1>1, <1>2 DEF Streaming
<1> QED
  BY <1>1, <1>8, <1>9, <1>10, <1>11, QuietHolds

-----------------------------------------------------------------------------
(* The steps of the frontend that move replies. *)

LEMMA NewUserFlow ==
  ASSUME IInv, Flow, NewUser, UNCHANGED backend
  PROVE  Flow'
<1>1. /\ UNCHANGED << to_tokenizer, to_backend, inbox, issued, running, late, connected >>
      /\ UNCHANGED << got, held, aborting, args, to_detokenizer, decode_map >>
      /\ uid_counter \in User
      /\ ack_map' = [u \in DOMAIN ack_map \cup {uid_counter} |->
                       IF u = uid_counter THEN << >> ELSE ack_map[u]]
  BY DEF NewUser, links, backend, world
<1>2. task[uid_counter] = "none"
  BY <1>1 DEF IInv, FreshUids, Shapes
<1>3. \A v \in User : task'[v] = IF v = uid_counter THEN "sending" ELSE task[v]
  BY DEF NewUser, IInv, Shapes
<1>4. Contents'
  <2>1. << >> \in Seq(Reply)
    OBVIOUS
  <2>2. DOMAIN ack_map' \subseteq User /\ ack_map' \in [DOMAIN ack_map' -> Seq(Reply)]
    BY <1>1, <2>1 DEF Flow, Contents
  <2> QED
    BY <1>1, <2>2 DEF Flow, Contents
<1>5. AskedFor'
  <2>1. \A v \in User : /\ task[v] = "none" => v \in connected
                        /\ task[v] = "cancelled" => aborting[v] # "no"
    BY DEF Flow, AskedFor
  <2>2. \A v \in User : /\ Untold(v)' => Untold(v)
                        /\ aborting[v] = "sent" => aborting'[v] = "sent"
                        /\ task'[v] = "cancelled" => aborting'[v] # "no"
                        /\ task'[v] = "none" => v \in connected'
    BY <1>1, <1>2, <1>3, <2>1 DEF Untold
  <2> QED
    BY <1>1, <2>2, AskedSame DEF Flow
<1>6. HeldNow'
  BY <1>1, <1>2, <1>3 DEF Flow, HeldNow
<1>7. \A v \in User : Queued(v)' = Queued(v) /\ Undetokenized(v)' = Undetokenized(v)
  BY <1>1 DEF Queued, Undetokenized
<1>8. Nothing'
  BY <1>1, <1>3, <1>7 DEF Flow, Nothing
<1>9. ASSUME NEW v \in User, Streaming(v)' PROVE Stream(v)' = issued'[v]
  <2>1. CASE v = uid_counter
    <3>1. /\ got[v] = << >> /\ Queued(v) = << >> /\ Undetokenized(v) = << >>
          /\ held[v] = << >> /\ issued[v] = << >>
      BY <1>2, <2>1 DEF Flow, Nothing, HeldNow, AskedFor, Untold
    <3>2. ack_map'[v] = << >>
      BY <1>1, <2>1
    <3>3. << >> \o << >> = << >>
      OBVIOUS
    <3> QED
      BY <1>1, <1>7, <3>1, <3>2, <3>3 DEF Stream
  <2>2. CASE v # uid_counter
    <3>1. Streaming(v)
      BY <1>3, <1>9, <2>2 DEF Streaming
    <3>2. v \in DOMAIN ack_map
      BY <3>1 DEF IInv, MapsTogether
    <3>3. ack_map'[v] = ack_map[v]
      BY <1>1, <2>2, <3>2
    <3>4. Stream(v)' = Stream(v)
      BY <1>1, <1>7, <3>3 DEF Stream
    <3> QED
      BY <1>1, <3>1, <3>4, StreamIs DEF Flow
  <2> QED
    BY <2>1, <2>2
<1>10. RepliesInOrder'
  BY <1>9, StreamNext
<1>11. Ends'
  BY <1>1, <1>3, EndsSame DEF Flow
<1>12. NormalEnds' /\ Handled'
  BY <1>1, NormalSame, HandledSame DEF Flow
<1> QED
  BY <1>4, <1>5, <1>6, <1>8, <1>10, <1>11, <1>12 DEF Flow

LEMMA HeadMoves ==
  ASSUME NEW M, NEW g \in Seq(M), NEW h \in Seq(M), h # << >>
  PROVE  /\ Append(g, Head(h)) \o Tail(h) = g \o h
         /\ Append(g, Head(h)) \in Seq(M) /\ Tail(h) \in Seq(M) /\ Head(h) \in M
<1>1. Head(h) \in M /\ Tail(h) \in Seq(M)
  BY HeadTailProperties
<1>2. PICK e \in M, r \in Seq(M) : e = Head(h) /\ r = Tail(h)
  BY <1>1
<1>3. h = << e >> \o r /\ << e >> \in Seq(M)
  BY <1>2
<1>4. Append(g, e) = g \o << e >> /\ Append(g, e) \in Seq(M)
  BY AppendIsConcat, AppendProperties
<1>5. (g \o << e >>) \o r = g \o (<< e >> \o r)
  BY <1>3, ConcatAssociative
<1> QED
  BY <1>1, <1>2, <1>3, <1>4, <1>5

LEMMA RepliesAssociate ==
  \A x, a, b \in Seq(Reply) : x \o (a \o b) = (x \o a) \o b
  BY ConcatAssociative

LEMMA StreamTypes ==
  ASSUME Contents, NEW v \in User
  PROVE  /\ got[v] \in Seq(Reply) /\ held[v] \in Seq(Reply) /\ issued[v] \in Seq(Reply)
         /\ v \in DOMAIN ack_map => ack_map[v] \in Seq(Reply)
         /\ Queued(v) \in Seq(Reply) /\ Undetokenized(v) \in Seq(Reply)
<1>1. FlattenSeq(inbox) \in Seq(Reply) /\ FlattenSeq(to_detokenizer) \in Seq(Reply)
  BY FlattenType DEF Contents
<1>2. Queued(v) \in Seq(Reply) /\ Undetokenized(v) \in Seq(Reply)
  BY <1>1, OfType DEF Queued, Undetokenized
<1> QED
  BY <1>2 DEF Contents

LEMMA WakeFlow ==
  ASSUME IInv, Flow, NEW u \in User, UNCHANGED backend, Wake(u)
  PROVE  Flow'
<1>1. /\ UNCHANGED << to_tokenizer, to_backend, inbox, issued, running, late, connected >>
      /\ UNCHANGED << got, aborting, args, to_detokenizer, decode_map >>
      /\ task[u] = "waiting"
  BY DEF Wake, links, backend, world
<1>2. u \in DOMAIN ack_map
  BY <1>1 DEF IInv, MapsTogether, Streaming
<1>3. PICK a \in Seq(Reply) : a = ack_map[u]
  BY <1>2, StreamTypes DEF Flow
<1>4. PICK stop \in {"waiting", "delivering"} :
        stop = (IF a = << >> THEN "waiting" ELSE "delivering")
  OBVIOUS
<1>5. \A v \in User : task'[v] = IF v = u THEN stop ELSE task[v]
  BY <1>3, <1>4 DEF Wake, IInv, Shapes
<1>6. \A v \in User : held'[v] = IF v = u THEN a ELSE held[v]
  BY <1>3 DEF Wake, Flow, Contents
<1>7. ack_map' = [ack_map EXCEPT ![u] = << >>] /\ held' = [held EXCEPT ![u] = a]
  BY <1>3 DEF Wake
<1>8. Contents'
  <2>1. << >> \in Seq(Reply)
    OBVIOUS
  <2>2. held' \in [User -> Seq(Reply)]
    BY <1>7 DEF Flow, Contents
  <2>3. DOMAIN ack_map' \subseteq User /\ ack_map' \in [DOMAIN ack_map' -> Seq(Reply)]
    BY <1>7, <2>1 DEF Flow, Contents
  <2> QED
    BY <1>1, <2>2, <2>3 DEF Flow, Contents
<1>9. AskedFor'
  <2>1. \A v \in User : /\ task[v] = "none" => v \in connected
                        /\ task[v] = "cancelled" => aborting[v] # "no"
    BY DEF Flow, AskedFor
  <2>2. \A v \in User : /\ Untold(v)' => Untold(v)
                        /\ aborting[v] = "sent" => aborting'[v] = "sent"
                        /\ task'[v] = "cancelled" => aborting'[v] # "no"
                        /\ task'[v] = "none" => v \in connected'
    BY <1>1, <1>5, <2>1 DEF Untold
  <2> QED
    BY <1>1, <2>2, AskedSame DEF Flow
<1>10. HeldNow'
  BY <1>4, <1>5, <1>6 DEF Flow, HeldNow
<1>11. \A v \in User : Queued(v)' = Queued(v) /\ Undetokenized(v)' = Undetokenized(v)
  BY <1>1 DEF Queued, Undetokenized
<1>12. Nothing'
  <2>1. \A v \in User : task'[v] = "none" => task[v] = "none"
    BY <1>5
  <2> QED
    BY <1>1, <1>11, <2>1 DEF Flow, Nothing
<1>13. ASSUME NEW v \in User, Streaming(v)' PROVE Stream(v)' = issued'[v]
  <2>1. Streaming(v) /\ v \in DOMAIN ack_map
    BY <1>1, <1>2, <1>5, <1>13 DEF Streaming, IInv, MapsTogether
  <2>2. Stream(v) = issued[v]
    BY <2>1, StreamIs DEF Flow
  <2>3. CASE v = u
    <3>1. held[v] = << >> /\ ack_map'[v] = << >> /\ held'[v] = a
      BY <1>1, <1>6, <1>7, <2>1, <2>3 DEF Flow, HeldNow
    <3>2. (got[v] \o << >>) \o a = (got[v] \o a) \o << >>
      <4>1. got[v] \in Seq(Reply)
        BY StreamTypes DEF Flow
      <4>2. got[v] \o a \in Seq(Reply)
        BY <4>1, ConcatProperties
      <4> QED
        BY <4>1, <4>2, ConcatEmptySeq
    <3>3. Stream(v)' = (got[v] \o a) \o << >> \o Queued(v) \o Undetokenized(v)
      BY <1>1, <1>11, <3>1 DEF Stream
    <3>4. Stream(v) = (got[v] \o << >>) \o a \o Queued(v) \o Undetokenized(v)
      BY <1>3, <2>3, <3>1 DEF Stream
    <3> QED
      BY <1>1, <2>2, <3>2, <3>3, <3>4
  <2>4. CASE v # u
    <3>1. ack_map'[v] = ack_map[v] /\ held'[v] = held[v]
      BY <1>6, <1>7, <2>1, <2>4
    <3>2. Stream(v)' = Stream(v)
      BY <1>1, <1>11, <3>1 DEF Stream
    <3> QED
      BY <1>1, <2>2, <3>2
  <2> QED
    BY <2>3, <2>4
<1>14. RepliesInOrder'
  BY <1>13, StreamNext
<1>15. Ends'
  BY <1>1, <1>5, EndsSame DEF Flow
<1>16. NormalEnds' /\ Handled'
  BY <1>1, NormalSame, HandledSame DEF Flow
<1> QED
  BY <1>8, <1>9, <1>10, <1>12, <1>14, <1>15, <1>16 DEF Flow

\* The reply that is delivered is the next one issued.
LEMMA NextDelivered ==
  ASSUME IInv, Flow, NEW u \in User, task[u] = "delivering"
  PROVE  /\ held[u] \in Seq(Reply) /\ held[u] # << >> /\ got[u] \in Seq(Reply)
         /\ Len(got[u]) < Len(issued[u]) /\ issued[u][Len(got[u]) + 1] = Head(held[u])
         /\ Len(got[u]) + 1 \in DOMAIN issued[u]
<1>1. held[u] # << >> /\ Streaming(u) /\ u \in DOMAIN ack_map
  BY DEF Flow, HeldNow, IInv, MapsTogether, Streaming
<1>2. PICK g \in Seq(Reply), h \in Seq(Reply), a \in Seq(Reply), q \in Seq(Reply),
           w \in Seq(Reply) :
        g = got[u] /\ h = held[u] /\ a = ack_map[u] /\ q = Queued(u) /\ w = Undetokenized(u)
  BY <1>1, StreamTypes DEF Flow
<1>3. issued[u] = g \o h \o a \o q \o w
  BY <1>1, <1>2, StreamIs DEF Flow, Stream
<1>4. h # << >>
  BY <1>1, <1>2
<1>5. PICK x \in Seq(Reply) : g \o h = x
  BY ConcatProperties
<1>6. Len(g) < Len(x) /\ x[Len(g) + 1] = Head(h) /\ Len(x) \in Nat /\ Len(g) \in Nat
  BY <1>4, <1>5
<1>7. PICK y \in Seq(Reply) : x \o a = y
  BY ConcatProperties
<1>8. Len(x) <= Len(y) /\ \A i \in 1..Len(x) : y[i] = x[i]
  BY <1>7
<1>9. PICK z \in Seq(Reply) : y \o q = z
  BY ConcatProperties
<1>10. Len(y) <= Len(z) /\ \A i \in 1..Len(y) : z[i] = y[i]
  BY <1>9
<1>11. PICK s \in Seq(Reply) : z \o w = s
  BY ConcatProperties
<1>12. Len(z) <= Len(s) /\ \A i \in 1..Len(z) : s[i] = z[i]
  BY <1>11
<1>13. s = issued[u]
  BY <1>3, <1>5, <1>7, <1>9, <1>11
<1>14. Len(x) \in Nat /\ Len(y) \in Nat /\ Len(z) \in Nat /\ Len(s) \in Nat
       /\ DOMAIN s = 1..Len(s)
  OBVIOUS
<1>15. Len(g) + 1 \in 1..Len(x) /\ Len(g) + 1 \in 1..Len(y) /\ Len(g) + 1 \in 1..Len(z)
       /\ Len(g) + 1 \in 1..Len(s)
  BY <1>6, <1>8, <1>10, <1>12, <1>14
<1>16. s[Len(g) + 1] = Head(h)
  BY <1>6, <1>8, <1>10, <1>12, <1>15
<1> QED
  BY <1>1, <1>2, <1>6, <1>13, <1>14, <1>15, <1>16

LEMMA DeliverFlow ==
  ASSUME IInv, Flow, NEW u \in User, UNCHANGED backend, Deliver(u)
  PROVE  Flow'
<1>1. /\ UNCHANGED << to_tokenizer, to_backend, inbox, issued, running, late, connected >>
      /\ UNCHANGED << ack_map, aborting, args, to_detokenizer, decode_map >>
      /\ task[u] = "delivering"
  BY DEF Deliver, links, backend, manager
<1>2. /\ held[u] \in Seq(Reply) /\ held[u] # << >> /\ got[u] \in Seq(Reply)
      /\ Len(got[u]) + 1 \in DOMAIN issued[u] /\ issued[u][Len(got[u]) + 1] = Head(held[u])
  BY <1>1, NextDelivered
<1>3. PICK h \in Seq(Reply), g \in Seq(Reply) : h = held[u] /\ g = got[u]
  BY <1>2
<1>4. /\ Append(g, Head(h)) \o Tail(h) = g \o h
      /\ Append(g, Head(h)) \in Seq(Reply) /\ Tail(h) \in Seq(Reply) /\ Head(h) \in Reply
  <2>1. h # << >>
    BY <1>2, <1>3
  <2> QED
    BY <2>1, HeadMoves
<1>5. PICK stop \in {"ending", "waiting", "delivering"} :
        /\ stop = NextStop(u)
        /\ stop = "ending" => Head(h).finished
        /\ stop = "waiting" => Tail(h) = << >>
        /\ stop = "delivering" => Tail(h) # << >>
  BY <1>3, <1>4 DEF NextStop, Reply
<1>6. PICK rest \in Seq(Reply) : rest = IF stop = "ending" THEN << >> ELSE Tail(h)
  <2>1. << >> \in Seq(Reply)
    OBVIOUS
  <2> QED
    BY <1>4, <2>1
<1>7. /\ task' = [task EXCEPT ![u] = stop] /\ got' = [got EXCEPT ![u] = Append(g, Head(h))]
      /\ held' = [held EXCEPT ![u] = rest]
  BY <1>3, <1>5, <1>6 DEF Deliver
<1>8. \A v \in User : task'[v] = IF v = u THEN stop ELSE task[v]
  BY <1>7 DEF IInv, Shapes
<1>9. \A v \in User : /\ held'[v] = IF v = u THEN rest ELSE held[v]
                      /\ got'[v] = IF v = u THEN Append(g, Head(h)) ELSE got[v]
  BY <1>7 DEF Flow, Contents
<1>10. Contents'
  <2>2. held' \in [User -> Seq(Reply)] /\ got' \in [User -> Seq(Reply)]
    BY <1>4, <1>7 DEF Flow, Contents
  <2> QED
    BY <1>1, <2>2 DEF Flow, Contents
<1>11. AskedFor'
  <2>1. \A v \in User : /\ task[v] = "none" => v \in connected
                        /\ task[v] = "cancelled" => aborting[v] # "no"
    BY DEF Flow, AskedFor
  <2>2. \A v \in User : /\ Untold(v)' => Untold(v)
                        /\ aborting[v] = "sent" => aborting'[v] = "sent"
                        /\ task'[v] = "cancelled" => aborting'[v] # "no"
                        /\ task'[v] = "none" => v \in connected'
    BY <1>1, <1>8, <2>1 DEF Untold
  <2> QED
    BY <1>1, <2>2, AskedSame DEF Flow
<1>12. HeldNow'
  <2>1. /\ stop # "none" /\ stop # "sending" /\ stop # "starting"
        /\ stop = "waiting" => rest = << >>
        /\ stop = "delivering" => rest # << >>
    BY <1>5, <1>6
  <2> QED
    BY <1>8, <1>9, <2>1 DEF Flow, HeldNow
<1>13. \A v \in User : Queued(v)' = Queued(v) /\ Undetokenized(v)' = Undetokenized(v)
  BY <1>1 DEF Queued, Undetokenized
<1>14. Nothing'
  <2>1. \A v \in User : task'[v] = "none" => task[v] = "none" /\ v # u
    BY <1>8
  <2> QED
    BY <1>1, <1>9, <1>13, <2>1 DEF Flow, Nothing
<1>15. ASSUME NEW v \in User, Streaming(v)' PROVE Stream(v)' = issued'[v]
  <2>1. Streaming(v)
    BY <1>1, <1>8, <1>15 DEF Streaming
  <2>2. Stream(v) = issued[v]
    BY <2>1, StreamIs DEF Flow
  <2>3. CASE v = u
    <3>1. stop # "ending" /\ held'[v] = Tail(h) /\ got'[v] = Append(g, Head(h))
      BY <1>6, <1>8, <1>9, <1>15, <2>3 DEF Streaming
    <3>2. Stream(v)' = (Append(g, Head(h)) \o Tail(h)) \o ack_map[v] \o Queued(v) \o Undetokenized(v)
      BY <1>1, <1>13, <3>1 DEF Stream
    <3>3. Stream(v) = (g \o h) \o ack_map[v] \o Queued(v) \o Undetokenized(v)
      BY <1>3, <2>3 DEF Stream
    <3> QED
      BY <1>1, <1>4, <2>2, <3>2, <3>3
  <2>4. CASE v # u
    <3>1. held'[v] = held[v] /\ got'[v] = got[v]
      BY <1>9, <2>4
    <3>2. Stream(v)' = Stream(v)
      BY <1>1, <1>13, <3>1 DEF Stream
    <3> QED
      BY <1>1, <2>2, <3>2
  <2> QED
    BY <2>3, <2>4
<1>16. RepliesInOrder'
  BY <1>15, StreamNext
<1>17. Ends'
  <2>1. stop = "ending" => \E i \in DOMAIN issued[u] : issued[u][i].finished
    BY <1>2, <1>3, <1>5
  <2> QED
    BY <1>1, <1>8, <2>1 DEF Flow, Ends
<1>18. NormalEnds' /\ Handled'
  BY <1>1, NormalSame, HandledSame DEF Flow
<1> QED
  BY <1>10, <1>11, <1>12, <1>14, <1>16, <1>17, <1>18 DEF Flow

-----------------------------------------------------------------------------
(* The steps that move replies from queue to queue. *)

\* The replies for one request in two lists of batches after each other.
LEMMA OfConcat ==
  ASSUME NEW s \in Seq(Reply), NEW t \in Seq(Reply), NEW v
  PROVE  Of(s \o t, v) = Of(s, v) \o Of(t, v)
BY WithinConcat DEF Of

LEMMA OfFlattened ==
  ASSUME NEW s \in Seq(Seq(Reply)), NEW t \in Seq(Seq(Reply)), NEW v
  PROVE  Of(FlattenSeq(s \o t), v) = Of(FlattenSeq(s), v) \o Of(FlattenSeq(t), v)
<1>1. FlattenSeq(s) \in Seq(Reply) /\ FlattenSeq(t) \in Seq(Reply)
  BY FlattenType
<1>2. FlattenSeq(s \o t) = FlattenSeq(s) \o FlattenSeq(t)
  BY FlattenConcat
<1> QED
  BY <1>1, <1>2, OfConcat

LEMMA OfAppended ==
  ASSUME NEW s \in Seq(Seq(Reply)), NEW e \in Seq(Reply), NEW v
  PROVE  Of(FlattenSeq(Append(s, e)), v) = Of(FlattenSeq(s), v) \o Of(e, v)
<1>1. FlattenSeq(s) \in Seq(Reply)
  BY FlattenType
<1>2. FlattenSeq(Append(s, e)) = FlattenSeq(s) \o e
  BY FlattenAppend
<1> QED
  BY <1>1, <1>2, OfConcat

LEMMA OfHead ==
  ASSUME NEW s \in Seq(Seq(Reply)), s # << >>, NEW v
  PROVE  Of(FlattenSeq(s), v) = Of(Head(s), v) \o Of(FlattenSeq(Tail(s)), v)
<1>1. PICK e \in Seq(Reply), r \in Seq(Seq(Reply)) : e = Head(s) /\ r = Tail(s)
  BY HeadTailProperties
<1>2. s = << e >> \o r /\ << e >> \in Seq(Seq(Reply))
  BY <1>1
<1>3. Of(FlattenSeq(s), v) = Of(FlattenSeq(<< e >>), v) \o Of(FlattenSeq(r), v)
  BY <1>2, OfFlattened
<1>4. FlattenSeq(<< e >>) = e
  BY FlattenOne
<1> QED
  BY <1>1, <1>3, <1>4

LEMMA FirstAndRest ==
  ASSUME NEW M, NEW s \in Seq(M), NEW k \in Nat, 1 <= k, k <= Len(s)
  PROVE  /\ s = SubSeq(s, 1, k) \o SubSeq(s, k + 1, Len(s))
         /\ SubSeq(s, 1, k) \in Seq(M) /\ SubSeq(s, k + 1, Len(s)) \in Seq(M)
<1>1. Len(s) \in Nat /\ 1 \in 1..(Len(s) + 1) /\ k \in (1 - 1)..Len(s) /\ Len(s) \in k..Len(s)
  OBVIOUS
<1>2. SubSeq(s, 1, k) \o SubSeq(s, k + 1, Len(s)) = SubSeq(s, 1, Len(s))
  BY <1>1, ConcatAdjacentSubSeq
<1>3. SubSeq(s, 1, Len(s)) = s
  BY SubSeqFull
<1>4. SubSeq(s, 1, k) \in Seq(M) /\ SubSeq(s, k + 1, Len(s)) \in Seq(M)
  BY <1>1
<1> QED
  BY <1>2, <1>3, <1>4

LEMMA ListenFlow ==
  ASSUME IInv, Flow, UNCHANGED backend, Listen
  PROVE  Flow'
<1>1. /\ UNCHANGED << to_tokenizer, to_backend, issued, running, late, connected, got >>
      /\ UNCHANGED << task, held, aborting, args, to_detokenizer, decode_map >>
      /\ inbox # << >> /\ inbox' = Tail(inbox) /\ inbox \in Seq(Seq(Reply))
      /\ ack_map' = [v \in DOMAIN ack_map |-> ack_map[v] \o Of(Head(inbox), v)]
      /\ DOMAIN ack_map' = DOMAIN ack_map
  BY DEF Listen, Filed, tasks, world, backend, Flow, Contents
<1>2. Head(inbox) \in Seq(Reply) /\ inbox' \in Seq(Seq(Reply))
  BY <1>1, HeadTailProperties
<1>3. \A v : Of(Head(inbox), v) \in Seq(Reply)
  BY <1>2, OfType
<1>4. \A v : Queued(v) = Of(Head(inbox), v) \o Queued(v)'
  <2>1. \A v : Of(FlattenSeq(inbox), v) = Of(Head(inbox), v) \o Of(FlattenSeq(Tail(inbox)), v)
    BY <1>1, OfHead
  <2> QED
    BY <1>1, <2>1 DEF Queued
<1>5. Contents'
  <2>1. ack_map' \in [DOMAIN ack_map' -> Seq(Reply)]
    <3>1. \A v \in DOMAIN ack_map : ack_map[v] \in Seq(Reply)
      BY DEF Flow, Contents
    <3>2. \A v \in DOMAIN ack_map : ack_map[v] \o Of(Head(inbox), v) \in Seq(Reply)
      BY <1>3, <3>1, ConcatProperties
    <3> QED
      BY <1>1, <3>2
  <2> QED
    BY <1>1, <1>2, <2>1 DEF Flow, Contents
<1>6. \A v \in User : Queued(v)' \in Seq(Reply) /\ Undetokenized(v)' = Undetokenized(v)
  <2>1. \A v \in User : Queued(v)' \in Seq(Reply)
    <3>1. FlattenSeq(inbox') \in Seq(Reply)
      BY <1>2, FlattenType
    <3> QED
      BY <3>1, OfType DEF Queued
  <2> QED
    BY <1>1, <2>1 DEF Undetokenized
<1>7. AskedFor'
  <2>1. \A v \in User : /\ Untold(v)' => Untold(v)
                        /\ task'[v] = "cancelled" => aborting'[v] # "no"
                        /\ task'[v] = "none" => v \in connected'
    BY <1>1 DEF Untold, Flow, AskedFor
  <2> QED
    BY <1>1, <2>1, AskedSame DEF Flow
<1>8. HeldNow'
  BY <1>1, HeldSame DEF Flow
<1>9. Nothing'
  <2>1. ASSUME NEW v \in User, task[v] = "none" PROVE Queued(v)' = << >>
    <3>1. Queued(v) = << >>
      BY <2>1 DEF Flow, Nothing
    <3> QED
      BY <1>3, <1>4, <1>6, <3>1, ConcatEqualIffEmpty
  <2> QED
    BY <1>1, <1>6, <2>1 DEF Flow, Nothing
<1>10. ASSUME NEW v \in User, Streaming(v)' PROVE Stream(v)' = issued'[v]
  <2>1. Streaming(v) /\ v \in DOMAIN ack_map
    BY <1>1, <1>10 DEF Streaming, IInv, MapsTogether
  <2>2. Stream(v) = issued[v]
    BY <2>1, StreamIs DEF Flow
  <2>3. PICK x \in Seq(Reply), a \in Seq(Reply), b \in Seq(Reply), c \in Seq(Reply),
             w \in Seq(Reply) :
          /\ x = got[v] \o held[v] /\ a = ack_map[v] /\ b = Of(Head(inbox), v)
          /\ c = Queued(v)' /\ w = Undetokenized(v)
    <3>1. got[v] \o held[v] \in Seq(Reply)
      BY StreamTypes, ConcatProperties DEF Flow
    <3> QED
      BY <1>3, <1>6, <2>1, <3>1, StreamTypes DEF Flow
  <2>4. Stream(v)' = x \o (a \o b) \o c \o w
    BY <1>1, <1>6, <2>1, <2>3 DEF Stream
  <2>5. Stream(v) = x \o a \o (b \o c) \o w
    BY <1>4, <2>3 DEF Stream
  <2>6. x \o (a \o b) \o c = x \o a \o (b \o c)
    <3>1. x \o (a \o b) = (x \o a) \o b
      BY RepliesAssociate
    <3>2. PICK y \in Seq(Reply) : y = x \o a
      BY ConcatProperties
    <3>3. (y \o b) \o c = y \o (b \o c)
      BY RepliesAssociate
    <3> QED
      BY <3>1, <3>2, <3>3
  <2> QED
    BY <1>1, <2>2, <2>4, <2>5, <2>6
<1>11. RepliesInOrder'
  BY <1>10, StreamNext
<1>12. Ends'
  BY <1>1, EndsSame DEF Flow
<1>13. NormalEnds' /\ Handled'
  BY <1>1, NormalSame, HandledSame DEF Flow
<1> QED
  BY <1>5, <1>7, <1>8, <1>9, <1>11, <1>12, <1>13 DEF Flow

\* A place of Of(s, v) is a reply of v in s, and every reply of v has one.
LEMMA OfNone ==
  ASSUME NEW s \in Seq(Reply), NEW v
  PROVE  Of(s, v) = << >> <=> \A i \in DOMAIN s : s[i].uid # v
<1> DEFINE S == {r \in Reply : r.uid = v}
           w == Within(s, S)
<1>1. PICK f : Picks(f, s, S)
  BY WithinPlaces
<1>2. /\ \A i \in DOMAIN w : f[i] \in DOMAIN s
      /\ \A j \in DOMAIN s : s[j] \in S <=> \E i \in DOMAIN w : f[i] = j
  BY <1>1 DEF Picks
<1>3. w \in Seq(Reply)
  BY WithinType
<1>4. w = << >> <=> DOMAIN w = {}
  BY <1>3
<1>5. \A j \in DOMAIN s : s[j] \in S <=> s[j].uid = v
  OBVIOUS
<1> HIDE DEF w, S
<1>6. w = << >> <=> \A i \in DOMAIN s : s[i].uid # v
  BY <1>2, <1>4, <1>5
<1> QED
  BY <1>6 DEF Of, w, S

LEMMA OfElement ==
  ASSUME NEW s \in Seq(Reply), NEW v, NEW i \in DOMAIN Of(s, v)
  PROVE  \E j \in DOMAIN s : Of(s, v)[i] = s[j] /\ s[j].uid = v
<1> DEFINE S == {r \in Reply : r.uid = v}
           w == Within(s, S)
<1>1. PICK f : Picks(f, s, S)
  BY WithinPlaces
<1>2. /\ \A k \in DOMAIN w : f[k] \in DOMAIN s /\ w[k] = s[f[k]]
      /\ \A j \in DOMAIN s : s[j] \in S <=> \E k \in DOMAIN w : f[k] = j
  BY <1>1 DEF Picks
<1>3. i \in DOMAIN w
  BY DEF Of
<1>4. \A r \in S : r.uid = v
  OBVIOUS
<1> HIDE DEF w, S
<1>5. f[i] \in DOMAIN s /\ w[i] = s[f[i]] /\ s[f[i]] \in S
  BY <1>2, <1>3
<1> QED
  BY <1>4, <1>5 DEF Of, w, S

LEMMA OfOne ==
  ASSUME NEW s \in Seq(Reply), NEW v, NEW k \in DOMAIN s,
         \A j \in DOMAIN s : s[j].uid = v <=> j = k
  PROVE  Of(s, v) = << s[k] >>
<1> DEFINE S == {r \in Reply : r.uid = v}
           w == Within(s, S)
<1>1. PICK f : Picks(f, s, S)
  BY WithinPlaces
<1>2. /\ \A i \in DOMAIN w : f[i] \in DOMAIN s /\ w[i] = s[f[i]]
      /\ \A i, j \in DOMAIN w : f[i] = f[j] => i = j
      /\ \A j \in DOMAIN s : s[j] \in S <=> \E i \in DOMAIN w : f[i] = j
  BY <1>1 DEF Picks
<1>3. w \in Seq(Reply)
  BY WithinType
<1>4. \A j \in DOMAIN s : s[j] \in S <=> j = k
  OBVIOUS
<1> HIDE DEF w, S
<1>5. \A i \in DOMAIN w : f[i] = k
  BY <1>2, <1>4
<1>6. PICK i \in DOMAIN w : f[i] = k
  BY <1>2, <1>4
<1>7. \A j \in DOMAIN w : j = i
  BY <1>2, <1>5
<1>8. DOMAIN w = 1..Len(w) /\ Len(w) \in Nat
  BY <1>3
<1>9. 1 \in DOMAIN w /\ (Len(w) \in DOMAIN w)
  BY <1>8
<1>10. Len(w) = 1 /\ i = 1
  BY <1>7, <1>9
<1>11. w[1] = s[k]
  BY <1>2, <1>6, <1>10
<1>12. w = << s[k] >>
  BY <1>3, <1>8, <1>10, <1>11
<1> QED
  BY <1>12 DEF Of, w, S

\* Of the replies of a batch each request of it has one.
LEMMA BatchOf ==
  ASSUME NEW S \in SUBSET User, NEW r \in [S -> Reply], \A v \in S : r[v].uid = v,
         NEW order \in [1..Cardinality(S) -> S], IsInjective(order),
         NEW batch \in Seq(Reply), DOMAIN batch = 1..Cardinality(S),
         \A i \in DOMAIN batch : batch[i] = r[order[i]]
  PROVE  \A v \in S : Of(batch, v) = << r[v] >>
<1>1. IsFiniteSet(S) /\ Cardinality(S) \in Nat
  <2>1. IsFiniteSet(User)
    BY FrontendAssumption, FS_Interval DEF User
  <2> QED
    BY <2>1, FS_Subset, FS_CardinalityType
<1>2. batch \in Seq(Reply) /\ DOMAIN batch = 1..Cardinality(S)
  OBVIOUS
<1>3. \A i \in DOMAIN batch :
        batch[i] = r[order[i]] /\ order[i] \in S
  OBVIOUS
<1>4. \A v \in S : \E i \in 1..Cardinality(S) : order[i] = v
  <2> DEFINE N == 1..Cardinality(S)
  <2>1. IsFiniteSet(N) /\ Cardinality(N) = Cardinality(S)
    BY <1>1, FS_Interval
  <2>2. order \in Injection(N, S)
    BY DEF Injection
  <2> HIDE DEF N
  <2>3. order \in Surjection(N, S)
    BY <1>1, <2>1, <2>2, FS_Injection
  <2> QED
    BY <2>3 DEF Surjection, N
<1>5. ASSUME NEW v \in S PROVE Of(batch, v) = << r[v] >>
  <2>1. PICK k \in 1..Cardinality(S) : order[k] = v
    BY <1>4
  <2>2. \A j \in DOMAIN batch : batch[j].uid = v <=> j = k
    BY <1>2, <1>3, <2>1 DEF IsInjective
  <2>3. k \in DOMAIN batch
    BY <1>2
  <2>4. Of(batch, v) = << batch[k] >>
    BY <1>2, <2>2, <2>3, OfOne
  <2> QED
    BY <1>3, <2>1, <2>3, <2>4
<1> QED
  BY <1>5

LEMMA ArgsType ==
  ASSUME args \in Args
  PROVE  /\ args.local_bs \in Nat /\ args.replies \in 1..MaxReplies /\ args.overlap \in BOOLEAN
BY ServingAssumption

\* What a step of another process leaves of the requests.
LEMMA UndisturbedAsked ==
  ASSUME AskedFor, UNCHANGED << to_tokenizer, to_backend, issued, running, late >>,
         UNCHANGED << task, aborting, connected >>
  PROVE  AskedFor'
<1>1. \A v \in User : /\ Untold(v)' => Untold(v)
                      /\ task'[v] = "cancelled" => aborting'[v] # "no"
                      /\ task'[v] = "none" => v \in connected'
  BY DEF Untold, AskedFor
<1> QED
  BY <1>1, AskedSame

LEMMA DetokenizeFlow ==
  ASSUME IInv, Flow, args \in Args, Detokenize
  PROVE  Flow'
<1>0. to_detokenizer \in Seq(Seq(Reply)) /\ inbox \in Seq(Seq(Reply)) /\ args.local_bs \in Nat
  BY ArgsType DEF Flow, Contents
<1>1. PICK k \in 1..args.local_bs :
        /\ k <= Len(to_detokenizer)
        /\ inbox' = Append(inbox, FlattenSeq(SubSeq(to_detokenizer, 1, k)))
        /\ decode_map' = Statuses(FlattenSeq(SubSeq(to_detokenizer, 1, k)))
        /\ to_detokenizer' = SubSeq(to_detokenizer, k + 1, Len(to_detokenizer))
  BY DEF Detokenize
<1>2. /\ UNCHANGED << to_tokenizer, to_backend, issued, running, late, connected, got >>
      /\ UNCHANGED << task, held, aborting, args, ack_map >>
  BY DEF Detokenize, tasks, world, manager
<1>3. PICK batches \in Seq(Seq(Reply)) : batches = SubSeq(to_detokenizer, 1, k)
  <2>1. k \in Nat /\ 1 <= k
    BY <1>0
  <2> QED
    BY <1>0, <1>1, <2>1, FirstAndRest
<1>4. to_detokenizer = batches \o to_detokenizer' /\ to_detokenizer' \in Seq(Seq(Reply))
  <2>1. k \in Nat /\ 1 <= k
    BY <1>0
  <2> QED
    BY <1>0, <1>1, <1>3, <2>1, FirstAndRest
<1>5. PICK batch \in Seq(Reply) : batch = FlattenSeq(batches)
  BY FlattenType
<1>6. inbox' = Append(inbox, batch) /\ decode_map' = Statuses(batch)
  BY <1>1, <1>3, <1>5
<1>7. \A v : Of(batch, v) \in Seq(Reply)
  BY OfType
<1>8. \A v : Queued(v)' = Queued(v) \o Of(batch, v)
  BY <1>0, <1>6, OfAppended DEF Queued
<1>9. \A v : Undetokenized(v) = Of(batch, v) \o Undetokenized(v)'
  <2>1. \A v : Of(FlattenSeq(batches \o to_detokenizer'), v)
                 = Of(FlattenSeq(batches), v) \o Of(FlattenSeq(to_detokenizer'), v)
    BY <1>4, OfFlattened
  <2>2. \A v : Of(FlattenSeq(to_detokenizer), v)
                 = Of(batch, v) \o Of(FlattenSeq(to_detokenizer'), v)
    BY <1>4, <1>5, <2>1
  <2> QED
    BY <2>2 DEF Undetokenized
<1>10. \A v \in User : Undetokenized(v)' \in Seq(Reply)
  <2>1. FlattenSeq(to_detokenizer') \in Seq(Reply)
    BY <1>4, FlattenType
  <2> QED
    BY <2>1, OfType DEF Undetokenized
<1>11. Contents'
  <2>1. Append(inbox, batch) \in Seq(Seq(Reply))
    BY <1>0
  <2>2. Uids(batch) \subseteq User
    <3>1. \A i \in DOMAIN batch : batch[i] \in Reply
      OBVIOUS
    <3> QED
      BY <3>1 DEF Uids, Reply
  <2>3. decode_map' \subseteq User
    BY <1>6, <2>2 DEF Statuses, Flow, Contents
  <2> QED
    BY <1>2, <1>4, <1>6, <2>1, <2>3 DEF Flow, Contents
<1>12. AskedFor'
  BY <1>2, UndisturbedAsked DEF Flow
<1>13. HeldNow'
  BY <1>2, HeldSame DEF Flow
<1>14. Nothing'
  <2>1. ASSUME NEW v \in User, task[v] = "none"
        PROVE  Queued(v)' = << >> /\ Undetokenized(v)' = << >>
    <3>1. Queued(v) = << >> /\ Undetokenized(v) = << >>
      BY <2>1 DEF Flow, Nothing
    <3>2. Of(batch, v) = << >> /\ Undetokenized(v)' = << >>
      BY <1>7, <1>9, <1>10, <3>1, ConcatEqualIffEmpty
    <3>3. << >> \o << >> = << >>
      OBVIOUS
    <3> QED
      BY <1>8, <3>1, <3>2, <3>3
  <2> QED
    BY <1>2, <2>1 DEF Flow, Nothing
<1>15. ASSUME NEW v \in User, Streaming(v)' PROVE Stream(v)' = issued'[v]
  <2>1. Streaming(v) /\ v \in DOMAIN ack_map
    BY <1>2, <1>15 DEF Streaming, IInv, MapsTogether
  <2>2. Stream(v) = issued[v]
    BY <2>1, StreamIs DEF Flow
  <2>3. PICK x \in Seq(Reply), a \in Seq(Reply), b \in Seq(Reply), c \in Seq(Reply) :
          /\ x = got[v] \o held[v] \o ack_map[v] /\ a = Queued(v) /\ b = Of(batch, v)
          /\ c = Undetokenized(v)'
    <3>1. got[v] \o held[v] \in Seq(Reply)
      BY StreamTypes, ConcatProperties DEF Flow
    <3>2. got[v] \o held[v] \o ack_map[v] \in Seq(Reply)
      BY <2>1, <3>1, StreamTypes, ConcatProperties DEF Flow
    <3> QED
      BY <1>7, <1>10, <2>1, <3>2, StreamTypes DEF Flow
  <2>4. Stream(v)' = x \o (a \o b) \o c
    BY <1>2, <1>8, <2>1, <2>3 DEF Stream
  <2>5. Stream(v) = x \o a \o (b \o c)
    BY <1>9, <2>3 DEF Stream
  <2>6. x \o (a \o b) \o c = x \o a \o (b \o c)
    <3>1. x \o (a \o b) = (x \o a) \o b
      BY RepliesAssociate
    <3>2. PICK y \in Seq(Reply) : y = x \o a
      BY ConcatProperties
    <3>3. (y \o b) \o c = y \o (b \o c)
      BY RepliesAssociate
    <3> QED
      BY <3>1, <3>2, <3>3
  <2> QED
    BY <1>2, <2>2, <2>4, <2>5, <2>6
<1>16. RepliesInOrder'
  BY <1>15, StreamNext
<1>17. Ends'
  BY <1>2, EndsSame DEF Flow
<1>18. NormalEnds'
  BY <1>2, NormalSame DEF Flow
<1>19. ASSUME NEW u \in User
       PROVE  \E p \in Seq(Reply) :
                /\ issued[u] = p \o Undetokenized(u)'
                /\ ~ args.overlap /\ u \in decode_map' =>
                     p # << >> /\ \A i \in DOMAIN p : ~ p[i].finished
  <2>1. PICK p \in Seq(Reply) :
          /\ issued[u] = p \o Undetokenized(u)
          /\ ~ args.overlap /\ u \in decode_map =>
               p # << >> /\ \A i \in DOMAIN p : ~ p[i].finished
    BY DEF Flow, Handled
  <2>2. PICK b \in Seq(Reply), c \in Seq(Reply) : b = Of(batch, u) /\ c = Undetokenized(u)'
    BY <1>7, <1>10
  <2>3. PICK q \in Seq(Reply) : q = p \o b
    BY ConcatProperties
  <2>4. issued[u] = q \o c
    <3>1. p \o (b \o c) = (p \o b) \o c
      BY RepliesAssociate
    <3>2. issued[u] = p \o (b \o c)
      BY <1>9, <2>1, <2>2
    <3> QED
      BY <2>3, <3>1, <3>2
  <2>5. ASSUME ~ args.overlap, u \in decode_map'
        PROVE  q # << >> /\ \A i \in DOMAIN q : ~ q[i].finished
    <3>1. \A j \in DOMAIN batch : batch[j].uid = u => ~ batch[j].finished
      BY <1>6, <2>5 DEF Statuses
    <3>2. \A i \in DOMAIN b : ~ b[i].finished
      <4> TAKE i \in DOMAIN b
      <4>1. PICK j \in DOMAIN batch : b[i] = batch[j] /\ batch[j].uid = u
        BY <2>2, OfElement
      <4> QED
        BY <3>1, <4>1
    <3>3. /\ Len(p) \in Nat /\ Len(b) \in Nat /\ Len(q) = Len(p) + Len(b)
          /\ DOMAIN p = 1..Len(p) /\ DOMAIN b = 1..Len(b) /\ DOMAIN q = 1..Len(q)
          /\ \A i \in 1..Len(p) : q[i] = p[i]
          /\ \A i \in DOMAIN q : i \notin 1..Len(p) => i - Len(p) \in DOMAIN b /\ q[i] = b[i - Len(p)]
      BY <2>3
    <3>4. CASE u \in decode_map
      <4>1. p # << >> /\ \A i \in DOMAIN p : ~ p[i].finished
        BY <2>1, <2>5, <3>4
      <4>2. q # << >>
        BY <3>3, <4>1
      <4> QED
        BY <3>2, <3>3, <4>1, <4>2
    <3>5. CASE u \notin decode_map
      <4>1. PICK j \in DOMAIN batch : batch[j].uid = u
        BY <1>6, <2>5, <3>5 DEF Statuses, Uids
      <4>2. b # << >>
        BY <2>2, <4>1, OfNone
      <4>3. Len(b) # 0 /\ q # << >>
        BY <3>3, <4>2
      <4>4. PICK s \in Seq(Reply) : s = issued[u]
        BY DEF Flow, Contents
      <4>5. /\ Len(s) \in Nat /\ Len(q) <= Len(s) /\ DOMAIN s = 1..Len(s)
            /\ \A i \in DOMAIN q : s[i] = q[i]
        BY <2>4, <4>4, <3>3
      <4>6. \A i \in DOMAIN s : s[i].finished => i = Len(s)
        BY <2>5, <4>4 DEF Flow, NormalEnds
      <4>7. \A i \in 1..Len(p) : i \in DOMAIN s /\ i \in DOMAIN q /\ i # Len(s)
        <5>1. Len(p) < Len(s) /\ Len(p) \in Nat /\ Len(q) \in Nat /\ Len(p) <= Len(q)
          BY <3>3, <4>3, <4>5
        <5>2. DOMAIN q = 1..Len(q) /\ DOMAIN s = 1..Len(s) /\ Len(s) \in Nat
          BY <3>3, <4>5
        <5>3. PICK l \in Nat, m \in Nat, n \in Nat : l = Len(p) /\ m = Len(q) /\ n = Len(s)
          BY <5>1, <5>2
        <5>4. l < n /\ l <= m /\ DOMAIN q = 1..m /\ DOMAIN s = 1..n
          BY <4>5, <5>1, <5>2, <5>3
        <5>5. \A i \in 1..l : i \in 1..n /\ i \in 1..m /\ i # n
          BY <5>4
        <5> QED
          BY <5>3, <5>4, <5>5
      <4>8. \A i \in 1..Len(p) : ~ q[i].finished
        BY <4>5, <4>6, <4>7
      <4> QED
        BY <3>2, <3>3, <4>3, <4>8
    <3> QED
      BY <3>4, <3>5
  <2> QED
    BY <2>2, <2>4, <2>5
<1>20. Handled'
  BY <1>2, <1>19 DEF Handled
<1> QED
  BY <1>11, <1>12, <1>13, <1>14, <1>16, <1>17, <1>18, <1>20 DEF Flow

\* What a batch does: each request of S gets a reply, in the list of its replies and
\* behind the batches for the detokenizer.
LEMMA BatchReplies ==
  ASSUME args \in Args, Contents, NEW S \in SUBSET User, ReplyBatch(S)
  PROVE  \E f \in FreeToAnswer(S) : \E e \in [User -> Seq(Reply)] : \E batch \in Seq(Reply) :
           /\ running' = StillRunning(S, f)
           /\ to_detokenizer' = Append(to_detokenizer, batch)
           /\ issued' = [v \in User |-> issued[v] \o e[v]]
           /\ \A v \in User : Of(batch, v) = e[v]
           /\ \A v \in User : v \notin S => e[v] = << >>
           /\ \A v \in S : \E r \in Reply : e[v] = << r >> /\ r.finished = f[v]
<1> DEFINE reply(g, v) == [uid |-> v, n |-> Len(issued[v]) + 1, finished |-> g[v]]
<1>1. PICK f \in FreeToAnswer(S) : \E order \in {s \in [1..Cardinality(S) -> S] : IsInjective(s)} :
        /\ issued' = [v \in User |-> IF v \in S THEN Append(issued[v], reply(f, v)) ELSE issued[v]]
        /\ to_detokenizer' = Append(to_detokenizer, [i \in DOMAIN order |-> reply(f, order[i])])
        /\ running' = StillRunning(S, f)
  BY DEF ReplyBatch
<1>2. PICK order \in [1..Cardinality(S) -> S] :
        /\ IsInjective(order)
        /\ issued' = [v \in User |-> IF v \in S THEN Append(issued[v], reply(f, v)) ELSE issued[v]]
        /\ to_detokenizer' = Append(to_detokenizer, [i \in DOMAIN order |-> reply(f, order[i])])
        /\ running' = StillRunning(S, f)
  BY <1>1
<1>3. \A v \in S : reply(f, v) \in Reply
  <2>1. \A v \in S : Len(issued[v]) < args.replies
    BY DEF ReplyBatch
  <2> QED
    BY <2>1, BatchReply
<1>4. \A v \in S : reply(f, v).uid = v /\ reply(f, v).finished = f[v]
  OBVIOUS
<1> HIDE DEF reply
<1>5. PICK r : r = [v \in S |-> reply(f, v)]
  OBVIOUS
<1>6. r \in [S -> Reply] /\ \A v \in S : r[v] = reply(f, v)
  BY <1>3, <1>5
<1>7. \A v \in S : r[v].uid = v
  BY <1>4, <1>6
<1>8. PICK batch : batch = [i \in DOMAIN order |-> r[order[i]]]
  OBVIOUS
<1>9. batch = [i \in DOMAIN order |-> reply(f, order[i])]
  BY <1>6, <1>8
<1>10. /\ batch \in Seq(Reply)
       /\ \A v \in S : Of(batch, v) = << r[v] >>
       /\ \A v \in User : v \notin S => Of(batch, v) = << >>
  <2>1. IsInjective(order)
    BY <1>2
  <2>2. Cardinality(S) \in Nat
    <3>1. IsFiniteSet(User)
      BY FrontendAssumption, FS_Interval DEF User
    <3> QED
      BY <3>1, FS_Subset, FS_CardinalityType
  <2>3. /\ batch \in Seq(Reply) /\ DOMAIN batch = 1..Cardinality(S)
        /\ \A i \in DOMAIN batch : batch[i] = r[order[i]]
    BY <1>6, <1>8, <2>2
  <2>4. \A v \in S : Of(batch, v) = << r[v] >>
    BY <1>6, <1>7, <2>1, <2>3, BatchOf
  <2>5. ASSUME NEW v \in User, v \notin S PROVE Of(batch, v) = << >>
    <3>1. \A i \in DOMAIN batch : batch[i].uid # v
      <4> TAKE i \in DOMAIN batch
      <4>1. order[i] \in S
        BY <2>3
      <4> QED
        BY <1>7, <2>3, <2>5, <4>1
    <3> QED
      BY <2>3, <3>1, OfNone
  <2> QED
    BY <2>3, <2>4, <2>5
<1>11. \A v \in S : Append(issued[v], reply(f, v)) = issued[v] \o << reply(f, v) >>
  <2>1. \A v \in S : issued[v] \in Seq(Reply)
    BY DEF Contents
  <2> QED
    BY <1>3, <2>1, AppendIsConcat
<1>12. \A v \in User : issued[v] \o << >> = issued[v]
  <2>1. \A v \in User : issued[v] \in Seq(Reply)
    BY DEF Contents
  <2> QED
    BY <2>1, ConcatEmptySeq
<1>14. \A v \in User : Of(batch, v) = IF v \in S THEN << reply(f, v) >> ELSE << >>
  BY <1>6, <1>10
<1>15. to_detokenizer' = Append(to_detokenizer, batch)
  BY <1>2, <1>9
<1>16. issued' = [v \in User |-> IF v \in S THEN Append(issued[v], reply(f, v)) ELSE issued[v]]
  BY <1>2
<1>17. PICK e : e = [v \in User |-> IF v \in S THEN << reply(f, v) >> ELSE << >>]
  OBVIOUS
<1>18. \A v \in User : e[v] = IF v \in S THEN << reply(f, v) >> ELSE << >>
  BY <1>17
<1>19. e \in [User -> Seq(Reply)]
  <2>1. \A v \in User : (IF v \in S THEN << reply(f, v) >> ELSE << >>) \in Seq(Reply)
    BY <1>3
  <2> QED
    BY <1>17, <2>1
<1>20. issued' = [v \in User |-> issued[v] \o e[v]]
  <2>1. \A v \in User : (IF v \in S THEN Append(issued[v], reply(f, v)) ELSE issued[v])
                          = issued[v] \o e[v]
    BY <1>11, <1>12, <1>18
  <2> QED
    BY <1>16, <2>1
<1>21. \A v \in User : Of(batch, v) = e[v]
  BY <1>14, <1>18
<1>22. \A v \in User : v \notin S => e[v] = << >>
  BY <1>18
<1>23. \A v \in S : \E z \in Reply : e[v] = << z >> /\ z.finished = f[v]
  BY <1>3, <1>4, <1>18
<1> QED
  BY <1>2, <1>10, <1>15, <1>19, <1>20, <1>21, <1>22, <1>23

LEMMA ReplyBatchFlow ==
  ASSUME IInv, Flow, args \in Args, NEW S \in SUBSET User, ReplyBatch(S)
  PROVE  Flow'
<1>0. Contents
  BY DEF Flow
<1>1. PICK f \in FreeToAnswer(S), e \in [User -> Seq(Reply)], batch \in Seq(Reply) :
        /\ running' = StillRunning(S, f)
        /\ to_detokenizer' = Append(to_detokenizer, batch)
        /\ issued' = [v \in User |-> issued[v] \o e[v]]
        /\ \A v \in User : Of(batch, v) = e[v]
        /\ \A v \in User : v \notin S => e[v] = << >>
        /\ \A v \in S : \E r \in Reply : e[v] = << r >> /\ r.finished = f[v]
  BY <1>0, BatchReplies
<1>2. /\ UNCHANGED << to_tokenizer, to_backend, inbox, connected, got, decode_map >>
      /\ UNCHANGED << task, held, aborting, args, ack_map >>
      /\ S \subseteq running \cup late
  BY DEF ReplyBatch, tasks, world, manager
<1>3. /\ running' \subseteq running /\ late' \subseteq late \cup running
      /\ ~ args.overlap => late' \subseteq late
      /\ \A v \in S \cap running : v \in running' => ~ f[v]
      /\ \A v \in running : v \notin running' => v \in S /\ f[v]
  <2>1. \E again \in SUBSET {u \in S \cap running : args.overlap /\ \E g \in FreeToAnswer(S) : g[u]} :
          late' = (late \ S) \cup again
    BY DEF ReplyBatch
  <2>2. late' \subseteq late \cup running /\ (~ args.overlap => late' \subseteq late)
    BY <2>1
  <2> QED
    BY <1>1, <2>2 DEF StillRunning
<1>4. ASSUME NEW v \in User
      PROVE  /\ issued[v] \in Seq(Reply) /\ e[v] \in Seq(Reply)
             /\ issued'[v] = issued[v] \o e[v] /\ issued'[v] \in Seq(Reply)
             /\ v \notin S => issued'[v] = issued[v]
             /\ v \in S => v \in running \cup late
  <2>1. issued[v] \in Seq(Reply) /\ issued'[v] = issued[v] \o e[v]
    BY <1>0, <1>1 DEF Contents
  <2>2. issued[v] \o << >> = issued[v]
    BY <2>1, ConcatEmptySeq
  <2>3. issued[v] \o e[v] \in Seq(Reply)
    BY <2>1, ConcatProperties
  <2> QED
    BY <1>1, <1>2, <2>1, <2>2, <2>3
<1>5. Contents'
  <2>1. Append(to_detokenizer, batch) \in Seq(Seq(Reply))
    BY <1>0 DEF Contents
  <2>2. issued' \in [User -> Seq(Reply)]
    BY <1>1, <1>4
  <2> QED
    BY <1>0, <1>1, <1>2, <1>3, <2>1, <2>2 DEF Contents
<1>6. \A v \in User : Queued(v)' = Queued(v) /\ Undetokenized(v)' = Undetokenized(v) \o e[v]
  <2>1. \A v \in User : Of(FlattenSeq(Append(to_detokenizer, batch)), v)
                          = Of(FlattenSeq(to_detokenizer), v) \o Of(batch, v)
    BY <1>0, OfAppended DEF Contents
  <2> QED
    BY <1>1, <1>2, <2>1 DEF Queued, Undetokenized
<1>7. \A v \in User : Untold(v) => v \notin S
  BY <1>2 DEF Flow, AskedFor
<1>8. AskedFor'
  <2>1. \A m : (OnItsWay(m)' <=> OnItsWay(m)) /\ (Once(m)' <=> Once(m))
    BY <1>2, WaySame
  <2>2. \A v \in User : Untold(v)' <=> Untold(v)
    BY <1>2 DEF Untold
  <2>3. ASSUME NEW v \in User
        PROVE  /\ Once(Asks(v))'
               /\ OnItsWay(Asks(v))' => issued'[v] = << >> /\ v \notin running' \cup late'
               /\ Untold(v)' => /\ ~ OnItsWay(Asks(v))' /\ v \notin running' \cup late'
                                /\ issued'[v] = << >>
               /\ OnItsWay(AbortMessage(v))' => aborting'[v] = "sent"
               /\ task'[v] = "cancelled" => aborting'[v] # "no"
               /\ task'[v] = "none" => v \in connected'
    <3>1. /\ Once(Asks(v))
          /\ OnItsWay(Asks(v)) => issued[v] = << >> /\ v \notin running \cup late
          /\ Untold(v) => /\ ~ OnItsWay(Asks(v)) /\ v \notin running \cup late
                          /\ issued[v] = << >>
          /\ OnItsWay(AbortMessage(v)) => aborting[v] = "sent"
          /\ task[v] = "cancelled" => aborting[v] # "no"
          /\ task[v] = "none" => v \in connected
      BY DEF Flow, AskedFor
    <3> QED
      BY <1>2, <1>3, <1>4, <2>1, <2>2, <3>1
  <2> QED
    BY <2>3 DEF AskedFor
<1>9. HeldNow'
  BY <1>2, HeldSame DEF Flow
<1>10. Nothing'
  <2>1. ASSUME NEW v \in User, task[v] = "none"
        PROVE  got[v] = << >> /\ Queued(v)' = << >> /\ Undetokenized(v)' = << >>
    <3>1. got[v] = << >> /\ Queued(v) = << >> /\ Undetokenized(v) = << >> /\ e[v] = << >>
      BY <1>1, <1>7, <2>1 DEF Flow, Nothing, Untold
    <3>2. << >> \o << >> = << >>
      OBVIOUS
    <3> QED
      BY <1>6, <3>1, <3>2
  <2> QED
    BY <1>2, <2>1 DEF Nothing
<1>11. ASSUME NEW v \in User, Streaming(v)' PROVE Stream(v)' = issued'[v]
  <2>1. Streaming(v) /\ v \in DOMAIN ack_map
    BY <1>2, <1>11 DEF Streaming, IInv, MapsTogether
  <2>2. Stream(v) = issued[v]
    BY <2>1, StreamIs DEF Flow
  <2>3. PICK x \in Seq(Reply), a \in Seq(Reply), b \in Seq(Reply) :
          /\ x = got[v] \o held[v] \o ack_map[v] \o Queued(v) /\ a = Undetokenized(v)
          /\ b = e[v]
    <3>1. got[v] \o held[v] \in Seq(Reply)
      BY <1>0, StreamTypes, ConcatProperties
    <3>2. got[v] \o held[v] \o ack_map[v] \in Seq(Reply)
      BY <1>0, <2>1, <3>1, StreamTypes, ConcatProperties
    <3>3. got[v] \o held[v] \o ack_map[v] \o Queued(v) \in Seq(Reply)
      BY <1>0, <3>2, StreamTypes, ConcatProperties
    <3> QED
      BY <1>0, <3>3, StreamTypes
  <2>4. Stream(v)' = x \o (a \o b)
    BY <1>2, <1>6, <2>1, <2>3 DEF Stream
  <2>5. Stream(v) = x \o a
    BY <2>3 DEF Stream
  <2>6. x \o (a \o b) = (x \o a) \o b
    BY RepliesAssociate
  <2> QED
    BY <1>4, <2>2, <2>3, <2>4, <2>5, <2>6
<1>12. RepliesInOrder'
  BY <1>11, StreamNext
<1>13. ASSUME NEW v \in S
       PROVE  /\ Len(issued'[v]) = Len(issued[v]) + 1 /\ Len(issued[v]) \in Nat
              /\ issued'[v][Len(issued[v]) + 1].finished = f[v]
              /\ DOMAIN issued[v] = 1..Len(issued[v])
              /\ DOMAIN issued'[v] = 1..(Len(issued[v]) + 1)
              /\ \A i \in 1..Len(issued[v]) : issued'[v][i] = issued[v][i]
  <2>1. PICK r \in Reply : e[v] = << r >> /\ r.finished = f[v]
    BY <1>1
  <2>2. PICK s \in Seq(Reply) : s = issued[v]
    BY <1>4
  <2>3. issued'[v] = Append(s, r)
    <3>1. issued'[v] = s \o << r >>
      BY <1>4, <2>1, <2>2
    <3> QED
      BY <3>1, AppendIsConcat
  <2>4. /\ Append(s, r) \in Seq(Reply) /\ Len(s) \in Nat /\ DOMAIN s = 1..Len(s)
        /\ DOMAIN Append(s, r) = 1..(Len(s) + 1) /\ Append(s, r)[Len(s) + 1] = r
        /\ \A k \in 1..Len(s) : Append(s, r)[k] = s[k]
    BY AppendPlaces
  <2>5. Len(Append(s, r)) = Len(s) + 1
    OBVIOUS
  <2> QED
    BY <2>1, <2>2, <2>3, <2>4, <2>5
<1>14. ASSUME NEW u \in User
       PROVE  /\ u \in running' => \A i \in DOMAIN issued'[u] : ~ issued'[u][i].finished
              /\ task'[u] \in {"ending", "done"} => \E i \in DOMAIN issued'[u] : issued'[u][i].finished
  <2>1. /\ u \in running => \A i \in DOMAIN issued[u] : ~ issued[u][i].finished
        /\ task[u] \in {"ending", "done"} => \E i \in DOMAIN issued[u] : issued[u][i].finished
    BY DEF Flow, Ends
  <2>2. CASE u \notin S
    BY <1>2, <1>3, <1>4, <2>1, <2>2
  <2>3. CASE u \in S
    <3>1. ASSUME u \in running' PROVE \A i \in DOMAIN issued'[u] : ~ issued'[u][i].finished
      <4>1. ~ f[u] /\ \A i \in DOMAIN issued[u] : ~ issued[u][i].finished
        BY <1>3, <2>1, <2>3, <3>1
      <4>2. \A i \in 1..(Len(issued[u]) + 1) : i \in 1..Len(issued[u]) \/ i = Len(issued[u]) + 1
        BY <1>13, <2>3
      <4> QED
        BY <1>13, <2>3, <4>1, <4>2
    <3>2. ASSUME task'[u] \in {"ending", "done"}
          PROVE  \E i \in DOMAIN issued'[u] : issued'[u][i].finished
      <4>1. PICK i \in DOMAIN issued[u] : issued[u][i].finished
        BY <1>2, <2>1, <3>2
      <4>2. i \in DOMAIN issued'[u]
        BY <1>13, <2>3
      <4> QED
        BY <1>13, <2>3, <4>1, <4>2
    <3> QED
      BY <3>1, <3>2
  <2> QED
    BY <2>2, <2>3
<1>15. Ends'
  BY <1>14 DEF Ends
<1>16. NormalEnds'
  <2> SUFFICES ASSUME ~ args.overlap
               PROVE  /\ late' = {}
                      /\ \A u \in User :
                           /\ \A i \in DOMAIN issued'[u] :
                                issued'[u][i].finished => i = Len(issued'[u])
                           /\ aborting'[u] = "no" /\ u \notin running' /\ issued'[u] # << >> =>
                                issued'[u][Len(issued'[u])].finished
    BY <1>2 DEF NormalEnds
  <2>1. late = {} /\ late' = {}
    BY <1>3 DEF Flow, NormalEnds
  <2>2. ASSUME NEW u \in User
        PROVE  /\ \A i \in DOMAIN issued'[u] : issued'[u][i].finished => i = Len(issued'[u])
               /\ aborting'[u] = "no" /\ u \notin running' /\ issued'[u] # << >> =>
                    issued'[u][Len(issued'[u])].finished
    <3>1. CASE u \notin S
      <4>1. issued'[u] = issued[u] /\ (u \notin running' => u \notin running)
        BY <1>3, <1>4, <3>1
      <4> QED
        BY <1>2, <4>1 DEF Flow, NormalEnds
    <3>2. CASE u \in S
      <4>1. u \in running /\ \A i \in DOMAIN issued[u] : ~ issued[u][i].finished
        BY <1>2, <2>1, <3>2 DEF Flow, Ends
      <4>2. \A i \in 1..(Len(issued[u]) + 1) : i \in 1..Len(issued[u]) \/ i = Len(issued[u]) + 1
        BY <1>13, <3>2
      <4>3. \A i \in DOMAIN issued'[u] : issued'[u][i].finished => i = Len(issued'[u])
        BY <1>13, <3>2, <4>1, <4>2
      <4>4. u \notin running' => f[u]
        BY <1>3, <4>1
      <4> QED
        BY <1>13, <3>2, <4>3, <4>4
    <3> QED
      BY <3>1, <3>2
  <2> QED
    BY <2>1, <2>2
<1>17. ASSUME NEW u \in User
       PROVE  \E p \in Seq(Reply) :
                /\ issued'[u] = p \o Undetokenized(u)'
                /\ ~ args.overlap /\ u \in decode_map =>
                     p # << >> /\ \A i \in DOMAIN p : ~ p[i].finished
  <2>1. PICK p \in Seq(Reply) :
          /\ issued[u] = p \o Undetokenized(u)
          /\ ~ args.overlap /\ u \in decode_map =>
               p # << >> /\ \A i \in DOMAIN p : ~ p[i].finished
    BY DEF Flow, Handled
  <2>2. PICK a \in Seq(Reply), b \in Seq(Reply) : a = Undetokenized(u) /\ b = e[u]
    BY <1>0, StreamTypes
  <2>3. p \o (a \o b) = (p \o a) \o b
    BY RepliesAssociate
  <2>4. issued'[u] = p \o Undetokenized(u)'
    BY <1>4, <1>6, <2>1, <2>2, <2>3
  <2> QED
    BY <2>1, <2>4
<1>18. Handled'
  BY <1>2, <1>17 DEF Handled
<1> QED
  BY <1>5, <1>8, <1>9, <1>10, <1>12, <1>15, <1>16, <1>18 DEF Flow

-----------------------------------------------------------------------------
(* The steps that move messages from pipe to pipe. *)

\* A message the scheduler takes was in the first batch; the others move up.
LEMMA ReceivePlaces ==
  ASSUME Contents, NEW t \in Tokenizer, Receive(t)
  PROVE  /\ \A x : \A s \in Tokenizer : \A i, j \in Nat :
              At(x, s, i, j)' <=> IF s = t /\ j # 0 THEN i # 0 /\ At(x, t, i + 1, j)
                                                    ELSE At(x, s, i, j)
         /\ \A u \in User : u \in Uids(Kind(Head(to_backend[t]), "tokenize"))
                              <=> \E j \in Nat : j # 0 /\ At(Asks(u), t, 1, j)
         /\ \A u \in User : u \in Uids(Kind(Head(to_backend[t]), "abort"))
                              <=> \E j \in Nat : j # 0 /\ At(AbortMessage(u), t, 1, j)
<1>1. PICK q \in Seq(Seq(Message)) : q = to_backend[t]
  BY DEF Contents
<1>2. q # << >>
  BY <1>1 DEF Receive
<1>3. UNCHANGED to_tokenizer
  BY DEF Receive, frontend, links
<1>4. to_backend' = [to_backend EXCEPT ![t] = Tail(q)]
  BY <1>1 DEF Receive
<1>5. \A s \in Tokenizer : to_backend'[s] = IF s = t THEN Tail(q) ELSE to_backend[s]
  BY <1>4 DEF Contents
<1>6. /\ Len(q) \in Nat /\ DOMAIN q = 1..Len(q) /\ Len(q) # 0
      /\ DOMAIN Tail(q) = 1..(Len(q) - 1) /\ Tail(q) \in Seq(Seq(Message))
      /\ \A i \in 1..(Len(q) - 1) : Tail(q)[i] = q[i + 1]
      /\ Head(q) = q[1] /\ q[1] \in Seq(Message)
  BY <1>2
<1>7. ASSUME NEW x, NEW s \in Tokenizer, NEW i \in Nat, NEW j \in Nat
      PROVE  At(x, s, i, j)' <=> IF s = t /\ j # 0 THEN i # 0 /\ At(x, t, i + 1, j)
                                                   ELSE At(x, s, i, j)
  <2>1. CASE j = 0
    BY <1>3, <2>1 DEF At
  <2>2. CASE s # t
    BY <1>3, <1>5, <2>2 DEF At
  <2>3. CASE s = t /\ j # 0
    <3>1. At(x, s, i, j)' <=> /\ i \in DOMAIN Tail(q) /\ j \in DOMAIN Tail(q)[i]
                              /\ Tail(q)[i][j] = x
      BY <1>5, <2>3 DEF At
    <3>2. At(x, t, i + 1, j) <=> /\ i + 1 \in DOMAIN q /\ j \in DOMAIN q[i + 1]
                                 /\ q[i + 1][j] = x
      BY <1>1, <2>3 DEF At
    <3>3. i \in DOMAIN Tail(q) <=> i # 0 /\ i + 1 \in DOMAIN q
      BY <1>6
    <3>4. i \in DOMAIN Tail(q) => Tail(q)[i] = q[i + 1]
      BY <1>6
    <3> QED
      BY <2>3, <3>1, <3>2, <3>3, <3>4
  <2> QED
    BY <2>1, <2>2, <2>3
<1>8. ASSUME NEW x
      PROVE  (\E j \in DOMAIN q[1] : q[1][j] = x) <=> \E j \in Nat : j # 0 /\ At(x, t, 1, j)
  <2>1. \A j \in DOMAIN q[1] : j \in Nat /\ j # 0
    BY <1>6
  <2>2. 1 \in DOMAIN q
    BY <1>6
  <2> QED
    BY <1>1, <2>1, <2>2 DEF At
<1>9. \A u \in User : u \in Uids(Kind(q[1], "tokenize")) <=> \E j \in DOMAIN q[1] : q[1][j] = Asks(u)
  BY <1>6, KindUids DEF Asks
<1>10. \A u \in User :
         u \in Uids(Kind(q[1], "abort")) <=> \E j \in DOMAIN q[1] : q[1][j] = AbortMessage(u)
  BY <1>6, KindUids DEF AbortMessage
<1>11. Head(to_backend[t]) = q[1]
  BY <1>1, <1>6
<1> QED
  BY <1>7, <1>8, <1>9, <1>10, <1>11

\* So a message on its way stays there, or was in that batch.
LEMMA ReceiveWay ==
  ASSUME Contents, NEW t \in Tokenizer, Receive(t), NEW x
  PROVE  /\ OnItsWay(x)' => OnItsWay(x)
         /\ OnItsWay(x) => OnItsWay(x)' \/ \E j \in Nat : j # 0 /\ At(x, t, 1, j)
         /\ Once(x) => Once(x)'
         /\ Once(x) /\ (\E j \in Nat : j # 0 /\ At(x, t, 1, j)) => ~ OnItsWay(x)'
<1>1. \A s \in Tokenizer : \A i, j \in Nat :
        At(x, s, i, j)' <=> IF s = t /\ j # 0 THEN i # 0 /\ At(x, t, i + 1, j)
                                              ELSE At(x, s, i, j)
  BY ReceivePlaces
<1>2. \A i \in Nat : i + 1 \in Nat
  OBVIOUS
<1>3. OnItsWay(x)' => OnItsWay(x)
  BY <1>1, <1>2 DEF OnItsWay
<1>4. ASSUME OnItsWay(x) PROVE OnItsWay(x)' \/ \E j \in Nat : j # 0 /\ At(x, t, 1, j)
  <2>1. PICK s \in Tokenizer, i \in Nat, j \in Nat : At(x, s, i, j)
    BY <1>4 DEF OnItsWay
  <2>2. CASE s = t /\ j # 0 /\ i # 1
    <3>1. i # 0
      <4>1. to_backend[t] \in Seq(Seq(Message))
        BY DEF Contents
      <4>2. i \in DOMAIN to_backend[t]
        BY <2>1, <2>2 DEF At
      <4> QED
        BY <4>1, <4>2
    <3>2. PICK k \in Nat : k # 0 /\ i = k + 1
      <4>1. i - 1 \in Nat /\ i - 1 # 0 /\ i = (i - 1) + 1
        BY <2>2, <3>1
      <4> QED
        BY <4>1
    <3>3. At(x, t, k, j)'
      BY <1>1, <2>1, <2>2, <3>2
    <3> QED
      BY <3>3 DEF OnItsWay
  <2>3. CASE s # t \/ j = 0
    <3>1. At(x, s, i, j)'
      BY <1>1, <2>1, <2>3
    <3> QED
      BY <3>1 DEF OnItsWay
  <2>4. CASE s = t /\ j # 0 /\ i = 1
    BY <2>1, <2>4
  <2> QED
    BY <2>2, <2>3, <2>4
<1>5. ASSUME Once(x) PROVE Once(x)'
  <2>1. ASSUME NEW r \in Tokenizer, NEW s \in Tokenizer, NEW i \in Nat, NEW j \in Nat,
               NEW k \in Nat, NEW l \in Nat, At(x, r, i, j)', At(x, s, k, l)'
        PROVE  r = s /\ i = k /\ j = l
    <3>1. PICK m \in Nat : At(x, r, m, j) /\ m = IF r = t /\ j # 0 THEN i + 1 ELSE i
      BY <1>1, <2>1
    <3>2. PICK n \in Nat : At(x, s, n, l) /\ n = IF s = t /\ l # 0 THEN k + 1 ELSE k
      BY <1>1, <2>1
    <3>3. r = s /\ m = n /\ j = l
      BY <1>5, <3>1, <3>2 DEF Once
    <3> QED
      BY <3>1, <3>2, <3>3
  <2> QED
    BY <2>1 DEF Once
<1>6. ASSUME Once(x), NEW l \in Nat, l # 0, At(x, t, 1, l) PROVE ~ OnItsWay(x)'
  <2>1. ASSUME NEW s \in Tokenizer, NEW i \in Nat, NEW j \in Nat, At(x, s, i, j)' PROVE FALSE
    <3>1. PICK m \in Nat : At(x, s, m, j) /\ m = IF s = t /\ j # 0 THEN i + 1 ELSE i
      BY <1>1, <2>1
    <3>2. s = t /\ m = 1 /\ j = l
      BY <1>6, <3>1 DEF Once
    <3>3. i # 0
      BY <1>1, <1>6, <2>1, <3>2
    <3> QED
      BY <1>6, <3>1, <3>2, <3>3
  <2> QED
    BY <2>1 DEF OnItsWay
<1> QED
  BY <1>3, <1>4, <1>5, <1>6

LEMMA ReceiveFlow ==
  ASSUME IInv, Flow, args \in Args, NEW t \in Tokenizer, Receive(t)
  PROVE  Flow'
<1>0. Contents
  BY DEF Flow
<1>1. /\ UNCHANGED << to_tokenizer, inbox, connected, got, decode_map, issued, to_detokenizer >>
      /\ UNCHANGED << task, held, aborting, args, ack_map >>
      /\ to_backend' = [to_backend EXCEPT ![t] = Tail(@)] /\ to_backend[t] # << >>
  BY DEF Receive, frontend, tasks, world, manager, links
<1>2. PICK new \in SUBSET User, aborts \in SUBSET User :
        /\ running' = (running \cup new) \ aborts
        /\ late' \subseteq late \cup running /\ (~ args.overlap => late' = late)
        /\ new \subseteq Uids(Kind(Head(to_backend[t]), "tokenize"))
        /\ aborts = Uids(Kind(Head(to_backend[t]), "abort"))
  <2>1. Head(to_backend[t]) \in Seq(Message)
    BY <1>0, <1>1 DEF Contents
  <2>2. \A k : Uids(Kind(Head(to_backend[t]), k)) \subseteq User
    BY <2>1, KindType, UidsType
  <2>3. PICK flying \in SUBSET {u \in Uids(Kind(Head(to_backend[t]), "abort")) \cap running :
                                  args.overlap} : late' = late \cup flying
    BY DEF Receive
  <2>4. late' \subseteq late \cup running /\ (~ args.overlap => late' = late)
    BY <2>3
  <2> QED
    BY <2>2, <2>4 DEF Receive
<1>3. \A u \in new : u \in User /\ \E j \in Nat : j # 0 /\ At(Asks(u), t, 1, j)
  BY <1>0, <1>2, ReceivePlaces
<1>4. \A u \in aborts : u \in User /\ \E j \in Nat : j # 0 /\ At(AbortMessage(u), t, 1, j)
  BY <1>0, <1>2, ReceivePlaces
<1>5. 1 \in Nat
  OBVIOUS
<1>6. \A u \in new : OnItsWay(Asks(u)) /\ issued[u] = << >> /\ ~ Untold(u) /\ ~ OnItsWay(Asks(u))'
  <2>1. \A u \in new : OnItsWay(Asks(u)) /\ Once(Asks(u))
    BY <1>3, <1>5 DEF OnItsWay, Flow, AskedFor
  <2>2. \A u \in new : ~ OnItsWay(Asks(u))'
    BY <1>0, <1>3, <2>1, ReceiveWay
  <2> QED
    BY <1>3, <2>1, <2>2 DEF Flow, AskedFor
<1>7. \A u \in aborts : aborting[u] = "sent"
  <2>1. \A u \in aborts : OnItsWay(AbortMessage(u))
    BY <1>4, <1>5 DEF OnItsWay
  <2> QED
    BY <1>4, <2>1 DEF Flow, AskedFor
<1>8. Contents'
  <2>1. Tail(to_backend[t]) \in Seq(Seq(Message))
    BY <1>0, <1>1, HeadTailProperties DEF Contents
  <2>2. to_backend' \in [Tokenizer -> Seq(Seq(Message))]
    BY <1>0, <1>1, <2>1 DEF Contents
  <2> QED
    BY <1>0, <1>1, <1>2, <2>2 DEF Contents
<1>9. AskedFor'
  <2>1. \A x : (OnItsWay(x)' => OnItsWay(x)) /\ (Once(x) => Once(x)')
    BY <1>0, ReceiveWay
  <2>2. \A v \in User : Untold(v)' <=> Untold(v)
    BY <1>1 DEF Untold
  <2>3. ASSUME NEW v \in User
        PROVE  /\ Once(Asks(v))'
               /\ OnItsWay(Asks(v))' => issued'[v] = << >> /\ v \notin running' \cup late'
               /\ Untold(v)' => /\ ~ OnItsWay(Asks(v))' /\ v \notin running' \cup late'
                                /\ issued'[v] = << >>
               /\ OnItsWay(AbortMessage(v))' => aborting'[v] = "sent"
               /\ task'[v] = "cancelled" => aborting'[v] # "no"
               /\ task'[v] = "none" => v \in connected'
    <3>1. /\ Once(Asks(v))
          /\ OnItsWay(Asks(v)) => issued[v] = << >> /\ v \notin running \cup late
          /\ Untold(v) => /\ ~ OnItsWay(Asks(v)) /\ v \notin running \cup late
                          /\ issued[v] = << >>
          /\ OnItsWay(AbortMessage(v)) => aborting[v] = "sent"
          /\ task[v] = "cancelled" => aborting[v] # "no"
          /\ task[v] = "none" => v \in connected
      BY DEF Flow, AskedFor
    <3>2. v \notin running \cup late /\ v \notin new => v \notin running' \cup late'
      BY <1>2
    <3> QED
      BY <1>1, <1>6, <2>1, <2>2, <3>1, <3>2
  <2> QED
    BY <2>3 DEF AskedFor
<1>10. HeldNow'
  BY <1>1, HeldSame DEF Flow
<1>11. RepliesInOrder' /\ Nothing'
  <2>1. \A u \in User : Streaming(u)' => Streaming(u)
    BY <1>1 DEF Streaming
  <2> QED
    BY <1>1, <2>1, OrderSame DEF Flow
<1>12. Ends'
  <2>1. \A u \in User : u \in running' => u \in running \/ u \in new
    BY <1>2
  <2>2. DOMAIN << >> = {}
    OBVIOUS
  <2> QED
    BY <1>1, <1>6, <2>1, <2>2 DEF Flow, Ends
<1>13. NormalEnds'
  <2>1. \A u \in User : aborting[u] = "no" /\ u \notin running' => u \notin running
    BY <1>2, <1>7
  <2> QED
    BY <1>1, <1>2, <2>1 DEF Flow, NormalEnds
<1>14. Handled'
  BY <1>1, HandledSame DEF Flow
<1> QED
  BY <1>8, <1>9, <1>10, <1>11, <1>12, <1>13, <1>14 DEF Flow

\* Where the messages of one kind come from.
LEMMA KindPlaces ==
  ASSUME NEW s \in Seq(Message), NEW k
  PROVE  /\ Kind(s, k) \in Seq(Message)
         /\ \A j \in DOMAIN Kind(s, k) : Kind(s, k)[j].kind = k
         /\ \E f \in [DOMAIN Kind(s, k) -> DOMAIN s] :
              /\ \A j \in DOMAIN Kind(s, k) : Kind(s, k)[j] = s[f[j]]
              /\ \A i, j \in DOMAIN Kind(s, k) : f[i] = f[j] => i = j
              /\ \A l \in DOMAIN s : s[l].kind = k => \E j \in DOMAIN Kind(s, k) : f[j] = l
<1> DEFINE S == {x \in Message : x.kind = k}
           w == Within(s, S)
<1>1. PICK f : Picks(f, s, S)
  BY WithinPlaces
<1>2. /\ f \in [DOMAIN w -> DOMAIN s]
      /\ \A j \in DOMAIN w : w[j] = s[f[j]]
      /\ \A i, j \in DOMAIN w : f[i] = f[j] => i = j
      /\ \A l \in DOMAIN s : s[l] \in S <=> \E j \in DOMAIN w : f[j] = l
  BY <1>1 DEF Picks
<1>3. \A l \in DOMAIN s : s[l] \in S <=> s[l].kind = k
  OBVIOUS
<1>4. Kind(s, k) = w /\ w \in Seq(Message)
  BY KindType DEF Kind
<1>5. \A x \in S : x.kind = k
  OBVIOUS
<1> HIDE DEF w, S
<1>6. \A j \in DOMAIN w : w[j].kind = k
  <2> TAKE j \in DOMAIN w
  <2>1. f[j] \in DOMAIN s /\ s[f[j]] \in S
    BY <1>2
  <2> QED
    BY <1>2, <1>5, <2>1
<1>7. \A l \in DOMAIN s : s[l].kind = k => \E j \in DOMAIN w : f[j] = l
  BY <1>2, <1>3
<1> QED
  BY <1>2, <1>4, <1>6, <1>7

\* The place, among what is forwarded, of the batch of one kind
Slot(s, k) == IF k = "tokenize" \/ Kind(s, "tokenize") = << >> THEN 1 ELSE 2

LEMMA ForwardedPlaces ==
  ASSUME NEW s \in Seq(Message)
  PROVE  /\ Forwarded(s) \in Seq(Seq(Message))
         /\ \A x \in Message : \A i, j \in Nat :
              (i \in DOMAIN Forwarded(s) /\ j \in DOMAIN Forwarded(s)[i] /\ Forwarded(s)[i][j] = x)
                <=> (/\ i = Slot(s, x.kind)
                     /\ j \in DOMAIN Kind(s, x.kind) /\ Kind(s, x.kind)[j] = x)
<1>1. PICK a \in Seq(Message), b \in Seq(Message) : a = Kind(s, "tokenize") /\ b = Kind(s, "abort")
  BY KindType
<1>2. /\ \A j \in DOMAIN a : a[j].kind = "tokenize"
      /\ \A j \in DOMAIN b : b[j].kind = "abort"
  BY <1>1, KindPlaces
<1>3. \A x \in Message : x.kind \in {"tokenize", "abort"}
  BY DEF Message
<1>4. Forwarded(s) = AsBatch(a) \o AsBatch(b)
  BY <1>1 DEF Forwarded
<1>5. PICK fw : fw = Forwarded(s)
  OBVIOUS
<1>6. DOMAIN << >> = {}
  OBVIOUS
<1>7. /\ a = << >> /\ b = << >> => fw = << >>
      /\ a # << >> /\ b = << >> => fw = << a >>
      /\ a = << >> /\ b # << >> => fw = << b >>
      /\ a # << >> /\ b # << >> => /\ DOMAIN fw = {1, 2} /\ fw[1] = a /\ fw[2] = b
                                  /\ fw \in Seq(Seq(Message))
  <2>1. /\ << >> \o << >> = << >> /\ << a >> \o << >> = << a >>
        /\ << >> \o << b >> = << b >> /\ << a >> \o << b >> = Append(<< a >>, b)
    <3>1. << a >> \in Seq(Seq(Message)) /\ << b >> \in Seq(Seq(Message))
          /\ << >> \in Seq(Seq(Message))
      OBVIOUS
    <3>2. << a >> \o << b >> = Append(<< a >>, b)
      BY <3>1, AppendIsConcat
    <3>4. << >> \o << >> = << >> /\ << a >> \o << >> = << a >> /\ << >> \o << b >> = << b >>
      BY <3>1, ConcatEmptySeq
    <3> QED
      BY <3>2, <3>4
  <2>2. /\ AsBatch(a) = IF a = << >> THEN << >> ELSE << a >>
        /\ AsBatch(b) = IF b = << >> THEN << >> ELSE << b >>
    BY DEF AsBatch
  <2>3. a = << >> /\ b = << >> => fw = << >>
    BY <1>4, <1>5, <2>1, <2>2
  <2>4. a # << >> /\ b = << >> => fw = << a >>
    BY <1>4, <1>5, <2>1, <2>2
  <2>5. a = << >> /\ b # << >> => fw = << b >>
    BY <1>4, <1>5, <2>1, <2>2
  <2>6. ASSUME a # << >>, b # << >>
        PROVE  /\ DOMAIN fw = {1, 2} /\ fw[1] = a /\ fw[2] = b
               /\ fw \in Seq(Seq(Message))
    <3>1. fw = Append(<< a >>, b)
      BY <1>4, <1>5, <2>1, <2>2, <2>6
    <3>2. PICK q \in Seq(Seq(Message)) : q = << a >> /\ Len(q) = 1 /\ q[1] = a
      <4>1. << a >> \in Seq(Seq(Message))
        OBVIOUS
      <4>2. Len(<< a >>) = 1 /\ << a >>[1] = a
        OBVIOUS
      <4> QED
        BY <4>1, <4>2
    <3>3. /\ Append(q, b) \in Seq(Seq(Message))
          /\ DOMAIN Append(q, b) = 1..(Len(q) + 1) /\ Append(q, b)[Len(q) + 1] = b
          /\ \A k \in 1..Len(q) : Append(q, b)[k] = q[k]
      BY AppendPlaces
    <3> QED
      BY <3>1, <3>2, <3>3
  <2> QED
    BY <2>3, <2>4, <2>5, <2>6
<1>8. fw \in Seq(Seq(Message))
  <2>1. << >> \in Seq(Seq(Message)) /\ << a >> \in Seq(Seq(Message))
        /\ << b >> \in Seq(Seq(Message))
    OBVIOUS
  <2> QED
    BY <1>7, <2>1
<1>9. ASSUME NEW x \in Message, NEW i \in Nat, NEW j \in Nat
      PROVE  (i \in DOMAIN fw /\ j \in DOMAIN fw[i] /\ fw[i][j] = x)
               <=> (/\ i = Slot(s, x.kind)
                    /\ j \in DOMAIN Kind(s, x.kind) /\ Kind(s, x.kind)[j] = x)
  <2>1. CASE x.kind = "tokenize"
    <3>1. Slot(s, x.kind) = 1 /\ Kind(s, x.kind) = a
      BY <1>1, <2>1 DEF Slot
    <3>2. \A l \in DOMAIN b : b[l] # x
      BY <1>2, <2>1
    <3>3. CASE a = << >> /\ b = << >>
      BY <1>6, <1>7, <3>1, <3>3
    <3>4. CASE a # << >> /\ b = << >>
      <4>1. DOMAIN fw = {1} /\ fw[1] = a
        BY <1>7, <3>4
      <4> QED
        BY <3>1, <4>1
    <3>5. CASE a = << >> /\ b # << >>
      <4>1. DOMAIN fw = {1} /\ fw[1] = b
        BY <1>7, <3>5
      <4> QED
        BY <1>6, <3>1, <3>2, <3>5, <4>1
    <3>6. CASE a # << >> /\ b # << >>
      <4>1. DOMAIN fw = {1, 2} /\ fw[1] = a /\ fw[2] = b
        BY <1>7, <3>6
      <4> QED
        BY <3>1, <3>2, <4>1
    <3> QED
      BY <3>3, <3>4, <3>5, <3>6
  <2>2. CASE x.kind = "abort"
    <3>1. Slot(s, x.kind) = (IF a = << >> THEN 1 ELSE 2) /\ Kind(s, x.kind) = b
      BY <1>1, <2>2 DEF Slot
    <3>2. \A l \in DOMAIN a : a[l] # x
      BY <1>2, <2>2
    <3>3. CASE a = << >> /\ b = << >>
      BY <1>6, <1>7, <3>1, <3>3
    <3>4. CASE a # << >> /\ b = << >>
      <4>1. DOMAIN fw = {1} /\ fw[1] = a
        BY <1>7, <3>4
      <4> QED
        BY <1>6, <3>1, <3>2, <3>4, <4>1
    <3>5. CASE a = << >> /\ b # << >>
      <4>1. DOMAIN fw = {1} /\ fw[1] = b
        BY <1>7, <3>5
      <4> QED
        BY <3>1, <3>5, <4>1
    <3>6. CASE a # << >> /\ b # << >>
      <4>1. DOMAIN fw = {1, 2} /\ fw[1] = a /\ fw[2] = b
        BY <1>7, <3>6
      <4> QED
        BY <3>1, <3>2, <3>6, <4>1
    <3> QED
      BY <3>3, <3>4, <3>5, <3>6
  <2> QED
    BY <1>3, <2>1, <2>2
<1> QED
  BY <1>5, <1>8, <1>9

\* Of the messages like x, worker t takes those among its first n: it puts the one at
\* f[j] at place j of the batch at slot, behind the b batches there are.
Moves(x, t, n, b, slot, f) ==
  /\ n \in Nat /\ b \in Nat /\ slot \in Nat /\ b < slot
  /\ \A j \in DOMAIN f : f[j] \in 1..n
  /\ \A j, l \in DOMAIN f : f[j] = f[l] => j = l
  /\ \A s \in Tokenizer : \A i, j \in Nat :
       At(x, s, i, j)' =>
         \/ s # t /\ At(x, s, i, j)
         \/ s = t /\ j = 0 /\ i # 0 /\ At(x, t, i + n, 0)
         \/ s = t /\ j # 0 /\ i <= b /\ At(x, t, i, j)
         \/ s = t /\ j # 0 /\ i = slot /\ j \in DOMAIN f /\ At(x, t, f[j], 0)
  /\ OnItsWay(x) => OnItsWay(x)'

LEMMA MovesWay ==
  ASSUME NEW x, NEW t \in Tokenizer, NEW n, NEW b, NEW slot, NEW f, Moves(x, t, n, b, slot, f)
  PROVE  (OnItsWay(x)' <=> OnItsWay(x)) /\ (Once(x) => Once(x)')
<1>1. /\ n \in Nat /\ b \in Nat /\ slot \in Nat /\ b < slot
      /\ \A j \in DOMAIN f : f[j] \in 1..n
      /\ \A j, l \in DOMAIN f : f[j] = f[l] => j = l
      /\ \A s \in Tokenizer : \A i, j \in Nat :
           At(x, s, i, j)' =>
             \/ s # t /\ At(x, s, i, j)
             \/ s = t /\ j = 0 /\ i # 0 /\ At(x, t, i + n, 0)
             \/ s = t /\ j # 0 /\ i <= b /\ At(x, t, i, j)
             \/ s = t /\ j # 0 /\ i = slot /\ j \in DOMAIN f /\ At(x, t, f[j], 0)
      /\ OnItsWay(x) => OnItsWay(x)'
  BY DEF Moves
<1>2. \A s \in Tokenizer : \A i, j \in Nat : At(x, s, i, j)' => OnItsWay(x)
  <2>1. \A i \in Nat : i + n \in Nat
    BY <1>1
  <2>2. \A j \in DOMAIN f : f[j] \in Nat
    BY <1>1
  <2>3. 0 \in Nat
    OBVIOUS
  <2> QED
    BY <1>1, <2>1, <2>2, <2>3 DEF OnItsWay
<1>3. ASSUME Once(x), NEW r \in Tokenizer, NEW s \in Tokenizer, NEW i \in Nat, NEW j \in Nat,
             NEW k \in Nat, NEW l \in Nat, At(x, r, i, j)', At(x, s, k, l)'
      PROVE  r = s /\ i = k /\ j = l
  <2>1. PICK p \in Nat, q \in Nat :
          /\ At(x, r, p, q)
          /\ \/ r # t /\ p = i /\ q = j
             \/ r = t /\ j = 0 /\ i # 0 /\ p = i + n /\ q = 0
             \/ r = t /\ j # 0 /\ i <= b /\ p = i /\ q = j
             \/ r = t /\ j # 0 /\ i = slot /\ j \in DOMAIN f /\ p = f[j] /\ q = 0
    BY <1>1, <1>3
  <2>2. PICK v \in Nat, w \in Nat :
          /\ At(x, s, v, w)
          /\ \/ s # t /\ v = k /\ w = l
             \/ s = t /\ l = 0 /\ k # 0 /\ v = k + n /\ w = 0
             \/ s = t /\ l # 0 /\ k <= b /\ v = k /\ w = l
             \/ s = t /\ l # 0 /\ k = slot /\ l \in DOMAIN f /\ v = f[l] /\ w = 0
    BY <1>1, <1>3
  <2>3. r = s /\ p = v /\ q = w
    BY <1>3, <2>1, <2>2 DEF Once
  <2>4. CASE r # t
    BY <2>1, <2>2, <2>3, <2>4
  <2>5. CASE r = t
    BY <1>1, <2>1, <2>2, <2>3, <2>5
  <2> QED
    BY <2>4, <2>5
<1>4. Once(x) => Once(x)'
  BY <1>3 DEF Once
<1>5. OnItsWay(x)' => OnItsWay(x)
  BY <1>2 DEF OnItsWay
<1> QED
  BY <1>1, <1>4, <1>5

\* Worker t takes its first n messages, pre, and sends what it makes of them.
Turn(t, n, pre) ==
  /\ 1 <= n /\ n <= Len(to_tokenizer[t]) /\ pre = SubSeq(to_tokenizer[t], 1, n)
  /\ to_tokenizer' = [to_tokenizer EXCEPT
                        ![t] = SubSeq(to_tokenizer[t], n + 1, Len(to_tokenizer[t]))]
  /\ to_backend' = [to_backend EXCEPT ![t] = to_backend[t] \o Forwarded(pre)]

LEMMA TokenizeKind ==
  ASSUME Shapes, Contents, NEW t \in Tokenizer, NEW n \in Nat, NEW pre, Turn(t, n, pre),
         NEW k \in {"tokenize", "abort"}
  PROVE  \E f : /\ DOMAIN f = DOMAIN Kind(pre, k)
                /\ \A x \in Message : x.kind = k =>
                     Moves(x, t, n, Len(to_backend[t]), Len(to_backend[t]) + Slot(pre, k), f)
<1>1. PICK q \in Seq(Message), B \in Seq(Seq(Message)) : q = to_tokenizer[t] /\ B = to_backend[t]
  BY DEF Shapes, Contents
<1>2. PICK rest \in Seq(Message) : rest = SubSeq(q, n + 1, Len(q))
  BY <1>1, FirstAndRest DEF Turn
<1>3. pre \in Seq(Message)
  BY <1>1, FirstAndRest DEF Turn
<1>0. 1 <= n /\ n <= Len(q)
  BY <1>1 DEF Turn
<1>4. /\ Len(q) \in Nat /\ DOMAIN q = 1..Len(q)
      /\ DOMAIN pre = 1..n /\ \A i \in 1..n : pre[i] = q[i]
      /\ DOMAIN rest = 1..(Len(q) - n) /\ \A i \in DOMAIN rest : rest[i] = q[n + i]
  BY <1>1, <1>2 DEF Turn
<1>5. PICK fw \in Seq(Seq(Message)) : fw = Forwarded(pre)
  BY <1>3, ForwardedPlaces
<1>6. PICK b \in Nat : b = Len(B)
  OBVIOUS
<1>7. PICK C \in Seq(Seq(Message)) : C = B \o fw
  BY ConcatProperties
<1>8. /\ DOMAIN B = 1..b /\ Len(fw) \in Nat /\ DOMAIN fw = 1..Len(fw)
      /\ DOMAIN C = 1..(b + Len(fw))
      /\ \A i \in 1..b : C[i] = B[i]
      /\ \A i \in 1..Len(fw) : C[b + i] = fw[i]
  BY <1>6, <1>7
<1>9. /\ \A s \in Tokenizer : to_tokenizer'[s] = IF s = t THEN rest ELSE to_tokenizer[s]
      /\ \A s \in Tokenizer : to_backend'[s] = IF s = t THEN C ELSE to_backend[s]
  BY <1>1, <1>2, <1>5, <1>7 DEF Shapes, Contents, Turn
<1>10. PICK slot \in {1, 2} : slot = Slot(pre, k)
  BY DEF Slot
<1>11. PICK w \in Seq(Message) : w = Kind(pre, k)
  BY <1>3, KindPlaces
<1>17. PICK f \in [DOMAIN Kind(pre, k) -> DOMAIN pre] :
          /\ \A j \in DOMAIN Kind(pre, k) : Kind(pre, k)[j] = pre[f[j]]
          /\ \A i, j \in DOMAIN Kind(pre, k) : f[i] = f[j] => i = j
          /\ \A l \in DOMAIN pre : pre[l].kind = k => \E j \in DOMAIN Kind(pre, k) : f[j] = l
  BY <1>3, KindPlaces
<1>12. /\ DOMAIN f = DOMAIN w /\ \A j \in DOMAIN w : f[j] \in DOMAIN pre
       /\ \A j \in DOMAIN w : w[j] = pre[f[j]]
       /\ \A i, j \in DOMAIN w : f[i] = f[j] => i = j
       /\ \A l \in DOMAIN pre : pre[l].kind = k => \E j \in DOMAIN w : f[j] = l
  BY <1>11, <1>17
<1>13. \A x \in Message : \A i, j \in Nat : x.kind = k =>
         ((i \in DOMAIN fw /\ j \in DOMAIN fw[i] /\ fw[i][j] = x)
            <=> (i = slot /\ j \in DOMAIN w /\ w[j] = x))
  <2>1. \A x \in Message : \A i, j \in Nat :
          (i \in DOMAIN Forwarded(pre) /\ j \in DOMAIN Forwarded(pre)[i]
             /\ Forwarded(pre)[i][j] = x)
            <=> (/\ i = Slot(pre, x.kind)
                 /\ j \in DOMAIN Kind(pre, x.kind) /\ Kind(pre, x.kind)[j] = x)
    BY <1>3, ForwardedPlaces
  <2>2. ASSUME NEW x \in Message, NEW i \in Nat, NEW j \in Nat, x.kind = k
        PROVE  (i \in DOMAIN fw /\ j \in DOMAIN fw[i] /\ fw[i][j] = x)
                 <=> (i = slot /\ j \in DOMAIN w /\ w[j] = x)
    <3>1. (i \in DOMAIN fw /\ j \in DOMAIN fw[i] /\ fw[i][j] = x)
            <=> (/\ i = Slot(pre, x.kind)
                 /\ j \in DOMAIN Kind(pre, x.kind) /\ Kind(pre, x.kind)[j] = x)
      BY <1>5, <2>1
    <3>2. Slot(pre, x.kind) = slot /\ Kind(pre, x.kind) = w
      BY <1>10, <1>11, <2>2
    <3> QED
      BY <3>1, <3>2
  <2> QED
    BY <2>2
<1>14. ASSUME NEW x \in Message, x.kind = k PROVE Moves(x, t, n, b, b + slot, f)
  <2>1. ASSUME NEW s \in Tokenizer, NEW i \in Nat, NEW j \in Nat, At(x, s, i, j)'
        PROVE  \/ s # t /\ At(x, s, i, j)
               \/ s = t /\ j = 0 /\ i # 0 /\ At(x, t, i + n, 0)
               \/ s = t /\ j # 0 /\ i <= b /\ At(x, t, i, j)
               \/ s = t /\ j # 0 /\ i = b + slot /\ j \in DOMAIN f /\ At(x, t, f[j], 0)
    <3>1. CASE s # t
      BY <1>9, <2>1, <3>1 DEF At
    <3>2. CASE s = t /\ j = 0
      <4>1. i \in DOMAIN rest /\ rest[i] = x
        BY <1>9, <2>1, <3>2 DEF At
      <4>2. i # 0 /\ n + i \in DOMAIN q /\ q[n + i] = x
        <5>1. /\ i \in 1..(Len(q) - n) /\ Len(q) \in Nat /\ n \in Nat
              /\ rest[i] = q[n + i] /\ DOMAIN q = 1..Len(q)
          BY <1>4, <4>1
        <5>2. PICK z \in Nat : z = Len(q)
          BY <5>1
        <5>3. i # 0 /\ n + i \in 1..z
          BY <5>1, <5>2
        <5> QED
          BY <4>1, <5>1, <5>2, <5>3
      <4>4. n + i = i + n
        OBVIOUS
      <4>3. At(x, t, i + n, 0)
        BY <1>1, <4>2, <4>4 DEF At
      <4> QED
        BY <3>2, <4>2, <4>3
    <3>3. CASE s = t /\ j # 0
      <4>1. i \in DOMAIN C /\ j \in DOMAIN C[i] /\ C[i][j] = x
        BY <1>9, <2>1, <3>3 DEF At
      <4>2. CASE i <= b
        <5>1. i \in DOMAIN B /\ C[i] = B[i]
          BY <1>8, <4>1, <4>2
        <5>2. At(x, t, i, j)
          BY <1>1, <3>3, <4>1, <5>1 DEF At
        <5> QED
          BY <3>3, <4>2, <5>2
      <4>3. CASE ~ (i <= b)
        <5>1. PICK l \in Nat : i = b + l /\ l \in DOMAIN fw /\ C[i] = fw[l]
          <6>3. i - b \in Nat
            BY <1>6, <4>3
          <6>1. PICK h \in Nat : h = i - b
            BY <6>3
          <6>2. h \in 1..Len(fw) /\ i = b + h
            BY <1>6, <1>8, <4>1, <4>3, <6>1
          <6>4. C[b + h] = fw[h] /\ h \in DOMAIN fw
            BY <1>8, <6>2
          <6> QED
            BY <6>2, <6>4
        <5>2. l = slot /\ j \in DOMAIN w /\ w[j] = x
          BY <1>13, <1>14, <4>1, <5>1
        <5>3. j \in DOMAIN f /\ f[j] \in 1..n /\ pre[f[j]] = x
          BY <1>4, <1>12, <5>2
        <5>4. f[j] \in DOMAIN q /\ q[f[j]] = x
          BY <1>0, <1>1, <1>4, <5>3
        <5>5. At(x, t, f[j], 0)
          BY <1>1, <5>4 DEF At
        <5> QED
          BY <3>3, <5>1, <5>2, <5>3, <5>5
      <4> QED
        BY <4>2, <4>3
    <3> QED
      BY <3>1, <3>2, <3>3
  <2>2. ASSUME OnItsWay(x) PROVE OnItsWay(x)'
    <3>1. PICK s \in Tokenizer, i \in Nat, j \in Nat : At(x, s, i, j)
      BY <2>2 DEF OnItsWay
    <3>2. CASE s # t
      <4>1. At(x, s, i, j)'
        BY <1>9, <3>1, <3>2 DEF At
      <4> QED
        BY <4>1 DEF OnItsWay
    <3>3. CASE s = t /\ j # 0
      <4>1. i \in DOMAIN B /\ j \in DOMAIN B[i] /\ B[i][j] = x
        BY <1>1, <3>1, <3>3 DEF At
      <4>2. i \in DOMAIN C /\ C[i] = B[i]
        BY <1>8, <4>1
      <4>3. At(x, t, i, j)'
        BY <1>9, <3>3, <4>1, <4>2 DEF At
      <4> QED
        BY <4>3 DEF OnItsWay
    <3>4. CASE s = t /\ j = 0
      <4>1. i \in DOMAIN q /\ q[i] = x
        BY <1>1, <3>1, <3>4 DEF At
      <4>2. CASE i <= n
        <5>1. i \in DOMAIN pre /\ pre[i] = x
          BY <1>4, <4>1, <4>2
        <5>2. PICK m \in DOMAIN w : f[m] = i
          BY <1>12, <1>14, <5>1
        <5>3. m \in Nat /\ m # 0 /\ w[m] = x
          BY <1>12, <5>1, <5>2
        <5>4. slot \in DOMAIN fw /\ m \in DOMAIN fw[slot] /\ fw[slot][m] = x
          BY <1>13, <1>14, <5>3, slot \in Nat
        <5>5. b + slot \in DOMAIN C /\ C[b + slot] = fw[slot] /\ b + slot \in Nat
          BY <1>8, <5>4
        <5>6. At(x, t, b + slot, m)'
          BY <1>9, <5>3, <5>4, <5>5 DEF At
        <5> QED
          BY <5>3, <5>5, <5>6 DEF OnItsWay
      <4>3. CASE ~ (i <= n)
        <5>1. PICK l \in Nat : l = i - n /\ l \in DOMAIN rest
          BY <1>4, <4>1, <4>3
        <5>2. rest[l] = x
          <6>1. n + l = i
            BY <5>1
          <6> QED
            BY <1>4, <4>1, <5>1, <6>1
        <5>3. At(x, t, l, 0)' /\ 0 \in Nat
          BY <1>9, <5>1, <5>2 DEF At
        <5> QED
          BY <5>3 DEF OnItsWay
      <4> QED
        BY <4>2, <4>3
    <3> QED
      BY <3>2, <3>3, <3>4
  <2>3. /\ n \in Nat /\ b \in Nat /\ b + slot \in Nat /\ b < b + slot
        /\ \A j \in DOMAIN f : f[j] \in 1..n
        /\ \A j, l \in DOMAIN f : f[j] = f[l] => j = l
    BY <1>4, <1>12
  <2> QED
    BY <2>1, <2>2, <2>3 DEF Moves
<1>15. DOMAIN f = DOMAIN Kind(pre, k)
  BY <1>11, <1>12
<1>16. \A x \in Message : x.kind = k =>
         Moves(x, t, n, Len(to_backend[t]), Len(to_backend[t]) + Slot(pre, k), f)
  BY <1>1, <1>6, <1>10, <1>14
<1> QED
  BY <1>15, <1>16

\* One turn of a worker on messages of the frontend: the requests among the first n go
\* into a batch, and the aborts into a later one, if there is a request at all.
LEMMA TokenizeMoves ==
  ASSUME Shapes, Contents, args \in Args, NEW t \in Tokenizer, Tokenize(t)
  PROVE  \E n, b, slot, f, g :
           /\ \A u \in User : /\ Moves(Asks(u), t, n, b, b + 1, f)
                              /\ Moves(AbortMessage(u), t, n, b, slot, g)
           /\ DOMAIN f # {} => slot = b + 2
<1>1. PICK n \in 1..args.local_bs :
        /\ n <= Len(to_tokenizer[t])
        /\ to_tokenizer' = [to_tokenizer EXCEPT
                              ![t] = SubSeq(to_tokenizer[t], n + 1, Len(to_tokenizer[t]))]
        /\ to_backend' = [to_backend EXCEPT
                            ![t] = to_backend[t] \o Forwarded(SubSeq(to_tokenizer[t], 1, n))]
  BY DEF Tokenize
<1>2. n \in Nat /\ 1 <= n
  BY ArgsType
<1>3. PICK pre : pre = SubSeq(to_tokenizer[t], 1, n)
  OBVIOUS
<1>4. PICK b : b = Len(to_backend[t])
  OBVIOUS
<1>12. Turn(t, n, pre)
  BY <1>1, <1>2, <1>3 DEF Turn
<1>5. PICK f : /\ DOMAIN f = DOMAIN Kind(pre, "tokenize")
               /\ \A x \in Message : x.kind = "tokenize" =>
                    Moves(x, t, n, b, b + Slot(pre, "tokenize"), f)
  BY <1>2, <1>4, <1>12, TokenizeKind
<1>6. PICK g : \A x \in Message : x.kind = "abort" =>
                 Moves(x, t, n, b, b + Slot(pre, "abort"), g)
  BY <1>2, <1>4, <1>12, TokenizeKind
<1>7. \A u \in User : /\ Asks(u) \in Message /\ Asks(u).kind = "tokenize"
                      /\ AbortMessage(u) \in Message /\ AbortMessage(u).kind = "abort"
  BY DEF Asks, AbortMessage, Message
<1>8. Slot(pre, "tokenize") = 1 /\ (DOMAIN f # {} => Slot(pre, "abort") = 2)
  <2>1. DOMAIN << >> = {}
    OBVIOUS
  <2> QED
    BY <1>5, <2>1 DEF Slot
<1>9. PICK slot : slot = b + Slot(pre, "abort")
  OBVIOUS
<1>10. DOMAIN f # {} => slot = b + 2
  BY <1>8, <1>9
<1>11. \A u \in User : Moves(Asks(u), t, n, b, b + 1, f) /\ Moves(AbortMessage(u), t, n, b, slot, g)
  BY <1>5, <1>6, <1>7, <1>8, <1>9
<1> QED
  BY <1>10, <1>11

LEMMA TokenizeFlow ==
  ASSUME IInv, Flow, args \in Args, NEW t \in Tokenizer, Tokenize(t)
  PROVE  Flow'
<1>0. Contents /\ Shapes
  BY DEF Flow, IInv
<1>1. /\ UNCHANGED << inbox, connected, got, decode_map, issued, to_detokenizer >>
      /\ UNCHANGED << task, held, aborting, args, ack_map, running, late >>
  BY DEF Tokenize, tasks, world, manager
<1>2. PICK n, b, slot, f, g :
        \A u \in User : /\ Moves(Asks(u), t, n, b, b + 1, f)
                        /\ Moves(AbortMessage(u), t, n, b, slot, g)
  BY <1>0, TokenizeMoves
<1>3. \A u \in User :
        /\ (OnItsWay(Asks(u))' <=> OnItsWay(Asks(u))) /\ (Once(Asks(u)) => Once(Asks(u))')
        /\ (OnItsWay(AbortMessage(u))' <=> OnItsWay(AbortMessage(u)))
  BY <1>2, MovesWay
<1>4. Contents'
  <2>1. to_backend' \in [Tokenizer -> Seq(Seq(Message))]
    <3>1. PICK k \in 1..args.local_bs :
            /\ k <= Len(to_tokenizer[t])
            /\ to_backend' = [to_backend EXCEPT
                                ![t] = to_backend[t] \o Forwarded(SubSeq(to_tokenizer[t], 1, k))]
      BY DEF Tokenize
    <3>2. k \in Nat /\ 1 <= k /\ to_tokenizer[t] \in Seq(Message)
      BY <1>0, ArgsType DEF Shapes
    <3>3. SubSeq(to_tokenizer[t], 1, k) \in Seq(Message)
      BY <3>1, <3>2, FirstAndRest
    <3>4. Forwarded(SubSeq(to_tokenizer[t], 1, k)) \in Seq(Seq(Message))
      BY <3>3, ForwardedPlaces
    <3>5. to_backend[t] \o Forwarded(SubSeq(to_tokenizer[t], 1, k)) \in Seq(Seq(Message))
      BY <1>0, <3>4, ConcatProperties DEF Contents
    <3> QED
      BY <1>0, <3>1, <3>5 DEF Contents
  <2> QED
    BY <1>0, <1>1, <2>1 DEF Contents
<1>5. AskedFor'
  <2>1. \A v \in User : Untold(v)' <=> Untold(v)
    BY <1>1 DEF Untold
  <2>2. ASSUME NEW v \in User
        PROVE  /\ Once(Asks(v))'
               /\ OnItsWay(Asks(v))' => issued'[v] = << >> /\ v \notin running' \cup late'
               /\ Untold(v)' => /\ ~ OnItsWay(Asks(v))' /\ v \notin running' \cup late'
                                /\ issued'[v] = << >>
               /\ OnItsWay(AbortMessage(v))' => aborting'[v] = "sent"
               /\ task'[v] = "cancelled" => aborting'[v] # "no"
               /\ task'[v] = "none" => v \in connected'
    <3>1. /\ Once(Asks(v))
          /\ OnItsWay(Asks(v)) => issued[v] = << >> /\ v \notin running \cup late
          /\ Untold(v) => /\ ~ OnItsWay(Asks(v)) /\ v \notin running \cup late
                          /\ issued[v] = << >>
          /\ OnItsWay(AbortMessage(v)) => aborting[v] = "sent"
          /\ task[v] = "cancelled" => aborting[v] # "no"
          /\ task[v] = "none" => v \in connected
      BY DEF Flow, AskedFor
    <3> QED
      BY <1>1, <1>3, <2>1, <3>1
  <2> QED
    BY <2>2 DEF AskedFor
<1>6. HeldNow'
  BY <1>1, HeldSame DEF Flow
<1>7. RepliesInOrder' /\ Nothing'
  <2>1. \A u \in User : Streaming(u)' => Streaming(u)
    BY <1>1 DEF Streaming
  <2> QED
    BY <1>1, <2>1, OrderSame DEF Flow
<1>8. Ends' /\ NormalEnds' /\ Handled'
  BY <1>1, EndsSame, NormalSame, HandledSame DEF Flow
<1> QED
  BY <1>4, <1>5, <1>6, <1>7, <1>8 DEF Flow


-----------------------------------------------------------------------------
(* Flow is an invariant. *)

LEMMA FlowInit == ServingInit => Flow
<1> SUFFICES ASSUME ServingInit PROVE Flow
  OBVIOUS
<1>1. /\ running = {} /\ late = {} /\ decode_map = {} /\ inbox = << >> /\ to_detokenizer = << >>
      /\ ack_map = << >> /\ connected = User
      /\ \A u \in User : /\ got[u] = << >> /\ held[u] = << >> /\ issued[u] = << >>
                         /\ task[u] = "none" /\ aborting[u] = "no"
      /\ \A t \in Tokenizer : to_tokenizer[t] = << >> /\ to_backend[t] = << >>
  BY DEF ServingInit, Init
<1>2. /\ << >> \in Seq(Reply) /\ << >> \in Seq(Seq(Reply)) /\ << >> \in Seq(Seq(Message))
      /\ DOMAIN << >> = {}
  OBVIOUS
<1>3. Contents
  <2>1. /\ got = [u \in User |-> << >>] /\ held = [u \in User |-> << >>]
        /\ issued = [u \in User |-> << >>] /\ to_backend = [t \in Tokenizer |-> << >>]
    BY DEF ServingInit, Init
  <2>2. ack_map \in [DOMAIN ack_map -> Seq(Reply)] /\ DOMAIN ack_map \subseteq User
    BY <1>1, <1>2
  <2> QED
    BY <1>1, <1>2, <2>1, <2>2 DEF Contents
<1>4. \A m : ~ OnItsWay(m) /\ Once(m)
  BY <1>1, <1>2 DEF OnItsWay, Once, At
<1>5. AskedFor
  BY <1>1, <1>4 DEF AskedFor
<1>6. HeldNow
  BY <1>1 DEF HeldNow
<1>7. \A u \in User : Queued(u) = << >> /\ Undetokenized(u) = << >>
  <2>1. \A u \in User : Of(<< >>, u) = << >>
    BY <1>2, OfNone
  <2> QED
    BY <1>1, <2>1, FlattenEmpty DEF Queued, Undetokenized
<1>8. RepliesInOrder /\ Nothing
  BY <1>1, <1>7 DEF RepliesInOrder, Streaming, Nothing
<1>9. Ends /\ NormalEnds
  BY <1>1 DEF Ends, NormalEnds
<1>10. Handled
  <2> SUFFICES ASSUME NEW u \in User
               PROVE  /\ issued[u] = << >> \o Undetokenized(u)
                      /\ u \notin decode_map
    BY <1>2 DEF Handled
  <2>1. << >> \o << >> = << >>
    BY <1>2, ConcatEmptySeq
  <2> QED
    BY <1>1, <1>7, <2>1
<1> QED
  BY <1>3, <1>5, <1>6, <1>8, <1>9, <1>10 DEF Flow

LEMMA FlowSame == ASSUME Flow, UNCHANGED all \/ SchedulerEnds PROVE Flow'
<1>1. /\ UNCHANGED << to_tokenizer, to_backend, inbox, issued, running, late, connected >>
      /\ UNCHANGED << got, held, task, aborting, ack_map, args, to_detokenizer, decode_map >>
  BY DEF SchedulerEnds, all, frontend, backend, manager, tasks, world, links
<1>2. Contents'
  BY <1>1, ContentsSame DEF Flow
<1>3. AskedFor'
  <2>1. \A v \in User : Untold(v)' <=> Untold(v)
    BY <1>1 DEF Untold
  <2>2. \A v \in User : /\ task[v] = "cancelled" => aborting[v] # "no"
                        /\ task[v] = "none" => v \in connected
    BY DEF Flow, AskedFor
  <2>3. AskedFor
    BY DEF Flow
  <2> QED
    BY <1>1, <2>1, <2>2, <2>3, AskedSame
<1>4. HeldNow'
  BY <1>1, HeldSame DEF Flow
<1>5. RepliesInOrder' /\ Nothing'
  <2>1. \A u \in User : Streaming(u)' => Streaming(u)
    BY <1>1 DEF Streaming
  <2> QED
    BY <1>1, <2>1, OrderSame DEF Flow
<1>6. Ends' /\ NormalEnds' /\ Handled'
  BY <1>1, EndsSame, NormalSame, HandledSame DEF Flow
<1> QED
  BY <1>2, <1>3, <1>4, <1>5, <1>6 DEF Flow

LEMMA UserStepFlow ==
  ASSUME IInv, Flow, NEW u \in User, UNCHANGED backend, UserStep(u)
  PROVE  Flow'
<1>1. CASE NoticeDisconnect(u) \/ CancelWaiting(u)
  <2>1. Cancelled(u) /\ task[u] \in {"delivering", "ending", "waiting"}
    BY <1>1 DEF NoticeDisconnect, CancelWaiting
  <2> QED
    BY <2>1, CancelledFlow
<1> QED
  BY <1>1, SendRequestFlow, StartStreamFlow, WakeFlow, DeliverFlow, CancelSendingFlow,
     AbortUserFlow, SendAbortFlow DEF UserStep

LEMMA FrontendFlow == ASSUME IInv, Flow, FrontendStep PROVE Flow'
<1>1. UNCHANGED backend
  BY DEF FrontendStep
<1> QED
  BY <1>1, NewUserFlow, DisconnectFlow, ListenFlow, UserStepFlow DEF FrontendStep, Client

LEMMA FlowHolds == ServingSpec => []Flow
<1>1. IInv /\ Flow /\ args \in Args /\ [ServingNext]_all => Flow'
  <2> SUFFICES ASSUME IInv, Flow, args \in Args, [ServingNext]_all PROVE Flow'
    OBVIOUS
  <2> QED
    BY FlowSame, FrontendFlow, TokenizeFlow, ReceiveFlow, ReplyBatchFlow, DetokenizeFlow
       DEF ServingNext
<1> QED
  BY <1>1, FlowInit, Invariance, ArgsStay, PTL DEF ServingSpec

-----------------------------------------------------------------------------
\* From the scheduler to the client, no reply is lost, doubled or overtaken while the
\* stream is open: through the queue of the detokenizer, the one of the frontend, the
\* list of wait_for_ack and its pending, over every interleaving of the processes.
THEOREM RepliesAreInOrder == ServingSpec => []RepliesInOrder
<1>1. Flow => RepliesInOrder
  BY DEF Flow
<1> QED
  BY <1>1, FlowHolds, PTL

-----------------------------------------------------------------------------
(* An abort stays behind its request, so that handling it is enough. *)

\* With one worker, a request whose abort has been handled is neither run nor sent.
AbortWorks ==
  \A u \in User : aborting[u] = "sent" /\ ~ OnItsWay(AbortMessage(u)) =>
    u \notin running /\ ~ OnItsWay(Asks(u))

Behind == AbortsBehind /\ AbortWorks

LEMMA BehindSame ==
  ASSUME Behind, UNCHANGED << to_tokenizer, to_backend >>, running' \subseteq running,
         \A u \in User : aborting'[u] = "sent" => aborting[u] = "sent"
  PROVE  Behind'
<1>1. AbortsBehind'
  BY DEF Behind, AbortsBehind, At, Earlier
<1>2. \A m : OnItsWay(m)' <=> OnItsWay(m)
  BY WaySame
<1>3. AbortWorks'
  BY <1>2 DEF Behind, AbortWorks
<1> QED
  BY <1>1, <1>3 DEF Behind

LEMMA SendRequestBehind ==
  ASSUME IInv, Flow, Behind, NEW u \in User, UNCHANGED backend, SendRequest(u)
  PROVE  Behind'
<1>1. /\ UNCHANGED << to_backend, running, aborting >>
      /\ task[u] = "sending" /\ Put(Asks(u)) /\ Asks(u) \in Message
  BY DEF SendRequest, backend, Asks, Message
<1>2. aborting[u] = "no" /\ ~ OnItsWay(AbortMessage(u))
  <2>1. aborting[u] = "no"
    BY <1>1 DEF IInv, Shapes, AbortsAreOfLost
  <2> QED
    BY <2>1 DEF Flow, AskedFor
<1>3. \A v \in User : /\ AbortMessage(v) # Asks(u)
                      /\ v # u => Asks(v) # Asks(u)
  BY DEF AbortMessage, Asks
<1>4. \A v \in User : /\ OnItsWay(AbortMessage(v))' <=> OnItsWay(AbortMessage(v))
                      /\ v # u => (OnItsWay(Asks(v))' <=> OnItsWay(Asks(v)))
  <2>1. \A x : OnItsWay(x)' <=> OnItsWay(x) \/ x = Asks(u)
    BY <1>1, PutWay DEF IInv
  <2> QED
    BY <1>3, <2>1
<1>5. ASSUME NEW v \in User, NEW t \in Tokenizer, NEW i \in Nat, NEW j \in Nat, NEW k \in Nat,
             NEW l \in Nat, At(Asks(v), t, i, j)', At(AbortMessage(v), t, k, l)'
      PROVE  Earlier(i, j, k, l)
  <2>1. v # u
    BY <1>2, <1>4, <1>5 DEF OnItsWay
  <2>2. At(Asks(v), t, i, j) /\ At(AbortMessage(v), t, k, l)
    <3>1. \E r \in Tokenizer : \E n \in Nat :
            \A x : \A s \in Tokenizer : \A p, q \in Nat :
              At(x, s, p, q)' <=> At(x, s, p, q) \/ (x = Asks(u) /\ s = r /\ q = 0 /\ p = n)
      BY <1>1, PutPlaces DEF IInv
    <3> QED
      BY <1>3, <1>5, <2>1, <3>1
  <2> QED
    BY <2>2 DEF Behind, AbortsBehind
<1>6. AbortsBehind'
  BY <1>5 DEF AbortsBehind, Earlier
<1>7. AbortWorks'
  BY <1>1, <1>2, <1>4 DEF Behind, AbortWorks
<1> QED
  BY <1>6, <1>7 DEF Behind

LEMMA SendAbortBehind ==
  ASSUME IInv, Flow, Behind, NEW u \in User, UNCHANGED backend, SendAbort(u)
  PROVE  Behind'
<1>1. /\ UNCHANGED << to_backend, running >>
      /\ aborting[u] = "sending" /\ Put(AbortMessage(u)) /\ AbortMessage(u) \in Message
      /\ \A v \in User : aborting'[v] = IF v = u THEN "sent" ELSE aborting[v]
  BY DEF SendAbort, backend, AbortMessage, Message, IInv, Shapes
<1>2. ~ OnItsWay(AbortMessage(u))
  BY <1>1 DEF Flow, AskedFor
<1>3. \A v \in User : /\ Asks(v) # AbortMessage(u)
                      /\ v # u => AbortMessage(v) # AbortMessage(u)
  BY DEF AbortMessage, Asks
<1>4. PICK r \in Tokenizer, n \in Nat :
        /\ \A x : \A i \in Nat : At(x, r, i, 0) => i < n
        /\ \A x : \A s \in Tokenizer : \A i, j \in Nat :
             At(x, s, i, j)' <=> At(x, s, i, j) \/ (x = AbortMessage(u) /\ s = r /\ j = 0 /\ i = n)
  BY <1>1, PutPlaces DEF IInv
<1>5. ASSUME NEW v \in User, NEW t \in Tokenizer, NEW i \in Nat, NEW j \in Nat, NEW k \in Nat,
             NEW l \in Nat, At(Asks(v), t, i, j)', At(AbortMessage(v), t, k, l)'
      PROVE  Earlier(i, j, k, l)
  <2>1. At(Asks(v), t, i, j)
    BY <1>3, <1>4, <1>5
  <2>2. CASE v # u
    <3>1. At(AbortMessage(v), t, k, l)
      BY <1>3, <1>4, <1>5, <2>2
    <3> QED
      BY <2>1, <3>1 DEF Behind, AbortsBehind
  <2>3. CASE v = u
    <3>1. ~ At(AbortMessage(v), t, k, l)
      BY <1>2, <2>3 DEF OnItsWay
    <3>2. t = r /\ l = 0 /\ k = n
      BY <1>4, <1>5, <3>1
    <3> QED
      BY <1>4, <2>1, <3>2 DEF Earlier
  <2> QED
    BY <2>2, <2>3
<1>6. AbortsBehind'
  BY <1>5 DEF AbortsBehind, Earlier
<1>7. AbortWorks'
  <2>1. \A x : OnItsWay(x)' <=> OnItsWay(x) \/ x = AbortMessage(u)
    BY <1>1, PutWay DEF IInv
  <2> QED
    BY <1>1, <1>3, <2>1 DEF Behind, AbortWorks
<1> QED
  BY <1>6, <1>7 DEF Behind

LEMMA TokenizeBehind ==
  ASSUME IInv, Flow, Behind, args \in Args, NEW t \in Tokenizer, Tokenize(t)
  PROVE  Behind'
<1>1. UNCHANGED << running, aborting >>
  BY DEF Tokenize, tasks
<1>2. PICK n, b, slot, f, g :
        /\ \A u \in User : /\ Moves(Asks(u), t, n, b, b + 1, f)
                           /\ Moves(AbortMessage(u), t, n, b, slot, g)
        /\ DOMAIN f # {} => slot = b + 2
  BY TokenizeMoves DEF IInv, Flow
<1>3. AbortWorks'
  <2>1. \A u \in User : /\ OnItsWay(Asks(u))' <=> OnItsWay(Asks(u))
                        /\ OnItsWay(AbortMessage(u))' <=> OnItsWay(AbortMessage(u))
    BY <1>2, MovesWay
  <2> QED
    BY <1>1, <2>1 DEF Behind, AbortWorks
<1>4. ASSUME NEW v \in User, NEW s \in Tokenizer, NEW i \in Nat, NEW j \in Nat, NEW k \in Nat,
             NEW l \in Nat, At(Asks(v), s, i, j)', At(AbortMessage(v), s, k, l)'
      PROVE  Earlier(i, j, k, l)
  <2>1. /\ n \in Nat /\ b \in Nat /\ slot \in Nat /\ b < slot
        /\ \A h \in DOMAIN f : f[h] \in 1..n
        /\ \A h \in DOMAIN g : g[h] \in 1..n
    BY <1>2 DEF Moves
  <2>2. \/ s # t /\ At(Asks(v), s, i, j)
        \/ s = t /\ j = 0 /\ i # 0 /\ At(Asks(v), t, i + n, 0)
        \/ s = t /\ j # 0 /\ i <= b /\ At(Asks(v), t, i, j)
        \/ s = t /\ j # 0 /\ i = b + 1 /\ j \in DOMAIN f /\ At(Asks(v), t, f[j], 0)
    BY <1>2, <1>4 DEF Moves
  <2>3. \/ s # t /\ At(AbortMessage(v), s, k, l)
        \/ s = t /\ l = 0 /\ k # 0 /\ At(AbortMessage(v), t, k + n, 0)
        \/ s = t /\ l # 0 /\ k <= b /\ At(AbortMessage(v), t, k, l)
        \/ s = t /\ l # 0 /\ k = slot /\ l \in DOMAIN g /\ At(AbortMessage(v), t, g[l], 0)
    BY <1>2, <1>4 DEF Moves
  <2>4. \A r \in Tokenizer : \A p, q, c, d \in Nat :
          At(Asks(v), r, p, q) /\ At(AbortMessage(v), r, c, d) => Earlier(p, q, c, d)
    BY DEF Behind, AbortsBehind
  <2>5. CASE s # t
    BY <2>2, <2>3, <2>4, <2>5
  <2>6. CASE s = t /\ l = 0
    <3>1. k + n \in Nat /\ i + n \in Nat /\ 0 \in Nat
      BY <2>1
    <3>2. CASE j = 0
      <4>1. Earlier(i + n, 0, k + n, 0)
        BY <2>2, <2>3, <2>4, <2>6, <3>1, <3>2
      <4> QED
        BY <2>1, <2>6, <3>2, <4>1 DEF Earlier
    <3> QED
      BY <2>6, <3>2 DEF Earlier
  <2>7. CASE s = t /\ l # 0 /\ k <= b /\ At(AbortMessage(v), t, k, l)
    <3>1. CASE j = 0
      <4>1. i + n \in Nat /\ 0 \in Nat
        BY <2>1
      <4>2. Earlier(i + n, 0, k, l)
        BY <2>2, <2>4, <2>7, <3>1, <4>1
      <4> QED
        BY <2>7, <4>2 DEF Earlier
    <3>2. CASE j # 0 /\ j \in DOMAIN f /\ At(Asks(v), t, f[j], 0)
      <4>1. f[j] \in Nat /\ 0 \in Nat
        BY <2>1, <3>2
      <4>2. Earlier(f[j], 0, k, l)
        BY <2>4, <2>7, <3>2, <4>1
      <4> QED
        BY <2>7, <4>2 DEF Earlier
    <3> QED
      BY <2>2, <2>4, <2>7, <3>1, <3>2
  <2>8. CASE s = t /\ l # 0 /\ k = slot /\ l \in DOMAIN g /\ At(AbortMessage(v), t, g[l], 0)
    <3>0. g[l] \in 1..n /\ g[l] \in Nat /\ 0 \in Nat
      BY <2>1, <2>8
    <3>1. CASE j = 0
      <4>1. i + n \in Nat
        BY <2>1
      <4>2. Earlier(i + n, 0, g[l], 0)
        BY <2>2, <2>4, <2>8, <3>0, <3>1, <4>1
      <4>3. i + n < g[l]
        BY <4>2 DEF Earlier
      <4>4. FALSE
        <5>1. PICK h \in 1..n : h = g[l]
          BY <3>0
        <5> QED
          BY <2>1, <4>3, <5>1
      <4> QED
        BY <4>4
    <3>2. CASE j # 0 /\ i <= b
      BY <2>1, <2>8, <3>2 DEF Earlier
    <3>3. CASE j # 0 /\ i = b + 1 /\ j \in DOMAIN f
      <4>1. slot = b + 2
        BY <1>2, <3>3
      <4> QED
        BY <2>1, <2>8, <3>3, <4>1 DEF Earlier
    <3> QED
      BY <2>2, <2>8, <3>1, <3>2, <3>3
  <2> QED
    BY <2>3, <2>5, <2>6, <2>7, <2>8
<1>5. AbortsBehind'
  BY <1>4 DEF AbortsBehind, Earlier
<1> QED
  BY <1>3, <1>5 DEF Behind

LEMMA ReceiveBehind ==
  ASSUME IInv, Flow, Behind, NEW t \in Tokenizer, Tokenizer = {t}, Receive(t)
  PROVE  Behind'
<1>0. Contents /\ UNCHANGED aborting
  BY DEF Flow, Receive, frontend, tasks
<1>1. \A x : \A s \in Tokenizer : \A i, j \in Nat :
        At(x, s, i, j)' <=> IF s = t /\ j # 0 THEN i # 0 /\ At(x, t, i + 1, j)
                                              ELSE At(x, s, i, j)
  BY <1>0, ReceivePlaces
<1>2. ASSUME NEW v \in User, NEW s \in Tokenizer, NEW i \in Nat, NEW j \in Nat, NEW k \in Nat,
             NEW l \in Nat, At(Asks(v), s, i, j)', At(AbortMessage(v), s, k, l)'
      PROVE  Earlier(i, j, k, l)
  <2>1. s = t
    OBVIOUS
  <2>2. PICK p \in Nat : At(Asks(v), s, p, j) /\ p = IF j # 0 THEN i + 1 ELSE i
    BY <1>1, <1>2, <2>1
  <2>3. PICK q \in Nat : At(AbortMessage(v), s, q, l) /\ q = IF l # 0 THEN k + 1 ELSE k
    BY <1>1, <1>2, <2>1
  <2>4. Earlier(p, j, q, l)
    BY <2>2, <2>3 DEF Behind, AbortsBehind
  <2> QED
    BY <2>2, <2>3, <2>4 DEF Earlier
<1>3. AbortsBehind'
  BY <1>2 DEF AbortsBehind, Earlier
<1>4. PICK new, aborts \in SUBSET User :
        /\ running' = (running \cup new) \ aborts
        /\ \A u \in User : u \in new => \E j \in Nat : j # 0 /\ At(Asks(u), t, 1, j)
        /\ \A u \in User : u \in aborts <=> \E j \in Nat : j # 0 /\ At(AbortMessage(u), t, 1, j)
  <2>1. Head(to_backend[t]) \in Seq(Message)
    BY <1>0 DEF Receive, Contents
  <2>2. \A k : Uids(Kind(Head(to_backend[t]), k)) \subseteq User
    BY <2>1, KindType, UidsType
  <2>3. running' = (running \cup (Uids(Kind(Head(to_backend[t]), "tokenize")) \ args.too_long))
                     \ Uids(Kind(Head(to_backend[t]), "abort"))
    BY DEF Receive
  <2>4. \A u \in User : u \in Uids(Kind(Head(to_backend[t]), "tokenize")) \ args.too_long =>
          \E j \in Nat : j # 0 /\ At(Asks(u), t, 1, j)
    BY <1>0, ReceivePlaces
  <2>5. \A u \in User : u \in Uids(Kind(Head(to_backend[t]), "abort"))
                          <=> \E j \in Nat : j # 0 /\ At(AbortMessage(u), t, 1, j)
    BY <1>0, ReceivePlaces
  <2>6. PICK aborts \in SUBSET User : aborts = Uids(Kind(Head(to_backend[t]), "abort"))
    BY <2>2
  <2>7. PICK new \in SUBSET User :
          new = Uids(Kind(Head(to_backend[t]), "tokenize")) \ args.too_long
    BY <2>2
  <2>8. /\ running' = (running \cup new) \ aborts
        /\ \A u \in User : u \in new => \E j \in Nat : j # 0 /\ At(Asks(u), t, 1, j)
        /\ \A u \in User : u \in aborts <=> \E j \in Nat : j # 0 /\ At(AbortMessage(u), t, 1, j)
    BY <2>3, <2>4, <2>5, <2>6, <2>7
  <2> QED
    BY <2>8
<1>5. ASSUME NEW u \in User, aborting[u] = "sent", ~ OnItsWay(AbortMessage(u))'
      PROVE  u \notin running' /\ ~ OnItsWay(Asks(u))'
  <2>1. CASE OnItsWay(AbortMessage(u))
    <3>1. PICK l \in Nat : l # 0 /\ At(AbortMessage(u), t, 1, l)
      BY <1>0, <1>5, <2>1, ReceiveWay
    <3>2. u \in aborts
      BY <1>4, <3>1
    <3>3. ASSUME OnItsWay(Asks(u))' PROVE FALSE
      <4>1. PICK i \in Nat, j \in Nat : At(Asks(u), t, i, j)'
        BY <3>3 DEF OnItsWay
      <4>2. PICK p \in Nat : At(Asks(u), t, p, j) /\ (j # 0 => i # 0 /\ p = i + 1)
        BY <1>1, <4>1
      <4>3. Earlier(p, j, 1, l)
        BY <3>1, <4>2 DEF Behind, AbortsBehind
      <4> QED
        BY <3>1, <4>2, <4>3 DEF Earlier
    <3> QED
      BY <1>4, <3>2, <3>3
  <2>2. CASE ~ OnItsWay(AbortMessage(u))
    <3>1. u \notin running /\ ~ OnItsWay(Asks(u))
      BY <1>5, <2>2 DEF Behind, AbortWorks
    <3>2. u \notin new
      <4>1. 1 \in Nat
        OBVIOUS
      <4> QED
        BY <1>4, <3>1, <4>1 DEF OnItsWay
    <3>3. ~ OnItsWay(Asks(u))'
      BY <1>0, <3>1, ReceiveWay
    <3> QED
      BY <1>4, <3>1, <3>2, <3>3
  <2> QED
    BY <2>1, <2>2
<1>6. AbortWorks'
  BY <1>0, <1>5 DEF AbortWorks
<1> QED
  BY <1>3, <1>6 DEF Behind

LEMMA BehindInit == ServingInit => Behind
<1> SUFFICES ASSUME ServingInit PROVE Behind
  OBVIOUS
<1>1. /\ \A u \in User : aborting[u] = "no"
      /\ \A t \in Tokenizer : to_tokenizer[t] = << >> /\ to_backend[t] = << >>
  BY DEF ServingInit, Init
<1>2. DOMAIN << >> = {}
  OBVIOUS
<1>3. \A m : \A t \in Tokenizer : \A i, j \in Nat : ~ At(m, t, i, j)
  BY <1>1, <1>2 DEF At
<1>4. AbortsBehind
  BY <1>3 DEF AbortsBehind
<1>5. AbortWorks
  BY <1>1 DEF AbortWorks
<1> QED
  BY <1>4, <1>5 DEF Behind

LEMMA UserStepBehind ==
  ASSUME IInv, Flow, Behind, NEW u \in User, UNCHANGED backend, UserStep(u)
  PROVE  Behind'
<1>1. UNCHANGED << to_backend, running >>
  BY DEF backend
<1>2. CASE SendRequest(u) \/ SendAbort(u)
  BY <1>2, SendRequestBehind, SendAbortBehind
<1>3. CASE \/ StartStream(u) \/ Wake(u) \/ Deliver(u) \/ EndStream(u)
           \/ CancelSending(u) \/ CancelStarting(u)
  <2>1. UNCHANGED << to_tokenizer, aborting >>
    BY <1>3 DEF StartStream, Wake, Deliver, EndStream, CancelSending, CancelStarting, links
  <2> QED
    BY <1>1, <2>1, BehindSame
<1>4. CASE NoticeDisconnect(u) \/ CancelWaiting(u) \/ AbortUser(u)
  <2>1. UNCHANGED to_tokenizer
    BY <1>4 DEF NoticeDisconnect, CancelWaiting, Cancelled, AbortUser, links
  <2>2. \A v \in User : aborting'[v] = "sent" => aborting[v] = "sent"
    BY <1>4 DEF NoticeDisconnect, CancelWaiting, Cancelled, AbortUser, IInv, Shapes
  <2> QED
    BY <1>1, <2>1, <2>2, BehindSame
<1> QED
  BY <1>2, <1>3, <1>4 DEF UserStep

LEMMA OthersBehind ==
  ASSUME Behind, \/ UNCHANGED all
                 \/ (Client \/ Listen) /\ UNCHANGED backend
                 \/ SchedulerEnds \/ Detokenize
                 \/ \E S \in SUBSET User : ReplyBatch(S)
  PROVE  Behind'
<1>1. UNCHANGED << to_tokenizer, to_backend, aborting >>
  BY DEF all, frontend, backend, links, tasks, Client, NewUser, Disconnect, Listen, Detokenize,
         ReplyBatch, SchedulerEnds, manager
<1>2. running' \subseteq running
  BY DEF all, backend, SchedulerEnds, Detokenize, ReplyBatch, StillRunning
<1> QED
  BY <1>1, <1>2, BehindSame

\* One process behind the frontend: with two, the abort of a request can overtake it.
OneTokenizer == \E t : Tokenizer = {t}

LEMMA BehindHolds == OneTokenizer /\ ServingSpec => []Behind
<1>1. OneTokenizer /\ IInv /\ Flow /\ Behind /\ args \in Args /\ [ServingNext]_all => Behind'
  <2> SUFFICES ASSUME OneTokenizer, IInv, Flow, Behind, args \in Args, [ServingNext]_all
               PROVE  Behind'
    OBVIOUS
  <2>1. CASE FrontendStep
    BY <2>1, UserStepBehind, OthersBehind DEF FrontendStep
  <2>2. ASSUME NEW t \in Tokenizer, Tokenize(t) \/ Receive(t) PROVE Behind'
    <3>1. Tokenizer = {t}
      BY DEF OneTokenizer
    <3> QED
      BY <2>2, <3>1, TokenizeBehind, ReceiveBehind
  <2> QED
    BY <2>1, <2>2, OthersBehind DEF ServingNext
<1>2. OneTokenizer => []OneTokenizer
  <2>1. OneTokenizer => OneTokenizer'
    BY DEF OneTokenizer
  <2> QED
    BY <2>1, PTL
<1> QED
  BY <1>1, <1>2, BehindInit, FlowHolds, Invariance, ArgsStay, PTL DEF ServingSpec

\* Where a message of u is, in the words of Serving
LEMMA InPipeIs ==
  ASSUME Contents, Shapes, NEW k \in {"tokenize", "abort"}, NEW u \in User
  PROVE  InPipe(k, u) <=> OnItsWay([kind |-> k, uid |-> u])
<1> DEFINE m == [kind |-> k, uid |-> u]
<1>1. \A t \in Tokenizer : \A i \in DOMAIN to_backend[t] :
        to_backend[t][i] \in Seq(Message)
        /\ (u \in Uids(Kind(to_backend[t][i], k))
              <=> \E j \in DOMAIN to_backend[t][i] : to_backend[t][i][j] = m)
  <2>1. \A t \in Tokenizer : \A i \in DOMAIN to_backend[t] : to_backend[t][i] \in Seq(Message)
    BY DEF Contents
  <2> QED
    BY <2>1, KindUids
<1>2. \A t \in Tokenizer : /\ \A i \in DOMAIN to_tokenizer[t] : i \in Nat
                           /\ \A i \in DOMAIN to_backend[t] : i \in Nat
  BY DEF Contents, Shapes
<1>3. \A t \in Tokenizer : \A i \in DOMAIN to_backend[t] :
        \A j \in DOMAIN to_backend[t][i] : j \in Nat /\ j # 0
  BY <1>1
<1>4. InPipe(k, u) <=> \E t \in Tokenizer :
        \/ \E i \in DOMAIN to_tokenizer[t] : to_tokenizer[t][i] = m
        \/ \E i \in DOMAIN to_backend[t] : u \in Uids(Kind(to_backend[t][i], k))
  BY DEF InPipe
<1> HIDE DEF m
<1>5. ASSUME InPipe(k, u) PROVE OnItsWay(m)
  <2>1. PICK t \in Tokenizer :
          \/ \E i \in DOMAIN to_tokenizer[t] : to_tokenizer[t][i] = m
          \/ \E i \in DOMAIN to_backend[t] : u \in Uids(Kind(to_backend[t][i], k))
    BY <1>4, <1>5
  <2>2. CASE \E i \in DOMAIN to_tokenizer[t] : to_tokenizer[t][i] = m
    <3>1. PICK i \in DOMAIN to_tokenizer[t] : to_tokenizer[t][i] = m
      BY <2>2
    <3>2. At(m, t, i, 0) /\ i \in Nat /\ 0 \in Nat
      BY <1>2, <3>1 DEF At
    <3> QED
      BY <3>2 DEF OnItsWay
  <2>3. CASE \E i \in DOMAIN to_backend[t] : u \in Uids(Kind(to_backend[t][i], k))
    <3>1. PICK i \in DOMAIN to_backend[t] : \E j \in DOMAIN to_backend[t][i] :
                                              to_backend[t][i][j] = m
      BY <1>1, <2>3
    <3>2. PICK j \in DOMAIN to_backend[t][i] : to_backend[t][i][j] = m
      BY <3>1
    <3>3. At(m, t, i, j) /\ i \in Nat /\ j \in Nat
      BY <1>2, <1>3, <3>2 DEF At
    <3> QED
      BY <3>3 DEF OnItsWay
  <2> QED
    BY <2>1, <2>2, <2>3
<1>6. ASSUME OnItsWay(m) PROVE InPipe(k, u)
  <2>1. PICK t \in Tokenizer, i \in Nat, j \in Nat : At(m, t, i, j)
    BY <1>6 DEF OnItsWay
  <2>2. \/ i \in DOMAIN to_tokenizer[t] /\ to_tokenizer[t][i] = m
        \/ i \in DOMAIN to_backend[t] /\ j \in DOMAIN to_backend[t][i]
             /\ to_backend[t][i][j] = m
    BY <2>1 DEF At
  <2> QED
    BY <1>1, <1>4, <2>2
<1>7. InPipe(k, u) <=> OnItsWay(m)
  BY <1>5, <1>6
<1> QED
  BY <1>7 DEF m

LEMMA HandledEnd ==
  ASSUME Flow, ~ args.overlap, NEW u \in decode_map
  PROVE  \/ u \in running
         \/ Of(FlattenSeq(to_detokenizer), u) # << >>
         \/ aborting[u] # "no"
<1> SUFFICES ASSUME u \notin running, Undetokenized(u) = << >>, aborting[u] = "no" PROVE FALSE
  BY DEF Undetokenized
<1>1. u \in User
  BY DEF Flow, Contents
<1>2. PICK p \in Seq(Reply) : /\ issued[u] = p \o Undetokenized(u)
                              /\ p # << >> /\ \A i \in DOMAIN p : ~ p[i].finished
  BY <1>1 DEF Flow, Handled
<1>3. issued[u] = p
  <2>1. p \o << >> = p
    BY ConcatEmptySeq
  <2> QED
    BY <1>2, <2>1
<1>4. p[Len(p)].finished
  BY <1>1, <1>2, <1>3 DEF Flow, NormalEnds
<1>5. Len(p) \in DOMAIN p
  BY <1>2
<1> QED
  BY <1>2, <1>4, <1>5

LEMMA NothingIsUnwanted ==
  ASSUME IInv, Flow, Behind PROVE NothingUnwanted
<1>1. Contents /\ Shapes
  BY DEF IInv, Flow
<1>2. AbortedNotRunning
  <2>1. \A u \in User : /\ InPipe("abort", u) <=> OnItsWay(AbortMessage(u))
                        /\ InPipe("tokenize", u) <=> OnItsWay(Asks(u))
    BY <1>1, InPipeIs DEF AbortMessage, Asks
  <2> QED
    BY <2>1 DEF AbortedNotRunning, Behind, AbortWorks
<1>3. RunningIsAsked
  <2> SUFFICES ASSUME NEW u \in running, aborting[u] = "no", task[u] # "lost"
               PROVE  Streaming(u) /\ u \in DOMAIN ack_map
    BY DEF RunningIsAsked
  <2>1. u \in User
    BY <1>1 DEF Contents
  <2>2. ~ Untold(u) /\ task[u] # "cancelled"
    BY <2>1 DEF Flow, AskedFor
  <2>3. task[u] \notin {"ending", "done"}
    BY <2>1 DEF Flow, Ends
  <2>4. task[u] \in Stop
    BY <1>1, <2>1 DEF Shapes
  <2>5. Streaming(u)
    BY <2>2, <2>3, <2>4 DEF Streaming, Stop, Untold
  <2> QED
    BY <2>1, <2>5 DEF IInv, MapsTogether
<1>4. StatusesNeeded
  BY HandledEnd DEF StatusesNeeded
<1> QED
  BY <1>2, <1>3, <1>4 DEF NothingUnwanted

\* Nobody is worked for in vain (num_tokenizer 0 or 1): once the abort of a request has
\* been handled, the scheduler neither runs the request nor will begin to; what it runs
\* has a listener, is cancelled or was lost before its stream began; and in normal_loop
\* a status outlives only an aborted request.
THEOREM NobodyIsWorkedForInVain == OneTokenizer /\ ServingSpec => []NothingUnwanted
BY NothingIsUnwanted, Invariance, FlowHolds, BehindHolds, PTL

-----------------------------------------------------------------------------
(* Serving implements RequestService. *)

\* A step in which nothing happens that a client can tell
LEMMA Unseen ==
  ASSUME UNCHANGED << issued, got >>, \A u \in User : Phase(u)' = Phase(u)
  PROVE  UNCHANGED Service!service
BY DEF Service!service

\* The handler of u moves on, in the same phase.
LEMMA Unnoticed ==
  ASSUME Shapes, NEW u \in User, NEW stop \in Stop, task' = [task EXCEPT ![u] = stop],
         UNCHANGED << connected, issued, got >>,
         task[u] # "none", stop # "none",
         u \in connected => (task[u] \in {"ending", "done"} <=> stop \in {"ending", "done"})
  PROVE  UNCHANGED Service!service
<1>1. \A v \in User : task'[v] = IF v = u THEN stop ELSE task[v]
  BY DEF Shapes
<1>2. \A v \in User : Phase(v)' = Phase(v)
  BY <1>1 DEF Phase
<1> QED
  BY <1>2, Unseen

LEMMA NewUserOpens == ASSUME IInv, Flow, NewUser PROVE Service!Open(uid_counter)
<1> DEFINE c == uid_counter
<1>1. c \in User /\ task[c] = "none" /\ UNCHANGED << connected, issued, got >>
  BY DEF NewUser, IInv, Shapes, FreshUids, world, links
<1>2. c \in connected
  BY <1>1 DEF Flow, AskedFor
<1>3. \A v \in User : task'[v] = IF v = c THEN "sending" ELSE task[v]
  BY DEF NewUser, IInv, Shapes
<1>4. \A v \in User : Phase(v)' = IF v = c THEN "open" ELSE Phase(v)
  BY <1>1, <1>2, <1>3 DEF Phase
<1>5. Phase(c) = "new"
  BY <1>1 DEF Phase
<1> QED
  BY <1>1, <1>4, <1>5 DEF Service!Open

LEMMA DisconnectLeaves ==
  ASSUME NEW u \in User, Disconnect(u) PROVE Service!Leave(u)
<1>1. /\ u \in connected /\ connected' = connected \ {u} /\ UNCHANGED << task, issued, got >>
      /\ task[u] \in {"sending", "starting", "waiting", "delivering", "ending"}
  BY DEF Disconnect, tasks, links
<1>2. \A v \in User : Phase(v)' = IF v = u THEN "left" ELSE Phase(v)
  BY <1>1 DEF Phase
<1>3. Phase(u) \in {"open", "closed"}
  BY <1>1 DEF Phase
<1> QED
  BY <1>1, <1>2, <1>3 DEF Service!Leave

LEMMA DeliverShows ==
  ASSUME IInv, Flow, NEW u \in User, Deliver(u) PROVE Service!Show(u)
<1>1. /\ u \in connected /\ task[u] = "delivering" /\ UNCHANGED << connected, issued >>
      /\ got' = [got EXCEPT ![u] = Append(got[u], Head(held[u]))]
      /\ task' = [task EXCEPT ![u] = NextStop(u)]
  BY DEF Deliver, links
<1>2. /\ Len(got[u]) < Len(issued[u]) /\ issued[u][Len(got[u]) + 1] = Head(held[u])
      /\ held[u] \in Seq(Reply) /\ held[u] # << >>
  BY <1>1, NextDelivered
<1>3. PICK a \in Reply : a = Head(held[u])
  BY <1>2, HeadTailProperties
<1>4. NextStop(u) \in {"waiting", "delivering", "ending"} /\ (NextStop(u) = "ending" <=> a.finished)
  <2>1. a.finished \in BOOLEAN
    BY DEF Reply
  <2> QED
    BY <1>3, <2>1 DEF NextStop
<1>5. PICK stop : stop = NextStop(u)
  OBVIOUS
<1>6. \A v \in User : task'[v] = IF v = u THEN stop ELSE task[v]
  BY <1>1, <1>5 DEF IInv, Shapes
<1>7. \A v \in User : Phase(v)' = IF v = u THEN (IF a.finished THEN "closed" ELSE "open")
                                          ELSE Phase(v)
  BY <1>1, <1>4, <1>5, <1>6 DEF Phase
<1>8. Phase(u) = "open"
  BY <1>1 DEF Phase
<1>9. a \in {r \in Reply : r.finished} <=> a.finished
  OBVIOUS
<1>10. /\ got' = [got EXCEPT ![u] = Append(got[u], a)]
       /\ issued[u][Len(got[u]) + 1] = a
  BY <1>1, <1>2, <1>3
<1> QED
  BY <1>1, <1>2, <1>7, <1>8, <1>9, <1>10 DEF Service!Show

LEMMA ReplyBatchComputes ==
  ASSUME Flow, args \in Args, NEW S \in SUBSET User, ReplyBatch(S) PROVE Service!Compute(S)
<1>1. /\ UNCHANGED << task, connected, got >> /\ S \subseteq running \cup late
      /\ \A u \in S : Len(issued[u]) < args.replies
  BY DEF ReplyBatch, tasks, world
<1>2. PICK f \in FreeToAnswer(S) :
        issued' = [u \in User |->
                     IF u \in S THEN Append(issued[u], [uid |-> u, n |-> Len(issued[u]) + 1,
                                                        finished |-> f[u]])
                     ELSE issued[u]]
  BY DEF ReplyBatch
<1>3. PICK r : r = [u \in S |-> [uid |-> u, n |-> Len(issued[u]) + 1, finished |-> f[u]]]
  OBVIOUS
<1>4. r \in [S -> Reply]
  <2>1. \A u \in S : [uid |-> u, n |-> Len(issued[u]) + 1, finished |-> f[u]] \in Reply
    BY <1>1, BatchReply DEF Flow
  <2> QED
    BY <1>3, <2>1
<1>5. issued' = [u \in User |-> IF u \in S THEN Append(issued[u], r[u]) ELSE issued[u]]
  BY <1>2, <1>3
<1>6. \A u \in S : Phase(u) # "new"
  <2>1. \A u \in S : task[u] # "none"
    BY <1>1 DEF Flow, AskedFor, Untold
  <2> QED
    BY <2>1 DEF Phase
<1>7. \A u \in User : Phase(u)' = Phase(u)
  BY <1>1 DEF Phase
<1> QED
  BY <1>1, <1>4, <1>5, <1>6, <1>7 DEF Service!Compute

LEMMA UserStepServes ==
  ASSUME IInv, Flow, NEW u \in User, UserStep(u)
  PROVE  Service!Show(u) \/ UNCHANGED Service!service
<1>0. Shapes
  BY DEF IInv
<1>1. CASE SendRequest(u)
  <2>1. /\ task[u] = "sending" /\ task' = [task EXCEPT ![u] = "starting"]
        /\ UNCHANGED << connected, issued, got >>
    BY <1>1 DEF SendRequest, world
  <2> QED
    BY <1>0, <2>1, Unnoticed DEF Stop
<1>2. CASE StartStream(u)
  <2>1. /\ task[u] = "starting" /\ task' = [task EXCEPT ![u] = "waiting"]
        /\ UNCHANGED << connected, issued, got >>
    BY <1>2 DEF StartStream, world, links
  <2> QED
    BY <1>0, <2>1, Unnoticed DEF Stop
<1>3. CASE Wake(u)
  <2>1. PICK stop \in {"waiting", "delivering"} :
          /\ task[u] = "waiting" /\ task' = [task EXCEPT ![u] = stop]
          /\ UNCHANGED << connected, issued, got >>
    BY <1>3 DEF Wake, world, links
  <2>2. stop \in Stop /\ stop # "none" /\ stop \notin {"ending", "done"}
    BY DEF Stop
  <2> QED
    BY <1>0, <2>1, <2>2, Unnoticed
<1>4. CASE Deliver(u)
  BY <1>4, DeliverShows
<1>5. CASE EndStream(u)
  <2>1. /\ task[u] = "ending" /\ task' = [task EXCEPT ![u] = "done"]
        /\ UNCHANGED << connected, issued, got >>
    BY <1>5 DEF EndStream, world, links
  <2> QED
    BY <1>0, <2>1, Unnoticed DEF Stop
<1>6. CASE NoticeDisconnect(u) \/ CancelWaiting(u)
  <2>1. /\ task[u] # "none" /\ u \notin connected /\ task' = [task EXCEPT ![u] = "cancelled"]
        /\ UNCHANGED << connected, issued, got >>
    BY <1>6 DEF NoticeDisconnect, CancelWaiting, Cancelled, world, links
  <2> QED
    BY <1>0, <2>1, Unnoticed DEF Stop
<1>7. CASE CancelSending(u) \/ CancelStarting(u)
  <2>1. /\ task[u] # "none" /\ u \notin connected /\ task' = [task EXCEPT ![u] = "lost"]
        /\ UNCHANGED << connected, issued, got >>
    BY <1>7 DEF CancelSending, CancelStarting, world, links
  <2> QED
    BY <1>0, <2>1, Unnoticed DEF Stop
<1>8. CASE AbortUser(u) \/ SendAbort(u)
  <2>1. UNCHANGED << task, connected, issued, got >>
    BY <1>8 DEF AbortUser, SendAbort, world, links
  <2>2. \A v \in User : Phase(v)' = Phase(v)
    BY <2>1 DEF Phase
  <2> QED
    BY <2>1, <2>2, Unseen
<1> QED
  BY <1>1, <1>2, <1>3, <1>4, <1>5, <1>6, <1>7, <1>8 DEF UserStep

LEMMA OthersUnseen ==
  ASSUME \/ UNCHANGED all \/ Listen \/ SchedulerEnds \/ Detokenize
         \/ \E t \in Tokenizer : Tokenize(t) \/ Receive(t)
  PROVE  UNCHANGED Service!service
<1>1. UNCHANGED << task, connected, issued, got >>
  BY DEF all, frontend, tasks, world, links, Listen, SchedulerEnds, Detokenize,
         Tokenize, Receive
<1>2. \A v \in User : Phase(v)' = Phase(v)
  BY <1>1 DEF Phase
<1> QED
  BY <1>1, <1>2, Unseen

LEMMA StepServes ==
  ASSUME IInv, Flow, args \in Args, [ServingNext]_all
  PROVE  [Service!Next]_(Service!service)
<1>1. CASE FrontendStep
  <2>1. CASE NewUser
    <3>1. uid_counter \in User
      BY <2>1 DEF NewUser
    <3> QED
      BY <2>1, <3>1, NewUserOpens DEF Service!Next
  <2>2. CASE \E u \in User : Disconnect(u)
    BY <2>2, DisconnectLeaves DEF Service!Next
  <2>3. CASE \E u \in User : UserStep(u)
    BY <2>3, UserStepServes DEF Service!Next
  <2> QED
    BY <1>1, <2>1, <2>2, <2>3, OthersUnseen DEF FrontendStep, Client
<1>2. CASE \E S \in SUBSET User : ReplyBatch(S)
  BY <1>2, ReplyBatchComputes DEF Service!Next
<1> QED
  BY <1>1, <1>2, OthersUnseen DEF ServingNext

LEMMA ServiceBegins == ServingInit => Service!Init
<1> SUFFICES ASSUME ServingInit PROVE Service!Init
  OBVIOUS
<1>1. task = [u \in User |-> "none"]
      /\ issued = [u \in User |-> << >>] /\ got = [u \in User |-> << >>]
  BY DEF ServingInit, Init
<1>2. \A u \in User : Phase(u) = "new"
  BY <1>1 DEF Phase
<1> QED
  BY <1>1, <1>2 DEF Service!Init

\* Frontend, workers, scheduler and detokenizer together keep the promise of
\* RequestService: every client is shown the replies computed for it, one after the
\* other, without a gap, up to the final one, unless it leaves before.
THEOREM ServingImplementsService == ServingSpec => ImplementsService
<1>1. IInv /\ Flow /\ args \in Args /\ [ServingNext]_all => [Service!Next]_(Service!service)
  BY StepServes
<1> QED
  BY <1>1, ServiceBegins, Invariance, FlowHolds, ArgsStay, PTL
     DEF ServingSpec, ImplementsService, Service!Spec
=============================================================================
