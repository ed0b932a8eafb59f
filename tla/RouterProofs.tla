----------------------------- MODULE RouterProofs -----------------------------
(***************************************************************************)
(* Proofs about Router: for any number of workers and users, any reports,  *)
(* limits, cooldown and failures.  Who is called and who stays bound; the  *)
(* limits, by counting and adding up the calls that were let through; and  *)
(* the load test, which never fires.                                       *)
(***************************************************************************)
EXTENDS Router, FiniteSetTheorems, NaturalsInduction, TLAPS

-----------------------------------------------------------------------------
(* The list of workers and filtering. *)

LEMMA SmallestNat ==
  ASSUME NEW T \in SUBSET Nat, T # {}
  PROVE  \E m \in T : \A k \in T : m <= k
<1>1. PICK m \in T : \A k \in T : ~ (<< k, m >> \in OpToRel(<, Nat))
  BY NatLessThanWellFounded, WFMin
<1>2. \A k \in T : ~ (k < m)
  BY <1>1 DEF OpToRel
<1> QED
  BY <1>2

\* g is the function of Within, up to n elements of the list s
Keeps(g, s, S, n) ==
  g = [k \in 0..n |-> IF k = 0 THEN << >>
                      ELSE IF s[k] \in S THEN Append(g[k - 1], s[k]) ELSE g[k - 1]]

LEMMA KeepsExists ==
  ASSUME NEW s, NEW S, NEW n \in Nat
  PROVE  \E g : Keeps(g, s, S, n)
<1> DEFINE B == {k \in 0..n : ~ \E g : Keeps(g, s, S, k)}
<1>1. ASSUME B # {} PROVE FALSE
  <2>1. B \in SUBSET Nat
    OBVIOUS
  <2>2. PICK k \in B : \A j \in B : k <= j
    <3> HIDE DEF B
    <3> QED
      BY <1>1, <2>1, SmallestNat
  <2>3. k \in 0..n /\ k \in Nat /\ ~ \E g : Keeps(g, s, S, k)
    BY <2>2
  <2>4. CASE k = 0
    <3>1. Keeps([j \in 0..0 |-> << >>], s, S, 0)
      BY DEF Keeps
    <3> QED
      BY <2>3, <2>4, <3>1
  <2>5. CASE k # 0
    <3>1. k - 1 \in 0..n /\ k - 1 \in Nat /\ k - 1 \notin B
      BY <2>2, <2>3, <2>5
    <3>2. PICK f : Keeps(f, s, S, k - 1)
      BY <3>1
    <3> PICK g : g = [j \in 0..k |-> IF j = k THEN (IF s[k] \in S THEN Append(f[k - 1], s[k])
                                                    ELSE f[k - 1])
                                     ELSE f[j]]
      OBVIOUS
    <3>3. \A j \in 0..(k - 1) : f[j] = IF j = 0 THEN << >>
                                       ELSE IF s[j] \in S THEN Append(f[j - 1], s[j])
                                            ELSE f[j - 1]
      BY <3>2 DEF Keeps
    <3>4. \A j \in 0..(k - 1) : g[j] = f[j]
      BY <2>3
    <3>5. ASSUME NEW j \in 0..k
          PROVE  g[j] = IF j = 0 THEN << >>
                        ELSE IF s[j] \in S THEN Append(g[j - 1], s[j]) ELSE g[j - 1]
      <4>1. CASE j = k
        <5>1. k - 1 \in 0..(k - 1)
          BY <2>3, <2>5
        <5>2. g[k - 1] = f[k - 1]
          BY <3>4, <5>1
        <5> QED
          BY <2>5, <4>1, <5>2
      <4>2. CASE j # k
        <5>1. j \in 0..(k - 1) /\ (j # 0 => j - 1 \in 0..(k - 1))
          BY <2>3, <4>2
        <5> QED
          BY <3>3, <3>4, <5>1
      <4> QED
        BY <4>1, <4>2
    <3>6. Keeps(g, s, S, k)
      BY <3>5 DEF Keeps
    <3> QED
      BY <2>3, <3>6
  <2> QED
    BY <2>4, <2>5
<1>2. n \notin B
  BY <1>1
<1> QED
  BY <1>2

\* What Within returns: a list of the elements that are in S; all of it if all are.
LEMMA WithinFacts ==
  ASSUME NEW M, NEW s \in Seq(M), NEW S
  PROVE  /\ Within(s, S) \in Seq(M)
         /\ \A i \in DOMAIN Within(s, S) : Within(s, S)[i] \in S
         /\ (\A i \in DOMAIN s : s[i] \in S) => Within(s, S) = s
<1> DEFINE n == Len(s)
           P(g) == g = [k \in 0..n |-> IF k = 0 THEN << >>
                                       ELSE IF s[k] \in S THEN Append(g[k - 1], s[k])
                                            ELSE g[k - 1]]
           c == CHOOSE g : P(g)
<1>1. n \in Nat /\ \A k \in 1..n : s[k] \in M
  OBVIOUS
<1>2. P(c)
  <2> PICK g : Keeps(g, s, S, n)
    BY <1>1, KeepsExists
  <2>1. P(g)
    BY DEF Keeps
  <2> HIDE DEF P
  <2> QED
    BY <2>1
<1>3. Within(s, S) = c[n]
  BY DEF Within
<1> HIDE DEF c
<1>4. \A k \in 0..n : c[k] = IF k = 0 THEN << >>
                             ELSE IF s[k] \in S THEN Append(c[k - 1], s[k]) ELSE c[k - 1]
  BY <1>2
<1> HIDE DEF P
<1> DEFINE Fine(k) == /\ c[k] \in Seq(M) /\ \A i \in 1..Len(c[k]) : c[k][i] \in S
                      /\ (\A i \in 1..n : s[i] \in S) =>
                           /\ Len(c[k]) = k /\ \A i \in 1..k : c[k][i] = s[i]
           B == {k \in 0..n : ~ Fine(k)}
<1>5. ASSUME B # {} PROVE FALSE
  <2>1. B \in SUBSET Nat
    OBVIOUS
  <2>2. PICK k \in B : \A j \in B : k <= j
    <3> HIDE DEF B
    <3> QED
      BY <1>5, <2>1, SmallestNat
  <2>3. k \in 0..n /\ ~ Fine(k)
    BY <2>2
  <2>4. CASE k = 0
    <3>1. c[k] = << >>
      BY <1>4, <2>3, <2>4
    <3> QED
      BY <2>3, <2>4, <3>1
  <2>5. CASE k # 0
    <3>1. k - 1 \in 0..n /\ k \in 1..n /\ k - 1 \notin B /\ s[k] \in M
      BY <1>1, <2>2, <2>3, <2>5
    <3>2. Fine(k - 1)
      BY <3>1
    <3> DEFINE d == c[k - 1]
    <3>3. /\ d \in Seq(M) /\ Len(d) \in Nat /\ \A i \in 1..Len(d) : d[i] \in S
          /\ (\A i \in 1..n : s[i] \in S) => Len(d) = k - 1 /\ \A i \in 1..(k - 1) : d[i] = s[i]
      BY <3>2
    <3>4. c[k] = IF s[k] \in S THEN Append(d, s[k]) ELSE d
      BY <1>4, <2>5, <3>1
    <3> HIDE DEF d
    <3>5. CASE s[k] \in S
      <4>1. /\ c[k] = Append(d, s[k]) /\ c[k] \in Seq(M) /\ Len(c[k]) = Len(d) + 1
            /\ \A i \in 1..Len(d) : c[k][i] = d[i]
            /\ c[k][Len(d) + 1] = s[k]
        BY <3>1, <3>3, <3>4, <3>5
      <4>2. \A i \in 1..Len(c[k]) : i \in 1..Len(d) \/ i = Len(d) + 1
        BY <3>3, <4>1
      <4>3. \A i \in 1..Len(c[k]) : c[k][i] \in S
        BY <3>3, <3>5, <4>1, <4>2
      <4>4. ASSUME \A i \in 1..n : s[i] \in S
            PROVE  Len(c[k]) = k /\ \A i \in 1..k : c[k][i] = s[i]
        <5>1. Len(d) = k - 1 /\ \A i \in 1..(k - 1) : d[i] = s[i]
          BY <3>3, <4>4
        <5> QED
          BY <3>1, <4>1, <4>2, <5>1
      <4> QED
        BY <2>3, <4>1, <4>3, <4>4
    <3>6. CASE s[k] \notin S
      BY <2>3, <3>1, <3>3, <3>4, <3>6
    <3> QED
      BY <3>5, <3>6
  <2> QED
    BY <2>4, <2>5
<1>6. Fine(n)
  BY <1>1, <1>5
<1>7. DOMAIN s = 1..n /\ DOMAIN c[n] = 1..Len(c[n])
  BY <1>1, <1>6
<1>8. ASSUME \A i \in DOMAIN s : s[i] \in S PROVE c[n] = s
  <2>1. Len(c[n]) = n /\ \A i \in 1..n : c[n][i] = s[i]
    BY <1>6, <1>7, <1>8
  <2> QED
    BY <1>1, <1>6, <2>1
<1> QED
  BY <1>3, <1>6, <1>7, <1>8

-----------------------------------------------------------------------------
(* The inductive invariant. *)

Outcomes == {"open", "answered", "failed", "timeout", "unavailable", "blacklisted", "loaded",
             "quota", "global", "user"}

Logged ==
  [user : Users, tokens : Nat, worker : Worker \cup {"none"}, api : {"chat", "generate"},
   fresh : BOOLEAN, at : Nat, outcome : Outcomes,
   state : {"normal", "warning", "restricted", "banned", "none"}, choices : Nat]

TypeOK ==
  /\ now \in Seconds
  /\ healthy \in Seq(Worker) /\ cyc \in Seq(Worker)
  /\ metrics \in [Worker -> Metrics]
  /\ global_qps \in [Seconds -> Nat] /\ user_qps \in [Users -> [Seconds -> Nat]]
  /\ token_used \in [Users -> Nat]
  /\ log \in Seq(Logged) /\ calls \subseteq DOMAIN log

\* A call that has not ended is a served one, and no call is of a time to come.
LogIsPast ==
  /\ \A i \in calls : log[i].outcome = "open"
  /\ \A i \in DOMAIN log : log[i].at <= now

IInv == TypeOK /\ LogIsPast /\ CycleIsHealthy /\ BannedAvoided

-----------------------------------------------------------------------------
(* The judgement of a worker. *)

LEMMA StateType ==
  ASSUME NEW w
  PROVE  State(w) \in {"normal", "warning", "restricted", "banned"}
<1>1. SloState(metrics[w]) \in {"normal", "warning", "restricted", "banned"}
  <2> DEFINE m == metrics[w]
  <2> HIDE DEF m
  <2>1. SloState(m) \in {"normal", "warning", "restricted", "banned"}
    BY DEF SloState
  <2> QED
    BY <2>1 DEF m
<1> QED
  BY <1>1 DEF State

LEMMA ScoreIsNat ==
  ASSUME NEW m \in Metrics
  PROVE  Score(m) \in Nat
<1> DEFINE Part(k) == (m[k] * Weight[k]) \div Full[k]
<1>1. /\ Part("prefill") \in Nat /\ Part("decode") \in Nat /\ Part("wait") \in Nat
      /\ Part("ttft") \in Nat /\ Part("tpot") \in Nat /\ Part("gpu") \in Nat
      /\ Part("kv") \in Nat
  BY DEF Metrics, Weight, Full
<1>2. \A k \in DOMAIN Weight : Weight[k] \in Nat
  BY DEF Weight
<1> HIDE DEF Part
<1>3. \A k \in {"prefill", "decode", "wait", "ttft", "tpot", "gpu", "kv"} :
        Filled(m, k) \in Nat /\ Lacking(m, k) \in Nat
  <2> SUFFICES ASSUME NEW k \in {"prefill", "decode", "wait", "ttft", "tpot", "gpu", "kv"}
               PROVE  Filled(m, k) \in Nat /\ Lacking(m, k) \in Nat
    OBVIOUS
  <2>1. Part(k) \in Nat /\ Weight[k] \in Nat
    BY <1>1, <1>2 DEF Weight
  <2>2. Filled(m, k) = IF Part(k) < Weight[k] THEN Part(k) ELSE Weight[k]
    BY DEF Filled, Least, Part
  <2> QED
    BY <2>1, <2>2 DEF Lacking
<1> QED
  BY <1>3 DEF Score

\* A filtered list of healthy workers; none of it is banned or restricted.
LEMMA ValidFacts ==
  ASSUME TypeOK
  PROVE  /\ Valid \in Seq(Worker)
         /\ \A i \in DOMAIN Valid : Valid[i] \in Healthy /\ State(Valid[i]) \in {"normal", "warning"}
<1>1. healthy \in Seq(Worker)
  BY DEF TypeOK
<1> DEFINE S == {w \in Healthy : State(w) \in {"normal", "warning"}}
<1>2. Valid = Within(healthy, S)
  BY DEF Valid
<1> HIDE DEF S
<1>3. Valid \in Seq(Worker) /\ \A i \in DOMAIN Valid : Valid[i] \in S
  BY <1>1, <1>2, WithinFacts
<1> QED
  BY <1>3 DEF S

\* The best worker of a list is in it.
LEMMA BestIsListed ==
  ASSUME TypeOK, NEW list \in Seq(Worker), list # << >>
  PROVE  \E i \in DOMAIN list : Best(list) = list[i]
<1> DEFINE score(i) == Score(metrics[list[i]])
           lowest(i) == \A j \in DOMAIN list : Score(metrics[list[i]]) <= Score(metrics[list[j]])
           P(i) == lowest(i) /\ \A j \in 1..(i - 1) : ~lowest(j)
<1>1. Len(list) \in Nat /\ Len(list) >= 1 /\ DOMAIN list = 1..Len(list)
  OBVIOUS
<1>2. \A i \in DOMAIN list : score(i) \in Nat
  BY ScoreIsNat DEF TypeOK
<1>3. \E i \in DOMAIN list : lowest(i)
  <2> DEFINE T == {score(i) : i \in DOMAIN list}
  <2>1. T \in SUBSET Nat /\ T # {}
    BY <1>1, <1>2
  <2>2. PICK m \in T : \A k \in T : m <= k
    <3> HIDE DEF T
    <3> QED
      BY <2>1, SmallestNat
  <2> QED
    BY <2>2
<1> HIDE DEF lowest
<1>4. \E i \in DOMAIN list : P(i)
  <2> DEFINE T == {i \in DOMAIN list : lowest(i)}
  <2>1. T \in SUBSET Nat /\ T # {}
    BY <1>1, <1>3
  <2>2. PICK m \in T : \A k \in T : m <= k
    <3> HIDE DEF T
    <3> QED
      BY <2>1, SmallestNat
  <2>3. \A j \in 1..(m - 1) : j \notin T
    BY <1>1, <2>2
  <2> QED
    BY <1>1, <2>2, <2>3
<1> HIDE DEF P
<1>5. (CHOOSE i \in DOMAIN list : P(i)) \in DOMAIN list
  BY <1>4
<1> QED
  BY <1>5 DEF Best, P, lowest

LEMMA ChoiceIsValid ==
  ASSUME TypeOK, Valid # << >>, NEW u, NEW bound
  PROVE  LET w == Choice(u, Valid, bound)
         IN  w \in Healthy /\ w \in Worker /\ State(w) \in {"normal", "warning"}
<1>1. \E i \in DOMAIN Valid : Choice(u, Valid, bound) = Valid[i]
  BY ValidFacts, BestIsListed DEF Choice
<1> QED
  BY <1>1, ValidFacts

-----------------------------------------------------------------------------
-----------------------------------------------------------------------------
(* The load score of a worker that passes the SLO filter. *)

\* Three members of a finite set
LEMMA ThreeMembers ==
  ASSUME NEW S, IsFiniteSet(S), NEW a \in S, NEW b \in S, NEW c \in S, a # b, a # c, b # c
  PROVE  Cardinality(S) >= 3
<1> PICK A, B, C : A = {a} /\ B = A \cup {b} /\ C = B \cup {c}
  OBVIOUS
<1>1. b \notin A /\ c \notin B /\ C \subseteq S
  OBVIOUS
<1>2. Cardinality(A) = 1 /\ IsFiniteSet(A)
  BY FS_Singleton
<1>3. Cardinality(B) = 2 /\ IsFiniteSet(B)
  BY <1>1, <1>2, FS_AddElement
<1>4. Cardinality(C) = 3 /\ IsFiniteSet(C)
  BY <1>1, <1>3, FS_AddElement
<1> QED
  BY <1>1, <1>4, FS_Subset, FS_CardinalityType

\* The parts of the score, below the limits and below the warnings
LEMMA PartBounds ==
  ASSUME NEW m \in Metrics
  PROVE  /\ Filled(m, "ttft") \in Nat /\ Filled(m, "ttft") <= 120000
         /\ (m.ttft < 2000 => Filled(m, "ttft") <= 60000)
         /\ Filled(m, "tpot") \in Nat /\ (m.tpot < 100 => Filled(m, "tpot") <= 35000)
         /\ (m.tpot < 40 => Filled(m, "tpot") <= 14000)
         /\ Filled(m, "prefill") \in Nat /\ Filled(m, "decode") \in Nat
         /\ (m.prefill + m.decode < 128 => Filled(m, "prefill") + Filled(m, "decode") <= 80000)
         /\ (m.prefill + m.decode < 64 => Filled(m, "prefill") + Filled(m, "decode") <= 40000)
         /\ Filled(m, "wait") \in Nat /\ (m.wait < 64 => Filled(m, "wait") <= 25000)
         /\ (m.wait < 32 => Filled(m, "wait") <= 12500)
         /\ Lacking(m, "gpu") \in Nat /\ Lacking(m, "gpu") <= 180000
         /\ Lacking(m, "kv") \in Nat
         /\ (m.kv > 3 => Lacking(m, "kv") <= 198000)
         /\ (m.kv > 6 => Lacking(m, "kv") <= 181500)
<1>1. /\ m.ttft \in Nat /\ m.tpot \in Nat /\ m.prefill \in Nat /\ m.decode \in Nat
      /\ m.wait \in Nat /\ m.kv \in Nat /\ m.gpu \in Nat
  BY DEF Metrics
<1>2. /\ Filled(m, "ttft") = Least((m.ttft * 120000) \div 4000, 120000)
      /\ Filled(m, "tpot") = Least((m.tpot * 70000) \div 200, 70000)
      /\ Filled(m, "prefill") = Least((m.prefill * 150000) \div 256, 150000)
      /\ Filled(m, "decode") = Least((m.decode * 160000) \div 256, 160000)
      /\ Filled(m, "wait") = Least((m.wait * 100000) \div 256, 100000)
      /\ Lacking(m, "gpu") = 180000 - Least((m.gpu * 180000) \div 200, 180000)
      /\ Lacking(m, "kv") = 220000 - Least((m.kv * 220000) \div 40, 220000)
  BY DEF Filled, Lacking, Weight, Full
<1>3. \A x \in Nat : /\ (x * 120000) \div 4000 \in Nat
                     /\ x < 2000 => (x * 120000) \div 4000 <= 60000
  OBVIOUS
<1>4. \A x \in Nat : /\ (x * 70000) \div 200 \in Nat
                     /\ x < 100 => (x * 70000) \div 200 <= 35000
                     /\ x < 40 => (x * 70000) \div 200 <= 14000
  OBVIOUS
<1>5. \A x, y \in Nat : /\ (x * 150000) \div 256 \in Nat /\ (y * 160000) \div 256 \in Nat
                        /\ x + y < 128 => (x * 150000) \div 256 + (y * 160000) \div 256 <= 80000
                        /\ x + y < 64 => (x * 150000) \div 256 + (y * 160000) \div 256 <= 40000
  OBVIOUS
<1>6. \A x \in Nat : /\ (x * 100000) \div 256 \in Nat
                     /\ x < 64 => (x * 100000) \div 256 <= 25000
                     /\ x < 32 => (x * 100000) \div 256 <= 12500
  OBVIOUS
<1>7. \A x \in Nat : /\ (x * 180000) \div 200 \in Nat /\ (x * 220000) \div 40 \in Nat
                     /\ x > 3 => (x * 220000) \div 40 >= 22000
                     /\ x > 6 => (x * 220000) \div 40 >= 38500
  OBVIOUS
<1>a. \A a, b \in Nat : /\ Least(a, b) \in Nat /\ Least(a, b) <= a /\ Least(a, b) <= b
                        /\ Least(a, b) = a \/ Least(a, b) = b
  BY DEF Least
<1>8. /\ Filled(m, "ttft") \in Nat /\ Filled(m, "ttft") <= 120000
      /\ (m.ttft < 2000 => Filled(m, "ttft") <= 60000)
  <2> PICK y : y = (m.ttft * 120000) \div 4000
    OBVIOUS
  <2>1. y \in Nat /\ (m.ttft < 2000 => y <= 60000) /\ Filled(m, "ttft") = Least(y, 120000)
    BY <1>1, <1>2, <1>3
  <2>2. Least(y, 120000) \in Nat /\ Least(y, 120000) <= y /\ Least(y, 120000) <= 120000
    BY <2>1, <1>a
  <2> QED
    BY <2>1, <2>2
<1>9. /\ Filled(m, "tpot") \in Nat /\ (m.tpot < 100 => Filled(m, "tpot") <= 35000)
      /\ (m.tpot < 40 => Filled(m, "tpot") <= 14000)
  BY <1>1, <1>2, <1>4 DEF Least
<1>10. /\ Filled(m, "prefill") \in Nat /\ Filled(m, "decode") \in Nat
       /\ Filled(m, "prefill") <= (m.prefill * 150000) \div 256
       /\ Filled(m, "decode") <= (m.decode * 160000) \div 256
  BY <1>1, <1>2, <1>5 DEF Least
<1>11. /\ (m.prefill + m.decode < 128 => Filled(m, "prefill") + Filled(m, "decode") <= 80000)
       /\ (m.prefill + m.decode < 64 => Filled(m, "prefill") + Filled(m, "decode") <= 40000)
  BY <1>1, <1>5, <1>10
<1>12. /\ Filled(m, "wait") \in Nat /\ (m.wait < 64 => Filled(m, "wait") <= 25000)
       /\ (m.wait < 32 => Filled(m, "wait") <= 12500)
  BY <1>1, <1>2, <1>6 DEF Least
<1>13. Lacking(m, "gpu") \in Nat /\ Lacking(m, "gpu") <= 180000
  <2> PICK y : y = (m.gpu * 180000) \div 200
    OBVIOUS
  <2>1. y \in Nat /\ Lacking(m, "gpu") = 180000 - Least(y, 180000)
    BY <1>1, <1>2, <1>7
  <2>2. Least(y, 180000) \in Nat /\ Least(y, 180000) <= 180000
    BY <2>1, <1>a
  <2> QED
    BY <2>1, <2>2
<1>14. /\ Lacking(m, "kv") \in Nat /\ (m.kv > 3 => Lacking(m, "kv") <= 198000)
       /\ (m.kv > 6 => Lacking(m, "kv") <= 181500)
  <2> PICK y : y = (m.kv * 220000) \div 40
    OBVIOUS
  <2>1. /\ y \in Nat /\ Lacking(m, "kv") = 220000 - Least(y, 220000)
        /\ (m.kv > 3 => y >= 22000) /\ (m.kv > 6 => y >= 38500)
    BY <1>1, <1>2, <1>7
  <2>2. /\ Least(y, 220000) \in Nat /\ Least(y, 220000) <= 220000
        /\ Least(y, 220000) = y \/ Least(y, 220000) = 220000
    BY <2>1, <1>a
  <2> QED
    BY <2>1, <2>2
<1> QED
  BY <1>8, <1>9, <1>10, <1>11, <1>12, <1>13, <1>14

\* The metrics that check_worker judges are finitely many.
LEMMA JudgedFinite == IsFiniteSet(Judged)
<1>1. IsFiniteSet({})
  BY FS_EmptySet
<1>2. IsFiniteSet((((({} \cup {"ttft"}) \cup {"tpot"}) \cup {"queue"}) \cup {"wait"}) \cup {"kv"})
  BY <1>1, FS_AddElement
<1>3. Judged = (((({} \cup {"ttft"}) \cup {"tpot"}) \cup {"queue"}) \cup {"wait"}) \cup {"kv"}
  BY DEF Judged
<1> QED
  BY <1>2, <1>3

\* A worker that is normal or warning scores less than 0.6, whatever it reports.
LEMMA ValidScore ==
  ASSUME NEW m \in Metrics, SloState(m) \in {"normal", "warning"}
  PROVE  Score(m) < 600000
<1> DEFINE B == {j \in Judged : Beyond(m, j, Limit)}
           W == {j \in Judged : Beyond(m, j, Warning) /\ ~Beyond(m, j, Limit)}
<1>1. IsFiniteSet(Judged)
  BY JudgedFinite
<1>2. IsFiniteSet(B) /\ IsFiniteSet(W) /\ Cardinality(B) \in Nat /\ Cardinality(W) \in Nat
  BY <1>1, FS_Subset, FS_CardinalityType
<1>3. Breaches(m) = Cardinality(B) /\ Warnings(m) = Cardinality(W)
  BY DEF Breaches, Warnings
<1> HIDE DEF B, W
<1>4. Cardinality(B) = 0 /\ Cardinality(W) < 3
  BY <1>2, <1>3 DEF SloState, BanBreaches, RestrictBreaches, RestrictWarnings
<1>5. B = {}
  BY <1>2, <1>4, FS_EmptySet
<1>6. ~ \E a, b, c \in W : a # b /\ a # c /\ b # c
  BY <1>2, <1>4, ThreeMembers
<1>7. /\ m.ttft \in Nat /\ m.tpot \in Nat /\ m.prefill \in Nat /\ m.decode \in Nat
      /\ m.wait \in Nat /\ m.kv \in Nat
  BY DEF Metrics
<1>8. \A j \in Judged : ~ Beyond(m, j, Limit)
  BY <1>5 DEF B
<1>9. m.ttft < 4000 /\ m.tpot < 100 /\ m.prefill + m.decode < 128 /\ m.wait < 64 /\ m.kv > 3
  BY <1>7, <1>8 DEF Judged, Beyond, Value, Limit
<1>10. \A j \in Judged : j \in W <=> Beyond(m, j, Warning)
  BY <1>8 DEF W
<1>11. /\ "ttft" \notin W => m.ttft < 2000
       /\ "tpot" \notin W => m.tpot < 40
       /\ "queue" \notin W => m.prefill + m.decode < 64
       /\ "wait" \notin W => m.wait < 32
       /\ "kv" \notin W => m.kv > 6
  BY <1>7, <1>10 DEF Judged, Beyond, Value, Warning
<1> PICK t, p, q, w, g, k :
       /\ t = Filled(m, "ttft") /\ p = Filled(m, "tpot")
       /\ q = Filled(m, "prefill") + Filled(m, "decode") /\ w = Filled(m, "wait")
       /\ g = Lacking(m, "gpu") /\ k = Lacking(m, "kv")
  OBVIOUS
<1>12. /\ t \in Nat /\ t <= 120000 /\ ("ttft" \notin W => t <= 60000)
       /\ p \in Nat /\ p <= 35000 /\ ("tpot" \notin W => p <= 14000)
  BY <1>9, <1>11, PartBounds
<1>13. q \in Nat /\ q <= 80000 /\ ("queue" \notin W => q <= 40000)
  <2>1. Filled(m, "prefill") \in Nat /\ Filled(m, "decode") \in Nat
    BY PartBounds
  <2>2. /\ Filled(m, "prefill") + Filled(m, "decode") <= 80000
        /\ "queue" \notin W => Filled(m, "prefill") + Filled(m, "decode") <= 40000
    BY <1>9, <1>11, PartBounds
  <2> QED
    BY <2>1, <2>2
<1>14. /\ w \in Nat /\ w <= 25000 /\ ("wait" \notin W => w <= 12500)
       /\ g \in Nat /\ g <= 180000
       /\ k \in Nat /\ k <= 198000 /\ ("kv" \notin W => k <= 181500)
  BY <1>9, <1>11, PartBounds
<1>15. Score(m) = q + w + t + p + g + k
  <2>1. Filled(m, "prefill") \in Nat /\ Filled(m, "decode") \in Nat
    BY PartBounds
  <2> QED
    BY <1>12, <1>14, <2>1 DEF Score
<1>16. \/ "ttft" \notin W /\ "tpot" \notin W /\ "queue" \notin W
       \/ "ttft" \notin W /\ "tpot" \notin W /\ "wait" \notin W
       \/ "ttft" \notin W /\ "tpot" \notin W /\ "kv" \notin W
       \/ "ttft" \notin W /\ "queue" \notin W /\ "wait" \notin W
       \/ "ttft" \notin W /\ "queue" \notin W /\ "kv" \notin W
       \/ "ttft" \notin W /\ "wait" \notin W /\ "kv" \notin W
       \/ "tpot" \notin W /\ "queue" \notin W /\ "wait" \notin W
       \/ "tpot" \notin W /\ "queue" \notin W /\ "kv" \notin W
       \/ "tpot" \notin W /\ "wait" \notin W /\ "kv" \notin W
       \/ "queue" \notin W /\ "wait" \notin W /\ "kv" \notin W
  BY <1>6
<1>17. q + w + t + p + g + k < 600000
  BY <1>12, <1>13, <1>14, <1>16
<1> QED
  BY <1>15, <1>17

(* The log of calls. *)

\* Every metric of n is as bad as that of m or worse.
NoBetter(n, m) ==
  /\ m.ttft <= n.ttft /\ m.tpot <= n.tpot /\ m.prefill <= n.prefill /\ m.decode <= n.decode
  /\ m.wait <= n.wait /\ n.kv <= m.kv /\ n.gpu <= m.gpu

\* A metric is a natural number.
LEMMA MetricTypes ==
  ASSUME NEW m \in Metrics
  PROVE  /\ m.ttft \in Nat /\ m.tpot \in Nat /\ m.prefill \in Nat /\ m.decode \in Nat
         /\ m.wait \in Nat /\ m.kv \in Nat /\ m.gpu \in Nat
BY DEF Metrics

\* What is beyond a limit or a warning stays so.
LEMMA StaysBeyond ==
  ASSUME NEW m \in Metrics, NEW n \in Metrics, NoBetter(n, m), NEW j \in Judged
  PROVE  /\ Beyond(m, j, Limit) => Beyond(n, j, Limit)
         /\ Beyond(m, j, Warning) => Beyond(n, j, Warning)
<1>1. /\ m.ttft \in Nat /\ m.tpot \in Nat /\ m.prefill \in Nat /\ m.decode \in Nat
      /\ m.wait \in Nat /\ m.kv \in Nat
      /\ n.ttft \in Nat /\ n.tpot \in Nat /\ n.prefill \in Nat /\ n.decode \in Nat
      /\ n.wait \in Nat /\ n.kv \in Nat
  BY MetricTypes
<1>2. j \in {"ttft", "tpot", "queue", "wait", "kv"}
  BY DEF Judged
<1>3. CASE j = "ttft"
  BY <1>1, <1>3 DEF NoBetter, Beyond, Value, Limit, Warning
<1>4. CASE j = "tpot"
  BY <1>1, <1>4 DEF NoBetter, Beyond, Value, Limit, Warning
<1>5. CASE j = "queue"
  BY <1>1, <1>5 DEF NoBetter, Beyond, Value, Limit, Warning
<1>6. CASE j = "wait"
  BY <1>1, <1>6 DEF NoBetter, Beyond, Value, Limit, Warning
<1>7. CASE j = "kv"
  BY <1>1, <1>7 DEF NoBetter, Beyond, Limit, Warning
<1> QED
  BY <1>2, <1>3, <1>4, <1>5, <1>6, <1>7

\* The SLO state follows the number of breaches and, without any, of warnings.
LEMMA SeverityOf ==
  ASSUME NEW m \in Metrics
  PROVE  /\ Breaches(m) \in Nat /\ Warnings(m) \in Nat
         /\ Severity[SloState(m)] = IF Breaches(m) >= 2 THEN 3
                                    ELSE IF Breaches(m) = 1 \/ Warnings(m) >= 3 THEN 2
                                    ELSE IF Warnings(m) >= 1 THEN 1 ELSE 0
<1> DEFINE B == {j \in Judged : Beyond(m, j, Limit)}
           W == {j \in Judged : Beyond(m, j, Warning) /\ ~Beyond(m, j, Limit)}
<1>1. IsFiniteSet(B) /\ IsFiniteSet(W)
  BY JudgedFinite, FS_Subset
<1>2. Breaches(m) = Cardinality(B) /\ Warnings(m) = Cardinality(W)
  BY DEF Breaches, Warnings
<1>3. Breaches(m) \in Nat /\ Warnings(m) \in Nat
  <2> HIDE DEF B, W
  <2> QED
    BY <1>1, <1>2, FS_CardinalityType
<1> DEFINE b == Breaches(m)
           w == Warnings(m)
<1>4. b \in Nat /\ w \in Nat
  BY <1>3
<1>5. SloState(m) = CASE b >= 2 -> "banned"
                      [] b < 2 /\ (b >= 1 \/ w >= 3) -> "restricted"
                      [] b = 0 /\ w \in 1..(3 - 1) -> "warning"
                      [] OTHER -> "normal"
  BY DEF SloState, BanBreaches, RestrictBreaches, RestrictWarnings
<1> HIDE DEF b, w
<1>6. SloState(m) = IF b >= 2 THEN "banned" ELSE IF b = 1 \/ w >= 3 THEN "restricted"
                    ELSE IF w >= 1 THEN "warning" ELSE "normal"
  BY <1>4, <1>5
<1>7. Severity[SloState(m)] = IF b >= 2 THEN 3 ELSE IF b = 1 \/ w >= 3 THEN 2
                              ELSE IF w >= 1 THEN 1 ELSE 0
  BY <1>6 DEF Severity
<1> QED
  BY <1>3, <1>7 DEF b, w

\* Worse metrics breach no fewer limits and, short of a breach, give no fewer warnings.
LEMMA MoreBreaches ==
  ASSUME NEW m \in Metrics, NEW n \in Metrics, NoBetter(n, m)
  PROVE  /\ Breaches(m) <= Breaches(n)
         /\ Breaches(n) = 0 => Warnings(m) <= Warnings(n)
<1> DEFINE B(x) == {j \in Judged : Beyond(x, j, Limit)}
           W(x) == {j \in Judged : Beyond(x, j, Warning) /\ ~Beyond(x, j, Limit)}
<1>1. /\ Breaches(m) = Cardinality(B(m)) /\ Breaches(n) = Cardinality(B(n))
      /\ Warnings(m) = Cardinality(W(m)) /\ Warnings(n) = Cardinality(W(n))
  BY DEF Breaches, Warnings
<1>2. IsFiniteSet(B(n)) /\ IsFiniteSet(W(n))
  BY JudgedFinite, FS_Subset
<1>3. B(m) \subseteq B(n)
  BY StaysBeyond
<1>4. B(n) = {} => W(m) \subseteq W(n)
  BY StaysBeyond
<1> HIDE DEF B, W
<1>5. Cardinality(B(m)) <= Cardinality(B(n))
  BY <1>2, <1>3, FS_Subset
<1>6. Cardinality(B(n)) = 0 => Cardinality(W(m)) <= Cardinality(W(n))
  BY <1>2, <1>4, FS_Subset, FS_EmptySet
<1> QED
  BY <1>1, <1>5, <1>6

\* What the score adds up, with the weights and the full values put in.
LEMMA PartValues ==
  ASSUME NEW m \in Metrics
  PROVE  /\ Score(m) = Filled(m, "prefill") + Filled(m, "decode") + Filled(m, "wait")
                       + Filled(m, "ttft") + Filled(m, "tpot")
                       + (180000 - Filled(m, "gpu")) + (220000 - Filled(m, "kv"))
         /\ Filled(m, "ttft") = Least((m.ttft * 120000) \div 4000, 120000)
         /\ Filled(m, "tpot") = Least((m.tpot * 70000) \div 200, 70000)
         /\ Filled(m, "prefill") = Least((m.prefill * 150000) \div 256, 150000)
         /\ Filled(m, "decode") = Least((m.decode * 160000) \div 256, 160000)
         /\ Filled(m, "wait") = Least((m.wait * 100000) \div 256, 100000)
         /\ Filled(m, "gpu") = Least((m.gpu * 180000) \div 200, 180000)
         /\ Filled(m, "kv") = Least((m.kv * 220000) \div 40, 220000)
BY DEF Score, Lacking, Filled, Weight, Full

\* Every part of the score grows with its metric, and those of free memory shrink with it.
LEMMA WorseScore ==
  ASSUME NEW m \in Metrics, NEW n \in Metrics, NoBetter(n, m)
  PROVE  Score(m) <= Score(n)
<1>1. /\ m.ttft \in Nat /\ m.tpot \in Nat /\ m.prefill \in Nat /\ m.decode \in Nat
      /\ m.wait \in Nat /\ m.kv \in Nat /\ m.gpu \in Nat
      /\ n.ttft \in Nat /\ n.tpot \in Nat /\ n.prefill \in Nat /\ n.decode \in Nat
      /\ n.wait \in Nat /\ n.kv \in Nat /\ n.gpu \in Nat
  BY MetricTypes
<1>2. \A p, q, w \in Nat : /\ Least(p, w) \in Nat
                           /\ p <= q => Least(p, w) <= Least(q, w)
  BY DEF Least
<1>3. /\ Filled(m, "ttft") \in Nat /\ Filled(n, "ttft") \in Nat
      /\ Filled(m, "ttft") <= Filled(n, "ttft")
  <2>1. \A a, b \in Nat : /\ (a * 120000) \div 4000 \in Nat
                          /\ a <= b => (a * 120000) \div 4000 <= (b * 120000) \div 4000
    OBVIOUS
  <2>2. m.ttft <= n.ttft
    BY DEF NoBetter
  <2> PICK p, q : p = (m.ttft * 120000) \div 4000 /\ q = (n.ttft * 120000) \div 4000
    OBVIOUS
  <2>3. p \in Nat /\ q \in Nat /\ p <= q
    BY <1>1, <2>1, <2>2
  <2>4. Filled(m, "ttft") = Least(p, 120000) /\ Filled(n, "ttft") = Least(q, 120000)
    BY PartValues
  <2> QED
    BY <1>2, <2>3, <2>4
<1>4. /\ Filled(m, "tpot") \in Nat /\ Filled(n, "tpot") \in Nat
      /\ Filled(m, "tpot") <= Filled(n, "tpot")
  <2>1. \A a, b \in Nat : /\ (a * 70000) \div 200 \in Nat
                          /\ a <= b => (a * 70000) \div 200 <= (b * 70000) \div 200
    OBVIOUS
  <2>2. m.tpot <= n.tpot
    BY DEF NoBetter
  <2> PICK p, q : p = (m.tpot * 70000) \div 200 /\ q = (n.tpot * 70000) \div 200
    OBVIOUS
  <2>3. p \in Nat /\ q \in Nat /\ p <= q
    BY <1>1, <2>1, <2>2
  <2>4. Filled(m, "tpot") = Least(p, 70000) /\ Filled(n, "tpot") = Least(q, 70000)
    BY PartValues
  <2> QED
    BY <1>2, <2>3, <2>4
<1>5. /\ Filled(m, "prefill") \in Nat /\ Filled(n, "prefill") \in Nat
      /\ Filled(m, "prefill") <= Filled(n, "prefill")
  <2>1. \A a, b \in Nat : /\ (a * 150000) \div 256 \in Nat
                          /\ a <= b => (a * 150000) \div 256 <= (b * 150000) \div 256
    OBVIOUS
  <2>2. m.prefill <= n.prefill
    BY DEF NoBetter
  <2> PICK p, q : p = (m.prefill * 150000) \div 256 /\ q = (n.prefill * 150000) \div 256
    OBVIOUS
  <2>3. p \in Nat /\ q \in Nat /\ p <= q
    BY <1>1, <2>1, <2>2
  <2>4. Filled(m, "prefill") = Least(p, 150000) /\ Filled(n, "prefill") = Least(q, 150000)
    BY PartValues
  <2> QED
    BY <1>2, <2>3, <2>4
<1>6. /\ Filled(m, "decode") \in Nat /\ Filled(n, "decode") \in Nat
      /\ Filled(m, "decode") <= Filled(n, "decode")
  <2>1. \A a, b \in Nat : /\ (a * 160000) \div 256 \in Nat
                          /\ a <= b => (a * 160000) \div 256 <= (b * 160000) \div 256
    OBVIOUS
  <2>2. m.decode <= n.decode
    BY DEF NoBetter
  <2> PICK p, q : p = (m.decode * 160000) \div 256 /\ q = (n.decode * 160000) \div 256
    OBVIOUS
  <2>3. p \in Nat /\ q \in Nat /\ p <= q
    BY <1>1, <2>1, <2>2
  <2>4. Filled(m, "decode") = Least(p, 160000) /\ Filled(n, "decode") = Least(q, 160000)
    BY PartValues
  <2> QED
    BY <1>2, <2>3, <2>4
<1>7. /\ Filled(m, "wait") \in Nat /\ Filled(n, "wait") \in Nat
      /\ Filled(m, "wait") <= Filled(n, "wait")
  <2>1. \A a, b \in Nat : /\ (a * 100000) \div 256 \in Nat
                          /\ a <= b => (a * 100000) \div 256 <= (b * 100000) \div 256
    OBVIOUS
  <2>2. m.wait <= n.wait
    BY DEF NoBetter
  <2> PICK p, q : p = (m.wait * 100000) \div 256 /\ q = (n.wait * 100000) \div 256
    OBVIOUS
  <2>3. p \in Nat /\ q \in Nat /\ p <= q
    BY <1>1, <2>1, <2>2
  <2>4. Filled(m, "wait") = Least(p, 100000) /\ Filled(n, "wait") = Least(q, 100000)
    BY PartValues
  <2> QED
    BY <1>2, <2>3, <2>4
<1>8. /\ Filled(m, "gpu") \in Nat /\ Filled(n, "gpu") \in Nat
      /\ Filled(n, "gpu") <= Filled(m, "gpu")
  <2>1. \A a, b \in Nat : /\ (a * 180000) \div 200 \in Nat
                          /\ a <= b => (a * 180000) \div 200 <= (b * 180000) \div 200
    OBVIOUS
  <2>2. n.gpu <= m.gpu
    BY DEF NoBetter
  <2> PICK p, q : p = (n.gpu * 180000) \div 200 /\ q = (m.gpu * 180000) \div 200
    OBVIOUS
  <2>3. p \in Nat /\ q \in Nat /\ p <= q
    BY <1>1, <2>1, <2>2
  <2>4. Filled(n, "gpu") = Least(p, 180000) /\ Filled(m, "gpu") = Least(q, 180000)
    BY PartValues
  <2> QED
    BY <1>2, <2>3, <2>4
<1>9. /\ Filled(m, "kv") \in Nat /\ Filled(n, "kv") \in Nat
      /\ Filled(n, "kv") <= Filled(m, "kv")
  <2>1. \A a, b \in Nat : /\ (a * 220000) \div 40 \in Nat
                          /\ a <= b => (a * 220000) \div 40 <= (b * 220000) \div 40
    OBVIOUS
  <2>2. n.kv <= m.kv
    BY DEF NoBetter
  <2> PICK p, q : p = (n.kv * 220000) \div 40 /\ q = (m.kv * 220000) \div 40
    OBVIOUS
  <2>3. p \in Nat /\ q \in Nat /\ p <= q
    BY <1>1, <2>1, <2>2
  <2>4. Filled(n, "kv") = Least(p, 220000) /\ Filled(m, "kv") = Least(q, 220000)
    BY PartValues
  <2> QED
    BY <1>2, <2>3, <2>4
<1> QED
  BY <1>3, <1>4, <1>5, <1>6, <1>7, <1>8, <1>9, PartValues

\* A worker whose metrics get worse, by whatever amount and in whichever of them, is
\* never judged better: neither its SLO state (check_worker) nor its score
\* (calc_node_score) improves, so the router does not turn to it.
THEOREM WorseIsNeverBetter ==
  ASSUME NEW m \in Metrics, NEW n \in Metrics, NoBetter(n, m)
  PROVE  Severity[SloState(m)] <= Severity[SloState(n)] /\ Score(m) <= Score(n)
<1>1. /\ Breaches(m) <= Breaches(n) /\ (Breaches(n) = 0 => Warnings(m) <= Warnings(n))
  BY MoreBreaches
<1>2. Severity[SloState(m)] <= Severity[SloState(n)]
  BY <1>1, SeverityOf
<1> QED
  BY <1>2, WorseScore

ServedOutcomes == {"open", "answered", "failed", "timeout"}

LEMMA EntryType ==
  ASSUME RouterAssumption, TypeOK, NEW u \in Users, NEW n \in Nat, NEW w \in Worker \cup {"none"},
         NEW api \in {"chat", "generate"}, NEW isNew \in BOOLEAN, NEW outcome \in Outcomes
  PROVE  Entry(u, n, w, api, isNew, outcome) \in Logged
<1>1. now \in Nat /\ Len(healthy) \in Nat
  BY DEF TypeOK, Seconds, RouterAssumption
<1> QED
  BY <1>1, StateType DEF Entry, Logged

LEMMA RefusalType ==
  ASSUME NEW u, NEW n, NEW w
  PROVE  Refusal(u, n, w) \in {"passed", "blacklisted", "loaded", "quota", "global", "user"}
<1> DEFINE a == Score(metrics[w]) >= LoadThreshold
           b == n > 0 /\ token_used[u] + n > TokenQuota
           c == global_qps[now] >= MaxGlobalQps
           d == user_qps[u][now] >= MaxUserQps
<1>1. Refusal(u, n, w) = CASE u \in Whitelist -> "passed"
                           [] u \in Blacklist \ Whitelist -> "blacklisted"
                           [] OTHER -> IF a THEN "loaded" ELSE IF b THEN "quota"
                                       ELSE IF c THEN "global" ELSE IF d THEN "user" ELSE "passed"
  BY DEF Refusal
<1> HIDE DEF a, b, c, d
<1> QED
  BY <1>1

\* A call is logged: it is placed, or turned away.
LEMMA LogGrows ==
  ASSUME IInv, NEW e \in Logged, e.at = now, now' = now, log' = Append(log, e),
         \/ calls' = calls
         \/ calls' = calls \cup {Len(log) + 1} /\ e.outcome = "open",
         e.api = "chat" /\ e.choices > 1 /\ e.outcome \in ServedOutcomes =>
           e.state \in {"normal", "warning"}
  PROVE  /\ log' \in Seq(Logged) /\ calls' \subseteq DOMAIN log'
         /\ LogIsPast' /\ BannedAvoided'
<1>1. /\ log \in Seq(Logged) /\ Len(log) \in Nat /\ DOMAIN log = 1..Len(log)
      /\ calls \subseteq DOMAIN log
  BY DEF IInv, TypeOK
<1>2. /\ log' \in Seq(Logged) /\ DOMAIN log' = 1..(Len(log) + 1) /\ log'[Len(log) + 1] = e
      /\ \A i \in DOMAIN log : log'[i] = log[i]
  BY <1>1
<1>3. \A i \in DOMAIN log' : i \in DOMAIN log \/ i = Len(log) + 1
  BY <1>1, <1>2
<1>4. calls' \subseteq DOMAIN log'
  BY <1>1, <1>2
<1>5. LogIsPast'
  <2>1. \A i \in calls' : log'[i].outcome = "open"
    BY <1>1, <1>2 DEF IInv, LogIsPast
  <2>2. now \in Int
    BY <1>2, <1>1 DEF Logged
  <2>3. \A i \in DOMAIN log' : log'[i].at <= now
    BY <1>2, <1>3, <2>2 DEF IInv, LogIsPast
  <2> QED
    BY <2>1, <2>3 DEF LogIsPast
<1>6. BannedAvoided'
  <2> SUFFICES ASSUME NEW i \in DOMAIN log', log'[i].outcome \in ServedOutcomes,
                      log'[i].api = "chat", log'[i].choices > 1
               PROVE  log'[i].state \in {"normal", "warning"}
    BY DEF BannedAvoided, Served, ServedOutcomes
  <2>1. CASE i \in DOMAIN log
    BY <1>2, <2>1 DEF IInv, BannedAvoided, Served, ServedOutcomes
  <2>2. CASE i = Len(log) + 1
    BY <1>2, <2>2
  <2> QED
    BY <1>3, <2>1, <2>2
<1> QED
  BY <1>2, <1>4, <1>5, <1>6

\* A call ends: it has been served, and nothing else is known of it.
LEMMA LogCloses ==
  ASSUME IInv, NEW i \in calls, NEW outcome \in {"answered", "failed", "timeout"},
         Close(i, outcome), now' = now
  PROVE  /\ log' \in Seq(Logged) /\ calls' \subseteq DOMAIN log'
         /\ LogIsPast' /\ BannedAvoided'
         /\ Len(log') = Len(log) /\ Served' = Served
         /\ \A j \in DOMAIN log :
              /\ log'[j].user = log[j].user /\ log'[j].tokens = log[j].tokens
              /\ log'[j].api = log[j].api /\ log'[j].choices = log[j].choices
              /\ log'[j].at = log[j].at
<1>1. /\ log \in Seq(Logged) /\ DOMAIN log = 1..Len(log) /\ Len(log) \in Nat
      /\ calls \subseteq DOMAIN log /\ i \in DOMAIN log /\ log[i].outcome = "open"
  BY DEF IInv, TypeOK, LogIsPast
<1> DEFINE e == [log[i] EXCEPT !.outcome = outcome]
<1>2. log[i] \in Logged
  BY <1>1
<1>3. /\ e \in Logged /\ e.outcome = outcome /\ e.user = log[i].user /\ e.tokens = log[i].tokens
      /\ e.api = log[i].api /\ e.choices = log[i].choices /\ e.at = log[i].at
      /\ e.state = log[i].state
  BY <1>2 DEF Logged, Outcomes
<1>4. log' = [log EXCEPT ![i] = e] /\ calls' = calls \ {i}
  BY DEF Close
<1> HIDE DEF e
<1>5. /\ log' \in Seq(Logged) /\ DOMAIN log' = DOMAIN log /\ Len(log') = Len(log)
      /\ log'[i] = e /\ \A j \in DOMAIN log : j # i => log'[j] = log[j]
  BY <1>1, <1>3, <1>4
<1>6. \A j \in DOMAIN log :
        /\ log'[j].user = log[j].user /\ log'[j].tokens = log[j].tokens
        /\ log'[j].api = log[j].api /\ log'[j].choices = log[j].choices
        /\ log'[j].at = log[j].at /\ log'[j].state = log[j].state
        /\ log'[j].outcome \in ServedOutcomes <=> log[j].outcome \in ServedOutcomes
  BY <1>1, <1>3, <1>5 DEF ServedOutcomes
<1>7. Served' = Served
  BY <1>5, <1>6 DEF Served, ServedOutcomes
<1>8. LogIsPast'
  BY <1>1, <1>4, <1>5, <1>6 DEF IInv, LogIsPast
<1>9. BannedAvoided'
  <2>1. Served \subseteq DOMAIN log
    BY DEF Served
  <2> QED
    BY <1>6, <1>7, <2>1 DEF IInv, BannedAvoided
<1> QED
  BY <1>1, <1>4, <1>5, <1>6, <1>7, <1>8, <1>9

\* Nothing is logged.
LEMMA LogSame ==
  ASSUME IInv, UNCHANGED << log, calls >>, now \in Int, now' \in Int, now' >= now
  PROVE  /\ log' \in Seq(Logged) /\ calls' \subseteq DOMAIN log'
         /\ LogIsPast' /\ BannedAvoided'
<1>1. \A i \in DOMAIN log : log[i].at \in Nat
  <2>1. \A i \in DOMAIN log : log[i] \in Logged
    BY DEF IInv, TypeOK
  <2> QED
    BY <2>1 DEF Logged
<1>2. LogIsPast'
  BY <1>1 DEF IInv, LogIsPast
<1> QED
  BY <1>2 DEF IInv, TypeOK, BannedAvoided, Served

-----------------------------------------------------------------------------
(* The steps preserve the invariant. *)

\* The healthy list and the cycle
WorkersKept ==
  /\ healthy' \in Seq(Worker) /\ cyc' \in Seq(Worker)
  /\ CycleIsHealthy'

LEMMA WorkersSame ==
  ASSUME IInv, UNCHANGED << healthy, cyc >>
  PROVE  WorkersKept
BY DEF WorkersKept, IInv, TypeOK, CycleIsHealthy, Healthy

LEMMA MarkedUnhealthy ==
  ASSUME IInv, NEW w, MarkUnhealthy(w)
  PROVE  WorkersKept
<1>1. healthy \in Seq(Worker) /\ cyc \in Seq(Worker)
  BY DEF IInv, TypeOK
<1>2. healthy' = Within(healthy, Healthy \ {w}) /\ healthy' \in Seq(Worker)
  BY <1>1, WithinFacts DEF MarkUnhealthy
<1>3. CASE w \in Healthy
  <2>1. cyc' = healthy'
    BY <1>3 DEF MarkUnhealthy
  <2> QED
    BY <1>2, <2>1 DEF WorkersKept, CycleIsHealthy, Healthy
<1>4. CASE w \notin Healthy
  <2>1. cyc' = cyc
    BY <1>4 DEF MarkUnhealthy
  <2>2. \A i \in DOMAIN healthy : healthy[i] \in Healthy \ {w}
    BY <1>4 DEF Healthy
  <2>3. healthy' = healthy
    BY <1>1, <1>2, <2>2, WithinFacts
  <2> QED
    BY <2>1, <2>3, WorkersSame
<1> QED
  BY <1>3, <1>4

LEMMA MarkedHealthy ==
  ASSUME IInv, NEW w \in Worker, MarkHealthy(w)
  PROVE  WorkersKept
<1>1. CASE w \in Healthy
  BY <1>1, WorkersSame DEF MarkHealthy
<1>2. CASE w \notin Healthy
  <2>1. healthy' = Append(healthy, w) /\ cyc' = healthy' /\ healthy' \in Seq(Worker)
    BY <1>2 DEF MarkHealthy, IInv, TypeOK
  <2> QED
    BY <2>1 DEF WorkersKept, CycleIsHealthy, Healthy
<1> QED
  BY <1>1, <1>2

LEMMA Rotated ==
  ASSUME IInv, healthy # << >>, healthy' = healthy, cyc' = Append(Tail(cyc), Head(cyc))
  PROVE  WorkersKept /\ Head(cyc) \in Worker
<1>1. /\ healthy \in Seq(Worker) /\ cyc \in Seq(Worker) /\ Len(cyc) = Len(healthy)
      /\ {cyc[i] : i \in DOMAIN cyc} = Healthy
  BY DEF IInv, TypeOK, CycleIsHealthy
<1> DEFINE n == Len(cyc)
<1>2. /\ n \in Nat /\ n >= 1 /\ DOMAIN cyc = 1..n /\ Head(cyc) = cyc[1] /\ Head(cyc) \in Worker
      /\ Tail(cyc) \in Seq(Worker) /\ Len(Tail(cyc)) = n - 1
      /\ \A i \in 1..(n - 1) : Tail(cyc)[i] = cyc[i + 1]
  BY <1>1
<1>3. /\ cyc' \in Seq(Worker) /\ Len(cyc') = n /\ DOMAIN cyc' = 1..n /\ cyc'[n] = cyc[1]
      /\ \A i \in 1..(n - 1) : cyc'[i] = cyc[i + 1]
  BY <1>2
<1> HIDE DEF n
<1>4. {cyc'[i] : i \in DOMAIN cyc'} = {cyc[i] : i \in DOMAIN cyc}
  <2>1. \A i \in 1..n : \E j \in 1..n : cyc'[i] = cyc[j]
    <3> SUFFICES ASSUME NEW i \in 1..n PROVE \E j \in 1..n : cyc'[i] = cyc[j]
      OBVIOUS
    <3>1. CASE i = n
      BY <1>2, <1>3, <3>1
    <3>2. CASE i # n
      <4>1. i + 1 \in 1..n /\ i \in 1..(n - 1)
        BY <1>2, <3>2
      <4> QED
        BY <1>3, <4>1
    <3> QED
      BY <3>1, <3>2
  <2>2. \A j \in 1..n : \E i \in 1..n : cyc'[i] = cyc[j]
    <3> SUFFICES ASSUME NEW j \in 1..n PROVE \E i \in 1..n : cyc'[i] = cyc[j]
      OBVIOUS
    <3>1. CASE j = 1
      BY <1>2, <1>3, <3>1
    <3>2. CASE j # 1
      <4>1. j - 1 \in 1..n /\ j - 1 \in 1..(n - 1) /\ j - 1 + 1 = j
        BY <1>2, <3>2
      <4> QED
        BY <1>3, <4>1
    <3> QED
      BY <3>1, <3>2
  <2>3. {cyc'[i] : i \in 1..n} \subseteq {cyc[i] : i \in 1..n}
    BY <2>1
  <2>4. {cyc[i] : i \in 1..n} \subseteq {cyc'[i] : i \in 1..n}
    BY <2>2
  <2> QED
    BY <1>2, <1>3, <2>3, <2>4
<1>5. Healthy' = Healthy
  BY DEF Healthy
<1> QED
  BY <1>1, <1>2, <1>3, <1>4, <1>5 DEF WorkersKept, CycleIsHealthy, n

\* What the calls have been counted for
CountsTyped ==
  /\ global_qps' \in [Seconds -> Nat] /\ user_qps' \in [Users -> [Seconds -> Nat]]
  /\ token_used' \in [Users -> Nat]

LEMMA LimitsSame ==
  ASSUME TypeOK, UNCHANGED limits
  PROVE  CountsTyped
BY DEF TypeOK, limits, CountsTyped

LEMMA Counted ==
  ASSUME TypeOK, NEW u \in Users, NEW n \in Nat, NEW refusal, Count(u, n, refusal)
  PROVE  CountsTyped
<1> DEFINE Add(passing) == IF u \notin Whitelist /\ refusal \in passing THEN 1 ELSE 0
<1>1. \A passing : Add(passing) \in Nat
  OBVIOUS
<1>2. PICK a, b, c : a = Add({"passed", "user"}) /\ b = Add({"passed"}) /\ c = n * Add({"passed"})
  OBVIOUS
<1>3. a \in Nat /\ b \in Nat /\ c \in Nat
  BY <1>1, <1>2
<1>4. /\ global_qps' = [global_qps EXCEPT ![now] = @ + a]
      /\ user_qps' = [user_qps EXCEPT ![u][now] = @ + b]
      /\ token_used' = [token_used EXCEPT ![u] = @ + c]
  BY <1>2 DEF Count
<1> HIDE DEF Add
<1>5. /\ now \in Seconds /\ global_qps \in [Seconds -> Nat]
      /\ user_qps \in [Users -> [Seconds -> Nat]] /\ token_used \in [Users -> Nat]
  BY DEF TypeOK
<1>6. user_qps' \in [Users -> [Seconds -> Nat]]
  <2>1. [user_qps[u] EXCEPT ![now] = @ + b] \in [Seconds -> Nat]
    BY <1>3, <1>5
  <2> QED
    BY <1>4, <1>5, <2>1
<1> QED
  BY <1>3, <1>4, <1>5, <1>6 DEF CountsTyped

LEMMA InvariantKept ==
  ASSUME IInv, WorkersKept, CountsTyped, now' \in Seconds, metrics' \in [Worker -> Metrics],
         log' \in Seq(Logged), calls' \subseteq DOMAIN log', LogIsPast', BannedAvoided'
  PROVE  IInv'
BY DEF IInv, TypeOK, WorkersKept, CountsTyped

LEMMA RequestStep ==
  ASSUME RouterAssumption, IInv, NEW u \in Users, Request(u)
  PROVE  IInv'
<1>1. TypeOK /\ now \in Seconds /\ metrics \in [Worker -> Metrics] /\ healthy \in Seq(Worker)
  BY DEF IInv, TypeOK
<1>2. Tokens \subseteq Nat
  BY DEF RouterAssumption
<1>3. ASSUME NEW n \in Tokens, NEW isNew \in BOOLEAN, ChatSingle(u, n, isNew)
      PROVE  IInv'
  <2> DEFINE e == Entry(u, n, healthy[1], "chat", isNew, "open")
  <2>1. /\ Len(healthy) = 1 /\ log' = Append(log, e) /\ calls' = calls \cup {Len(log) + 1}
        /\ UNCHANGED << now, healthy, cyc, metrics, limits >>
    BY <1>3 DEF ChatSingle, Place
  <2>2. n \in Nat /\ healthy[1] \in Worker
    <3>1. 1 \in DOMAIN healthy
      BY <1>1, <2>1
    <3> QED
      BY <1>1, <1>2, <3>1
  <2>3. e \in Logged /\ e.at = now /\ e.outcome = "open" /\ e.choices = 1
    <3>1. e \in Logged
      BY <1>1, <2>2, EntryType DEF Outcomes
    <3> QED
      BY <2>1, <3>1 DEF Entry
  <2> HIDE DEF e
  <2>4. /\ log' \in Seq(Logged) /\ calls' \subseteq DOMAIN log' /\ LogIsPast' /\ BannedAvoided'
    BY <2>1, <2>3, LogGrows
  <2> QED
    BY <1>1, <2>1, <2>4, WorkersSame, LimitsSame, InvariantKept
<1>4. ASSUME NEW n \in Tokens, NEW isNew \in BOOLEAN, ChatNobody(u, n, isNew)
      PROVE  IInv'
  <2> DEFINE e == Entry(u, n, "none", "chat", isNew, "unavailable")
  <2>1. /\ log' = Append(log, e) /\ calls' = calls
        /\ UNCHANGED << now, healthy, cyc, metrics, limits >>
    BY <1>4 DEF ChatNobody, Turned
  <2>2. n \in Nat
    BY <1>2
  <2>3. e \in Logged /\ e.at = now /\ e.outcome = "unavailable"
    <3>1. e \in Logged
      BY <1>1, <2>2, EntryType DEF Outcomes
    <3> QED
      BY <2>1, <3>1 DEF Entry
  <2> HIDE DEF e
  <2>4. /\ log' \in Seq(Logged) /\ calls' \subseteq DOMAIN log' /\ LogIsPast' /\ BannedAvoided'
    BY <2>1, <2>3, LogGrows DEF ServedOutcomes
  <2> QED
    BY <1>1, <2>1, <2>4, WorkersSame, LimitsSame, InvariantKept
<1>5. ASSUME NEW n \in Tokens, NEW isNew \in BOOLEAN, Chat(u, n, isNew)
      PROVE  IInv'
  <2>1. PICK w : w = Choice(u, Valid, Bound(u, isNew))
    OBVIOUS
  <2>2. PICK refusal : refusal = Refusal(u, n, w)
    OBVIOUS
  <2>3. /\ Valid # << >> /\ Count(u, n, refusal)
        /\ \/ refusal = "passed" /\ Place(u, n, w, "chat", isNew)
           \/ refusal # "passed" /\ Turned(u, n, isNew, refusal)
        /\ UNCHANGED << now, healthy, cyc, metrics >>
    BY <1>5, <2>1, <2>2 DEF Chat
  <2>4. w \in Worker /\ State(w) \in {"normal", "warning"} /\ n \in Nat
    BY <1>1, <1>2, <2>1, <2>3, ChoiceIsValid
  <2>5. refusal \in {"passed", "blacklisted", "loaded", "quota", "global", "user"}
    BY <2>2, RefusalType
  <2>6. PICK e \in Logged :
          /\ e.at = now /\ log' = Append(log, e)
          /\ \/ calls' = calls /\ e.outcome \notin ServedOutcomes
             \/ calls' = calls \cup {Len(log) + 1} /\ e.outcome = "open"
                  /\ e.state \in {"normal", "warning"}
    <3>1. CASE refusal = "passed"
      <4> DEFINE e == Entry(u, n, w, "chat", isNew, "open")
      <4>1. e \in Logged
        BY <1>1, <2>4, EntryType DEF Outcomes
      <4> QED
        BY <2>3, <2>4, <3>1, <4>1 DEF Place, Entry
    <3>2. CASE refusal # "passed"
      <4> DEFINE e == Entry(u, n, "none", "chat", isNew, refusal)
      <4>1. e \in Logged
        <5>1. refusal \in Outcomes
          BY <2>5, <3>2 DEF Outcomes
        <5> QED
          BY <1>1, <2>4, <5>1, EntryType
      <4> QED
        BY <2>3, <2>5, <3>2, <4>1 DEF Turned, Entry, ServedOutcomes
    <3> QED
      BY <3>1, <3>2
  <2>7. /\ log' \in Seq(Logged) /\ calls' \subseteq DOMAIN log' /\ LogIsPast' /\ BannedAvoided'
    BY <2>3, <2>6, LogGrows
  <2>8. CountsTyped
    BY <1>1, <2>3, <2>4, Counted
  <2> QED
    BY <1>1, <2>3, <2>7, <2>8, WorkersSame, InvariantKept
<1>6. ASSUME Generate(u)
      PROVE  IInv'
  <2> DEFINE e == Entry(u, 0, Head(cyc), "generate", FALSE, "open")
  <2>1. /\ healthy # << >> /\ log' = Append(log, e) /\ calls' = calls \cup {Len(log) + 1}
        /\ cyc' = Append(Tail(cyc), Head(cyc))
        /\ UNCHANGED << now, healthy, metrics, limits >>
    BY <1>6 DEF Generate, Place
  <2>2. WorkersKept /\ Head(cyc) \in Worker
    BY <2>1, Rotated
  <2>3. e \in Logged /\ e.at = now /\ e.outcome = "open" /\ e.api = "generate"
    <3>1. e \in Logged
      BY <1>1, <2>2, EntryType DEF Outcomes
    <3> QED
      BY <3>1 DEF Entry
  <2> HIDE DEF e
  <2>4. /\ log' \in Seq(Logged) /\ calls' \subseteq DOMAIN log' /\ LogIsPast' /\ BannedAvoided'
    BY <2>1, <2>3, LogGrows
  <2> QED
    BY <1>1, <2>1, <2>2, <2>4, LimitsSame, InvariantKept
<1> QED
  BY <1>3, <1>4, <1>5, <1>6 DEF Request

LEMMA CallEnds ==
  ASSUME IInv, NEW i \in calls, CallStep(i)
  PROVE  /\ \E outcome \in {"answered", "failed", "timeout"} : Close(i, outcome)
         /\ UNCHANGED << now, metrics, limits >> /\ WorkersKept
<1>1. CASE Answered(i)
  BY <1>1, WorkersSame DEF Answered, routing
<1>2. CASE BadStatus(i)
  BY <1>2, WorkersSame DEF BadStatus, routing
<1>3. CASE Fail(i)
  BY <1>3, MarkedUnhealthy DEF Fail
<1>4. CASE FailUnhandled(i)
  BY <1>4, WorkersSame DEF FailUnhandled, routing
<1> QED
  BY <1>1, <1>2, <1>3, <1>4 DEF CallStep

LEMMA CallStepKeeps ==
  ASSUME IInv, NEW i \in calls, CallStep(i)
  PROVE  IInv'
<1>1. TypeOK /\ now \in Seconds /\ metrics \in [Worker -> Metrics]
  BY DEF IInv, TypeOK
<1>2. /\ UNCHANGED << now, metrics, limits >> /\ WorkersKept
  BY CallEnds
<1>3. PICK outcome \in {"answered", "failed", "timeout"} : Close(i, outcome)
  BY CallEnds
<1>4. /\ log' \in Seq(Logged) /\ calls' \subseteq DOMAIN log' /\ LogIsPast' /\ BannedAvoided'
  BY <1>2, <1>3, LogCloses
<1> QED
  BY <1>1, <1>2, <1>4, LimitsSame, InvariantKept

LEMMA RecentType ==
  ASSUME NEW count \in [Seconds -> Nat]
  PROVE  Recent(count) \in [Seconds -> Nat]
BY DEF Recent

\* Steps that log nothing
LEMMA QuietStep ==
  ASSUME RouterAssumption, IInv, checking \in Nat \ {0},
         Loop \/ Environment \/ UNCHANGED vars
  PROVE  IInv' /\ UNCHANGED << log, calls >> /\ now' >= now
<1>1. /\ TypeOK /\ now \in Seconds /\ metrics \in [Worker -> Metrics] /\ MaxTime \in Nat
      /\ now \in Nat
  BY DEF IInv, TypeOK, Seconds, RouterAssumption
<1>2. CASE HealthCheck
  <2>1. UNCHANGED << now, metrics, limits, calls, log >>
    BY <1>2 DEF HealthCheck
  <2>2. Workers[checking] \in Worker
    BY <1>2 DEF HealthCheck, RouterAssumption
  <2>3. WorkersKept
    BY <1>2, <2>2, MarkedHealthy, MarkedUnhealthy DEF HealthCheck
  <2> QED
    BY <1>1, <2>1, <2>3, LimitsSame, LogSame, InvariantKept
<1>3. CASE Clean
  <2>1. UNCHANGED << now, metrics, healthy, cyc, token_used, calls, log >>
    BY <1>3 DEF Clean, routing
  <2>2. CountsTyped
    BY <1>1, <1>3, RecentType DEF Clean, CountsTyped, TypeOK
  <2> QED
    BY <1>1, <2>1, <2>2, WorkersSame, LogSame, InvariantKept
<1>4. CASE Tick
  <2>1. /\ now' = now + 1 /\ now' \in Seconds
        /\ UNCHANGED << metrics, healthy, cyc, limits, calls, log >>
    BY <1>1, <1>4 DEF Tick, routing, Seconds
  <2> QED
    BY <1>1, <2>1, WorkersSame, LimitsSame, LogSame, InvariantKept
<1>5. ASSUME NEW w \in Worker, Report(w)
      PROVE  IInv' /\ UNCHANGED << log, calls >> /\ now' >= now
  <2>1. UNCHANGED << now, healthy, cyc, limits, calls, log >>
    BY <1>5 DEF Report
  <2>2. metrics' \in [Worker -> Metrics]
    BY <1>1, <1>5 DEF Report, RouterAssumption
  <2> QED
    BY <1>1, <2>1, <2>2, WorkersSame, LimitsSame, LogSame, InvariantKept
<1>6. ASSUME NEW w \in Worker, Crash(w) \/ Restart(w)
      PROVE  IInv' /\ UNCHANGED << log, calls >> /\ now' >= now
  <2>1. UNCHANGED << now, metrics, healthy, cyc, limits, calls, log >>
    BY <1>6 DEF Crash, Restart, routing
  <2> QED
    BY <1>1, <2>1, WorkersSame, LimitsSame, LogSame, InvariantKept
<1>7. CASE UNCHANGED vars
  <2>1. UNCHANGED << now, metrics, healthy, cyc, limits, calls, log >>
    BY <1>7 DEF vars, routing
  <2> QED
    BY <1>1, <2>1, WorkersSame, LimitsSame, LogSame, InvariantKept
<1> QED
  BY <1>2, <1>3, <1>4, <1>5, <1>6, <1>7 DEF Loop, Environment

LEMMA InitInv ==
  ASSUME RouterAssumption, Init
  PROVE  IInv
<1>1. /\ now = 0 /\ healthy = Workers /\ cyc = Workers /\ metrics = [w \in Worker |-> Initial]
      /\ global_qps = Never /\ user_qps = [u \in Users |-> Never]
      /\ token_used = [u \in Users |-> 0] /\ calls = {} /\ log = << >>
  BY DEF Init
<1>2. Never \in [Seconds -> Nat] /\ 0 \in Seconds
  BY DEF Never, Seconds, RouterAssumption
<1>3. Initial \in Metrics
  BY DEF Initial, Metrics
<1>4. TypeOK
  BY <1>1, <1>2, <1>3 DEF TypeOK, RouterAssumption
<1>5. LogIsPast /\ CycleIsHealthy /\ BannedAvoided
  BY <1>1 DEF LogIsPast, CycleIsHealthy, Healthy, BannedAvoided, Served
<1> QED
  BY <1>4, <1>5 DEF IInv

LEMMA CheckingStep ==
  ASSUME checking \in Nat \ {0}, [Next]_vars
  PROVE  checking' \in Nat \ {0}
<1>1. ASSUME NEW u \in Users, Request(u) PROVE checking' = checking
  BY <1>1 DEF Request, ChatSingle, ChatNobody, Chat, Generate
<1>2. ASSUME NEW i \in calls, CallStep(i) PROVE checking' = checking
  BY <1>2 DEF CallStep, Answered, BadStatus, Fail, FailUnhandled
<1>3. CASE Loop
  BY <1>3 DEF Loop, HealthCheck, Clean
<1>4. CASE Environment
  BY <1>4 DEF Environment, Tick, Report, Crash, Restart
<1>5. CASE UNCHANGED vars
  BY <1>5 DEF vars
<1> QED
  BY <1>1, <1>2, <1>3, <1>4, <1>5 DEF Next

Inv == IInv /\ checking \in Nat \ {0}

LEMMA InvStep ==
  ASSUME RouterAssumption, Inv, [Next]_vars
  PROVE  Inv'
BY RequestStep, CallStepKeeps, QuietStep, CheckingStep DEF Next, Inv

LEMMA InvAlways ==
  ASSUME RouterAssumption PROVE Spec => []Inv
<1>1. Init => Inv
  BY InitInv DEF Init, Inv
<1>2. Inv /\ [Next]_vars => Inv'
  BY InvStep
<1> QED
  BY <1>1, <1>2, PTL DEF Spec

-----------------------------------------------------------------------------
\* A call goes to no worker that is banned or restricted, whatever is reported,
\* however bans begin and end, and whatever fails between the calls: of several
\* healthy workers only one whose state at that moment is normal or warning is
\* chosen (RouterState.select_available_worker).  And the cycle of /generate is a
\* rotation of the healthy list after every mark of a call or a check.
THEOREM OnlyFitWorkersGetCalls == ASSUME RouterAssumption PROVE Spec => []ChosenAreFit
<1>1. Inv => ChosenAreFit
  BY DEF Inv, IInv, ChosenAreFit
<1> QED
  BY <1>1, InvAlways, PTL

-----------------------------------------------------------------------------
(* Sticky bindings. *)

LEMMA BoundFacts ==
  ASSUME NEW u, NEW isNew \in BOOLEAN
  PROVE  /\ \A v \in DOMAIN sticky : v \in DOMAIN Bound(u, isNew) => Bound(u, isNew)[v] = sticky[v]
         /\ ~ isNew => Bound(u, isNew) = sticky
BY DEF Bound, RestrictDomain, Restrict

LEMMA ChatKeepsSticky ==
  ASSUME Inv, NEW u \in Users, NEW n \in Tokens, NEW isNew \in BOOLEAN, Chat(u, n, isNew)
  PROVE  KeepsSticky
<1>1. TypeOK /\ log \in Seq(Logged)
  BY DEF Inv, IInv, TypeOK
<1>2. PICK w : w = Choice(u, Valid, Bound(u, isNew))
  OBVIOUS
<1>3. PICK refusal : refusal = Refusal(u, n, w)
  OBVIOUS
<1>4. \/ Place(u, n, w, "chat", isNew)
           /\ sticky' = [v \in DOMAIN sticky \cup {u} |-> IF v = u THEN w ELSE sticky[v]]
      \/ sticky' = Bound(u, isNew)
  BY <1>2, <1>3 DEF Chat
<1> SUFFICES ASSUME NEW v \in DOMAIN sticky, v \in DOMAIN sticky', sticky'[v] # sticky[v],
                    \E i \in DOMAIN Valid : Valid[i] = sticky[v]
             PROVE  log'[Len(log')].fresh
  BY DEF KeepsSticky
<1>5. CASE sticky' = Bound(u, isNew)
  BY <1>5, BoundFacts
<1>6. CASE Place(u, n, w, "chat", isNew)
           /\ sticky' = [x \in DOMAIN sticky \cup {u} |-> IF x = u THEN w ELSE sticky[x]]
  <2>1. v = u /\ w # sticky[u]
    BY <1>6
  <2>2. isNew
    <3> SUFFICES ASSUME ~ isNew PROVE FALSE
      OBVIOUS
    <3>1. w = sticky[u]
      BY <1>2, <2>1, BoundFacts DEF Choice
    <3> QED
      BY <2>1, <3>1
  <2>3. log'[Len(log')].fresh = isNew
    <3>1. log' = Append(log, Entry(u, n, w, "chat", isNew, "open"))
      BY <1>6 DEF Place
    <3>2. log'[Len(log')] = Entry(u, n, w, "chat", isNew, "open")
      BY <1>1, <3>1
    <3> QED
      BY <3>2 DEF Entry
  <2> QED
    BY <2>2, <2>3
<1> QED
  BY <1>4, <1>5, <1>6

LEMMA StickyStep ==
  ASSUME Inv, [Next]_vars
  PROVE  [KeepsSticky]_vars
<1>1. sticky' = sticky => KeepsSticky
  BY DEF KeepsSticky
<1>2. ASSUME NEW u \in Users, Request(u) PROVE KeepsSticky
  <2>1. ASSUME NEW n \in Tokens, NEW isNew \in BOOLEAN,
               ChatSingle(u, n, isNew) \/ ChatNobody(u, n, isNew)
        PROVE  KeepsSticky
    <3>1. sticky' \in {sticky, Bound(u, isNew)}
      BY <2>1 DEF ChatSingle, ChatNobody
    <3> QED
      BY <1>1, <3>1, BoundFacts DEF KeepsSticky
  <2>2. CASE Generate(u)
    BY <1>1, <2>2 DEF Generate
  <2> QED
    BY <1>2, <2>1, <2>2, ChatKeepsSticky DEF Request
<1>3. ASSUME NEW i \in calls, CallStep(i) PROVE KeepsSticky
  BY <1>1, <1>3 DEF CallStep, Answered, BadStatus, Fail, FailUnhandled, routing
<1>4. CASE Loop
  BY <1>1, <1>4 DEF Loop, HealthCheck, Clean, routing
<1>5. CASE Environment
  BY <1>1, <1>5 DEF Environment, Tick, Report, Crash, Restart, routing
<1>6. CASE UNCHANGED vars
  BY <1>6
<1> QED
  BY <1>2, <1>3, <1>4, <1>5, <1>6 DEF Next

\* A user is bound to another worker only when it begins a new session or its worker
\* is not valid at that moment, whatever else the router does.
THEOREM BindingsAreSticky == ASSUME RouterAssumption PROVE Spec => StickyKept
<1>1. Inv /\ [Next]_vars => [KeepsSticky]_vars
  BY StickyStep
<1> QED
  BY <1>1, InvAlways, PTL DEF Spec, StickyKept

-----------------------------------------------------------------------------
(* Sums over sets of calls. *)

\* The tokens of the calls in S of a log q
TokenSum(q, S) == MapThenSumSet(LAMBDA i : q[i].tokens, S)

\* g is the function that sum looks up
Next1(s) == CHOOSE x \in s : TRUE
SumOf(g, q, s) == IF s = {} THEN 0 ELSE q[Next1(s)].tokens + g[s \ {Next1(s)}]
Sums(g, q, S) == g = [s \in SUBSET S |-> SumOf(g, q, s)]

LEMMA SumsExists ==
  ASSUME NEW q, NEW S, IsFiniteSet(S)
  PROVE  \E g : Sums(g, q, S)
<1> DEFINE P(k) == \E g : /\ g = [s \in SUBSET S |-> g[s]]
                          /\ \A s \in SUBSET S : Cardinality(s) <= k => g[s] = SumOf(g, q, s)
           n == Cardinality(S)
           B == {k \in 0..n : ~ P(k)}
<1>1. n \in Nat /\ \A s \in SUBSET S : IsFiniteSet(s) /\ Cardinality(s) \in Nat /\ Cardinality(s) <= n
  BY FS_CardinalityType, FS_Subset
<1> HIDE DEF n, P
<1>2. ASSUME B # {} PROVE FALSE
  <2>1. B \in SUBSET Nat
    BY <1>1
  <2>2. PICK k \in B : \A j \in B : k <= j
    <3> HIDE DEF B
    <3> QED
      BY <1>2, <2>1, SmallestNat
  <2>3. k \in 0..n /\ k \in Nat /\ ~ P(k)
    BY <1>1, <2>2
  <2>4. CASE k = 0
    <3> DEFINE g == [s \in SUBSET S |-> 0]
    <3>1. \A s \in SUBSET S : Cardinality(s) <= 0 => s = {}
      BY <1>1, FS_EmptySet
    <3>2. \A s \in SUBSET S : Cardinality(s) <= k => g[s] = SumOf(g, q, s)
      BY <2>4, <3>1 DEF SumOf
    <3>3. g = [s \in SUBSET S |-> g[s]]
      OBVIOUS
    <3> HIDE DEF g
    <3>4. P(k)
      BY <3>2, <3>3 DEF P
    <3> QED
      BY <2>3, <3>4
  <2>5. CASE k # 0
    <3>1. k - 1 \in Nat /\ k - 1 \in 0..n /\ P(k - 1)
      BY <1>1, <2>2, <2>3, <2>5
    <3>2. PICK f : /\ f = [s \in SUBSET S |-> f[s]]
                   /\ \A s \in SUBSET S : Cardinality(s) <= k - 1 => f[s] = SumOf(f, q, s)
      BY <3>1 DEF P
    <3> PICK g : g = [s \in SUBSET S |-> IF Cardinality(s) = k THEN SumOf(f, q, s) ELSE f[s]]
      OBVIOUS
    <3>3. ASSUME NEW s \in SUBSET S, s # {}, Cardinality(s) <= k
          PROVE  g[s \ {Next1(s)}] = f[s \ {Next1(s)}] /\ s \ {Next1(s)} \in SUBSET S
      <4>1. Next1(s) \in s
        BY <3>3 DEF Next1
      <4>2. Cardinality(s \ {Next1(s)}) = Cardinality(s) - 1
        BY <1>1, <4>1, FS_RemoveElement
      <4>3. s \ {Next1(s)} \in SUBSET S /\ Cardinality(s) \in Nat
        BY <1>1
      <4>4. Cardinality(s \ {Next1(s)}) # k
        BY <2>3, <3>3, <4>2, <4>3
      <4> QED
        BY <4>3, <4>4
    <3>4. ASSUME NEW s \in SUBSET S, Cardinality(s) <= k
          PROVE  SumOf(g, q, s) = SumOf(f, q, s)
      BY <3>3, <3>4 DEF SumOf
    <3>5. ASSUME NEW s \in SUBSET S, Cardinality(s) <= k
          PROVE  g[s] = SumOf(g, q, s)
      <4>1. CASE Cardinality(s) = k
        BY <3>4, <3>5, <4>1
      <4>2. CASE Cardinality(s) # k
        <5>1. Cardinality(s) <= k - 1
          BY <1>1, <2>3, <3>5, <4>2
        <5> QED
          BY <3>2, <3>4, <3>5, <4>2, <5>1
      <4> QED
        BY <4>1, <4>2
    <3>6. g = [s \in SUBSET S |-> g[s]]
      OBVIOUS
    <3>7. P(k)
      BY <3>5, <3>6 DEF P
    <3> QED
      BY <2>3, <3>7
  <2> QED
    BY <2>4, <2>5
<1>3. P(n)
  BY <1>1, <1>2
<1>4. PICK g : /\ g = [s \in SUBSET S |-> g[s]]
               /\ \A s \in SUBSET S : Cardinality(s) <= n => g[s] = SumOf(g, q, s)
  BY <1>3 DEF P
<1>5. \A s \in SUBSET S : g[s] = SumOf(g, q, s)
  BY <1>1, <1>4
<1>6. Sums(g, q, S)
  BY <1>4, <1>5 DEF Sums
<1> QED
  BY <1>6

\* A smallest one among the finite sets of a family
LEMMA SmallestSet ==
  ASSUME NEW S, IsFiniteSet(S), NEW F \in SUBSET (SUBSET S), F # {}
  PROVE  \E s \in F : \A t \in F : Cardinality(s) <= Cardinality(t)
<1> DEFINE T == {Cardinality(s) : s \in F}
<1>1. \A s \in F : Cardinality(s) \in Nat
  BY FS_CardinalityType, FS_Subset
<1>2. T \in SUBSET Nat /\ T # {}
  BY <1>1
<1>3. PICK m \in T : \A k \in T : m <= k
  <2> HIDE DEF T
  <2> QED
    BY <1>2, SmallestNat
<1> QED
  BY <1>3

\* Two such functions agree where both are defined, and where the logs do.
LEMMA SumsAgree ==
  ASSUME NEW q, NEW p, NEW S, NEW T, IsFiniteSet(S), IsFiniteSet(T), T \subseteq S,
         \A i \in T : p[i].tokens = q[i].tokens,
         NEW g, NEW h, Sums(g, q, S), Sums(h, p, T)
  PROVE  \A s \in SUBSET T : h[s] = g[s]
<1> DEFINE F == {s \in SUBSET T : h[s] # g[s]}
<1>1. ASSUME F # {} PROVE FALSE
  <2>1. F \in SUBSET (SUBSET T)
    OBVIOUS
  <2>2. PICK s \in F : \A t \in F : Cardinality(s) <= Cardinality(t)
    <3> HIDE DEF F
    <3> QED
      BY <1>1, <2>1, SmallestSet
  <2>3. s \in SUBSET T /\ s \in SUBSET S /\ h[s] # g[s]
    BY <2>2
  <2>4. g[s] = SumOf(g, q, s) /\ h[s] = SumOf(h, p, s)
    BY <2>3 DEF Sums
  <2>5. s # {}
    BY <2>3, <2>4 DEF SumOf
  <2> DEFINE x == Next1(s)
  <2>6. x \in s
    BY <2>5 DEF Next1
  <2>7. Cardinality(s \ {x}) = Cardinality(s) - 1 /\ Cardinality(s) \in Nat /\ s \ {x} \in SUBSET T
    BY <2>3, <2>6, FS_RemoveElement, FS_Subset, FS_CardinalityType
  <2>8. s \ {x} \notin F
    <3> HIDE DEF F, x
    <3> QED
      BY <2>2, <2>7
  <2>9. h[s \ {x}] = g[s \ {x}]
    BY <2>7, <2>8
  <2> QED
    BY <2>3, <2>4, <2>5, <2>6, <2>9 DEF SumOf
<1> QED
  BY <1>1

\* It does not matter which element is taken first.
LEMMA SumsAny ==
  ASSUME NEW q, NEW S, IsFiniteSet(S), \A i \in S : q[i].tokens \in Nat, NEW g, Sums(g, q, S)
  PROVE  \A s \in SUBSET S :
           g[s] \in Nat /\ \A x \in s : g[s] = q[x].tokens + g[s \ {x}]
<1> DEFINE Fine(s) == g[s] \in Nat /\ \A x \in s : g[s] = q[x].tokens + g[s \ {x}]
           F == {s \in SUBSET S : ~ Fine(s)}
<1>1. ASSUME F # {} PROVE FALSE
  <2>1. F \in SUBSET (SUBSET S)
    OBVIOUS
  <2>2. PICK s \in F : \A t \in F : Cardinality(s) <= Cardinality(t)
    <3> HIDE DEF F
    <3> QED
      BY <1>1, <2>1, SmallestSet
  <2>3. s \in SUBSET S /\ ~ Fine(s)
    BY <2>2
  <2>4. \A t \in SUBSET S : g[t] = SumOf(g, q, t)
    BY DEF Sums
  <2>5. CASE s = {}
    <3>1. g[s] = 0
      BY <2>3, <2>4, <2>5 DEF SumOf
    <3> QED
      BY <2>3, <2>5, <3>1
  <2>6. CASE s # {}
    <3> PICK y : y = Next1(s)
      OBVIOUS
    <3>1. y \in s /\ g[s] = q[y].tokens + g[s \ {y}]
      BY <2>3, <2>4, <2>6 DEF SumOf, Next1
    <3>2. \A x \in s : s \ {x} \in SUBSET S /\ Fine(s \ {x})
      <4> SUFFICES ASSUME NEW x \in s PROVE s \ {x} \in SUBSET S /\ Fine(s \ {x})
        OBVIOUS
      <4>1. Cardinality(s \ {x}) = Cardinality(s) - 1 /\ Cardinality(s) \in Nat /\ s \ {x} \in SUBSET S
        BY <2>3, FS_RemoveElement, FS_Subset, FS_CardinalityType
      <4>2. s \ {x} \notin F
        <5> HIDE DEF F
        <5> QED
          BY <2>2, <4>1
      <4> QED
        BY <4>1, <4>2
    <3>3. q[y].tokens \in Nat /\ g[s \ {y}] \in Nat
      BY <2>3, <3>1, <3>2
    <3>4. ASSUME NEW x \in s PROVE g[s] = q[x].tokens + g[s \ {x}]
      <4>1. CASE x = y
        BY <3>1, <4>1
      <4>2. CASE x # y
        <5> DEFINE t == (s \ {x}) \ {y}
        <5>1. x \in s \ {y} /\ y \in s \ {x} /\ (s \ {y}) \ {x} = t
          BY <3>1, <4>2
        <5>2. g[s \ {y}] = q[x].tokens + g[t] /\ g[s \ {x}] = q[y].tokens + g[t]
          <6>1. Fine(s \ {y}) /\ Fine(s \ {x})
            BY <3>1, <3>2
          <6>2. g[s \ {y}] = q[x].tokens + g[(s \ {y}) \ {x}]
            BY <5>1, <6>1
          <6>3. g[s \ {x}] = q[y].tokens + g[(s \ {x}) \ {y}]
            BY <5>1, <6>1
          <6> QED
            BY <5>1, <6>2, <6>3
        <5>3. q[x].tokens \in Nat /\ t \in SUBSET S /\ g[t] \in Nat
          <6>1. q[x].tokens \in Nat /\ t \in SUBSET S
            BY <2>3
          <6>2. Cardinality(t) < Cardinality(s)
            <7>1. /\ Cardinality(s \ {x}) = Cardinality(s) - 1 /\ Cardinality(s) \in Nat
                  /\ IsFiniteSet(s \ {x})
              BY <2>3, FS_RemoveElement, FS_Subset, FS_CardinalityType
            <7>2. Cardinality(t) = Cardinality(s \ {x}) - 1
              BY <5>1, <7>1, FS_RemoveElement
            <7> QED
              BY <7>1, <7>2
          <6>3. t \notin F
            <7>1. Cardinality(t) \in Nat /\ Cardinality(s) \in Nat
              BY <2>3, <6>1, FS_Subset, FS_CardinalityType
            <7> HIDE DEF F, t
            <7> QED
              BY <2>2, <6>2, <7>1
          <6> QED
            BY <6>1, <6>3
        <5> HIDE DEF t
        <5> QED
          BY <3>1, <3>3, <5>2, <5>3
      <4> QED
        BY <4>1, <4>2
    <3>5. g[s] \in Nat
      BY <3>1, <3>3
    <3>6. Fine(s)
      BY <3>4, <3>5
    <3> QED
      BY <2>3, <3>6
  <2> QED
    BY <2>5, <2>6
<1> QED
  BY <1>1

LEMMA SumsLess ==
  ASSUME NEW q, NEW S, IsFiniteSet(S), \A i \in S : q[i].tokens \in Nat, NEW g, Sums(g, q, S),
         NEW x \in S
  PROVE  g[S] = q[x].tokens + g[S \ {x}] /\ g[S \ {x}] \in Nat
<1>1. S \in SUBSET S /\ S \ {x} \in SUBSET S
  OBVIOUS
<1>2. \A s \in SUBSET S : g[s] \in Nat /\ \A y \in s : g[s] = q[y].tokens + g[s \ {y}]
  BY SumsAny
<1> QED
  BY <1>1, <1>2

LEMMA TokenSumIs ==
  ASSUME NEW q, NEW S, IsFiniteSet(S)
  PROVE  \E g : Sums(g, q, S) /\ TokenSum(q, S) = g[S]
<1> DEFINE P(g) == g = [s \in SUBSET S |->
                          IF s = {} THEN 0
                          ELSE q[CHOOSE x \in s : TRUE].tokens + g[s \ {CHOOSE x \in s : TRUE}]]
           c == CHOOSE g : P(g)
<1>1. \A g : P(g) <=> Sums(g, q, S)
  BY DEF Sums, SumOf, Next1
<1>2. TokenSum(q, S) = c[S]
  BY DEF TokenSum, MapThenSumSet, MapThenFoldSet
<1>3. P(c)
  <2>1. PICK g : Sums(g, q, S)
    BY SumsExists
  <2>2. P(g)
    BY <1>1, <2>1
  <2> HIDE DEF P
  <2> QED
    BY <2>2
<1> HIDE DEF c
<1> QED
  BY <1>1, <1>2, <1>3

\* One more call adds its tokens.
LEMMA TokenSumAdds ==
  ASSUME NEW q, NEW p, NEW S, IsFiniteSet(S), NEW x, x \notin S, q[x].tokens \in Nat,
         \A i \in S : q[i].tokens = p[i].tokens /\ p[i].tokens \in Nat
  PROVE  TokenSum(q, S \cup {x}) = TokenSum(p, S) + q[x].tokens
<1> DEFINE T == S \cup {x}
<1>1. IsFiniteSet(T) /\ x \in T /\ T \ {x} = S /\ S \in SUBSET T
  BY FS_AddElement
<1> HIDE DEF T
<1>2. PICK g : Sums(g, q, T) /\ TokenSum(q, T) = g[T]
  BY <1>1, TokenSumIs
<1>3. PICK h : Sums(h, p, S) /\ TokenSum(p, S) = h[S]
  BY TokenSumIs
<1>4. h[S] = g[S]
  <2>1. S \subseteq T /\ \A i \in S : p[i].tokens = q[i].tokens
    BY <1>1
  <2>2. \A s \in SUBSET S : h[s] = g[s]
    BY <1>1, <1>2, <1>3, <2>1, SumsAgree
  <2> QED
    BY <2>2
<1>5. \A i \in T : q[i].tokens \in Nat
  BY DEF T
<1>6. g[T] = q[x].tokens + g[S] /\ g[S] \in Nat
  BY <1>1, <1>2, <1>5, SumsLess
<1> QED
  BY <1>2, <1>3, <1>4, <1>6 DEF T

LEMMA TokenSumSame ==
  ASSUME NEW q, NEW p, NEW S, IsFiniteSet(S), \A i \in S : q[i].tokens = p[i].tokens
  PROVE  TokenSum(q, S) = TokenSum(p, S)
<1>1. PICK g : Sums(g, q, S) /\ TokenSum(q, S) = g[S]
  BY TokenSumIs
<1>2. PICK h : Sums(h, p, S) /\ TokenSum(p, S) = h[S]
  BY TokenSumIs
<1>3. h[S] = g[S]
  <2>1. \A i \in S : p[i].tokens = q[i].tokens
    OBVIOUS
  <2>2. \A s \in SUBSET S : h[s] = g[s]
    BY <1>1, <1>2, <2>1, SumsAgree
  <2> QED
    BY <2>2
<1> QED
  BY <1>1, <1>2, <1>3

-----------------------------------------------------------------------------
(* The limits. *)

\* The calls of a log q that went through the rejector, those of a second, those of
\* a user in it, and all of a user
LimitedIn(q) ==
  {i \in DOMAIN q : /\ q[i].outcome \in ServedOutcomes /\ q[i].api = "chat"
                    /\ q[i].choices > 1 /\ q[i].user \notin Whitelist}
LimitedAt(q, t) == {i \in LimitedIn(q) : q[i].at = t}
LimitedFor(q, t, u) == {i \in LimitedIn(q) : q[i].at = t /\ q[i].user = u}
LimitedOf(q, u) == {i \in LimitedIn(q) : q[i].user = u}

\* What was granted is within the limits, and what was granted in the second that
\* runs has been counted.
Granted ==
  /\ \A t \in Seconds :
       /\ Cardinality(LimitedAt(log, t)) <= MaxGlobalQps
       /\ \A u \in Users : Cardinality(LimitedFor(log, t, u)) <= MaxUserQps
  /\ Cardinality(LimitedAt(log, now)) <= global_qps[now]
  /\ \A u \in Users : Cardinality(LimitedFor(log, now, u)) <= user_qps[u][now]

\* What a user was granted is what has been counted.
Paid ==
  \A u \in Users : /\ token_used[u] = TokenSum(log, LimitedOf(log, u))
                   /\ token_used[u] <= TokenQuota

LEMMA LimitedFinite ==
  ASSUME NEW q \in Seq(Logged)
  PROVE  /\ IsFiniteSet(LimitedIn(q))
         /\ \A t : IsFiniteSet(LimitedAt(q, t))
         /\ \A t, u : IsFiniteSet(LimitedFor(q, t, u))
         /\ \A u : IsFiniteSet(LimitedOf(q, u))
<1>1. Len(q) \in Nat /\ DOMAIN q = 1..Len(q)
  OBVIOUS
<1>2. IsFiniteSet(1..Len(q))
  BY <1>1, FS_Interval
<1>3. LimitedIn(q) \subseteq 1..Len(q)
  BY <1>1 DEF LimitedIn
<1>4. IsFiniteSet(LimitedIn(q))
  BY <1>2, <1>3, FS_Subset
<1>5. \A t : LimitedAt(q, t) \subseteq LimitedIn(q)
  BY DEF LimitedAt
<1>6. \A t, u : LimitedFor(q, t, u) \subseteq LimitedIn(q)
  BY DEF LimitedFor
<1>7. \A u : LimitedOf(q, u) \subseteq LimitedIn(q)
  BY DEF LimitedOf
<1> QED
  BY <1>4, <1>5, <1>6, <1>7, FS_Subset

\* The calls that went through the rejector are the same, for the same.
SameCalls ==
  /\ LimitedIn(log') = LimitedIn(log)
  /\ \A i \in LimitedIn(log) :
       log'[i].at = log[i].at /\ log'[i].user = log[i].user /\ log'[i].tokens = log[i].tokens

LEMMA NotLimited ==
  ASSUME IInv, NEW e, log' = Append(log, e),
         \/ e.outcome \notin ServedOutcomes \/ e.api # "chat" \/ ~ (e.choices > 1)
         \/ e.user \in Whitelist
  PROVE  SameCalls
<1>1. log \in Seq(Logged) /\ Len(log) \in Nat /\ DOMAIN log = 1..Len(log)
  BY DEF IInv, TypeOK
<1>2. /\ DOMAIN log' = 1..(Len(log) + 1) /\ log'[Len(log) + 1] = e
      /\ \A i \in DOMAIN log : log'[i] = log[i]
  BY <1>1
<1>3. \A i \in DOMAIN log' : i \in DOMAIN log \/ i = Len(log) + 1
  BY <1>1, <1>2
<1>4. DOMAIN log \subseteq DOMAIN log'
  BY <1>1, <1>2
<1>5. LimitedIn(log') = LimitedIn(log)
  BY <1>2, <1>3, <1>4 DEF LimitedIn
<1> QED
  BY <1>2, <1>5 DEF SameCalls, LimitedIn

LEMMA EndedSame ==
  ASSUME IInv, NEW i \in calls, NEW outcome \in {"answered", "failed", "timeout"},
         Close(i, outcome), now' = now
  PROVE  SameCalls
<1>1. /\ Len(log') = Len(log) /\ Served' = Served /\ log' \in Seq(Logged)
      /\ \A j \in DOMAIN log :
           /\ log'[j].user = log[j].user /\ log'[j].tokens = log[j].tokens
           /\ log'[j].api = log[j].api /\ log'[j].choices = log[j].choices
           /\ log'[j].at = log[j].at
  BY LogCloses
<1>2. log \in Seq(Logged) /\ DOMAIN log' = DOMAIN log
  BY <1>1 DEF IInv, TypeOK
<1>3. \A j \in DOMAIN log : log'[j].outcome \in ServedOutcomes <=> log[j].outcome \in ServedOutcomes
  BY <1>1, <1>2 DEF Served, ServedOutcomes
<1>4. LimitedIn(log') = LimitedIn(log)
  BY <1>1, <1>2, <1>3 DEF LimitedIn
<1> QED
  BY <1>1, <1>4 DEF SameCalls, LimitedIn

\* Nothing is granted, and no count of this second is lost.
LEMMA NothingGranted ==
  ASSUME RouterAssumption, IInv, IInv', Granted, Paid, SameCalls, now' = now,
         global_qps'[now] >= global_qps[now],
         \A u \in Users : user_qps'[u][now] >= user_qps[u][now],
         token_used' = token_used
  PROVE  Granted' /\ Paid'
<1>1. /\ log \in Seq(Logged) /\ log' \in Seq(Logged) /\ now \in Seconds
      /\ global_qps[now] \in Nat /\ global_qps'[now] \in Nat
      /\ \A u \in Users : user_qps[u][now] \in Nat /\ user_qps'[u][now] \in Nat
  BY DEF IInv, TypeOK
<1>2. \A t : LimitedAt(log', t) = LimitedAt(log, t)
  BY DEF SameCalls, LimitedAt
<1>3. \A t, u : LimitedFor(log', t, u) = LimitedFor(log, t, u)
  BY DEF SameCalls, LimitedFor
<1>4. \A u : LimitedOf(log', u) = LimitedOf(log, u)
  BY DEF SameCalls, LimitedOf
<1>5. Granted'
  <2>1. \A t : Cardinality(LimitedAt(log, t)) \in Nat
    BY <1>1, LimitedFinite, FS_CardinalityType
  <2>2. \A t, u : Cardinality(LimitedFor(log, t, u)) \in Nat
    BY <1>1, LimitedFinite, FS_CardinalityType
  <2>3. Cardinality(LimitedAt(log', now')) <= global_qps'[now']
    BY <1>1, <1>2, <2>1 DEF Granted
  <2>4. \A u \in Users : Cardinality(LimitedFor(log', now', u)) <= user_qps'[u][now']
    BY <1>1, <1>3, <2>2 DEF Granted
  <2> QED
    BY <1>2, <1>3, <2>3, <2>4 DEF Granted
<1>6. Paid'
  <2>1. \A u : TokenSum(log', LimitedOf(log', u)) = TokenSum(log, LimitedOf(log, u))
    <3> SUFFICES ASSUME NEW u
                 PROVE  TokenSum(log', LimitedOf(log', u)) = TokenSum(log, LimitedOf(log, u))
      OBVIOUS
    <3>1. IsFiniteSet(LimitedOf(log, u))
      BY <1>1, LimitedFinite
    <3>2. \A i \in LimitedOf(log, u) : log'[i].tokens = log[i].tokens
      BY DEF SameCalls, LimitedOf
    <3>3. TokenSum(log', LimitedOf(log, u)) = TokenSum(log, LimitedOf(log, u))
      BY <3>1, <3>2, TokenSumSame
    <3> QED
      BY <1>4, <3>3
  <2> QED
    BY <2>1 DEF Paid
<1> QED
  BY <1>5, <1>6

\* The next second begins: nothing was granted in it.
LEMMA SecondBegins ==
  ASSUME RouterAssumption, IInv, IInv', Granted, Paid, log' = log, now' = now + 1,
         UNCHANGED limits
  PROVE  Granted' /\ Paid'
<1>1. log \in Seq(Logged) /\ now \in Nat /\ \A i \in DOMAIN log : log[i].at <= now
  <2>1. log \in Seq(Logged) /\ now \in Seconds
    BY DEF IInv, TypeOK
  <2> QED
    BY <2>1 DEF IInv, LogIsPast, Seconds, RouterAssumption
<1>a. /\ now' \in Seconds /\ global_qps' \in [Seconds -> Nat]
      /\ user_qps' \in [Users -> [Seconds -> Nat]]
  BY DEF IInv, TypeOK
<1>b. global_qps'[now'] \in Nat /\ \A u \in Users : user_qps'[u][now'] \in Nat
  BY <1>a
<1>2. LimitedAt(log, now') = {} /\ \A u : LimitedFor(log, now', u) = {}
  <2>1. \A i \in DOMAIN log : log[i].at # now'
    <3>a. \A i \in DOMAIN log : log[i] \in Logged
      BY <1>1
    <3>1. \A i \in DOMAIN log : log[i].at \in Nat
      BY <3>a DEF Logged
    <3> QED
      BY <1>1, <3>1
  <2> QED
    BY <2>1 DEF LimitedAt, LimitedFor, LimitedIn
<1>3. Granted'
  <2>1. Cardinality({}) = 0
    BY FS_EmptySet
  <2>2. /\ Cardinality(LimitedAt(log', now')) <= global_qps'[now']
        /\ \A u \in Users : Cardinality(LimitedFor(log', now', u)) <= user_qps'[u][now']
    BY <1>2, <1>b, <2>1
  <2>3. \A t \in Seconds :
          /\ Cardinality(LimitedAt(log', t)) <= MaxGlobalQps
          /\ \A u \in Users : Cardinality(LimitedFor(log', t, u)) <= MaxUserQps
    BY DEF Granted
  <2> QED
    BY <2>2, <2>3 DEF Granted
<1>4. Paid'
  BY DEF Paid, limits
<1> QED
  BY <1>3, <1>4

\* A log q is p with one more call x that went through the rejector.
LEMMA OneMore ==
  ASSUME NEW p \in Seq(Logged), NEW q, NEW x, x \notin DOMAIN p, DOMAIN q = DOMAIN p \cup {x},
         \A i \in DOMAIN p : q[i] = p[i],
         q[x].outcome = "open", q[x].api = "chat", q[x].choices > 1, q[x].user \notin Whitelist
  PROVE  /\ x \notin LimitedIn(p) /\ LimitedIn(q) = LimitedIn(p) \cup {x}
         /\ \A i \in LimitedIn(p) : q[i] = p[i] /\ p[i].tokens \in Nat
<1>1. \A i \in DOMAIN p : p[i] \in Logged
  OBVIOUS
<1>2. \A i \in DOMAIN p : p[i].tokens \in Nat
  BY <1>1 DEF Logged
<1>3. LimitedIn(p) \subseteq DOMAIN p
  BY DEF LimitedIn
<1>4. LimitedIn(q) = LimitedIn(p) \cup {x}
  BY DEF LimitedIn, ServedOutcomes
<1> QED
  BY <1>2, <1>3, <1>4

LEMMA OneMoreAt ==
  ASSUME NEW p \in Seq(Logged), NEW q, NEW x, x \notin LimitedIn(p),
         LimitedIn(q) = LimitedIn(p) \cup {x}, \A i \in LimitedIn(p) : q[i] = p[i], NEW t
  PROVE  /\ Cardinality(LimitedAt(p, t)) \in Nat
         /\ q[x].at = t => Cardinality(LimitedAt(q, t)) = Cardinality(LimitedAt(p, t)) + 1
         /\ q[x].at # t => LimitedAt(q, t) = LimitedAt(p, t)
<1>1. IsFiniteSet(LimitedAt(p, t)) /\ x \notin LimitedAt(p, t)
  BY LimitedFinite DEF LimitedAt
<1>2. q[x].at = t => LimitedAt(q, t) = LimitedAt(p, t) \cup {x}
  BY DEF LimitedAt
<1>3. q[x].at # t => LimitedAt(q, t) = LimitedAt(p, t)
  BY DEF LimitedAt
<1> QED
  BY <1>1, <1>2, <1>3, FS_AddElement, FS_CardinalityType

LEMMA OneMoreFor ==
  ASSUME NEW p \in Seq(Logged), NEW q, NEW x, x \notin LimitedIn(p),
         LimitedIn(q) = LimitedIn(p) \cup {x}, \A i \in LimitedIn(p) : q[i] = p[i], NEW t, NEW v
  PROVE  /\ Cardinality(LimitedFor(p, t, v)) \in Nat
         /\ q[x].at = t /\ q[x].user = v =>
              Cardinality(LimitedFor(q, t, v)) = Cardinality(LimitedFor(p, t, v)) + 1
         /\ q[x].at # t \/ q[x].user # v => LimitedFor(q, t, v) = LimitedFor(p, t, v)
<1>1. IsFiniteSet(LimitedFor(p, t, v)) /\ x \notin LimitedFor(p, t, v)
  <2>1. IsFiniteSet(LimitedFor(p, t, v))
    BY LimitedFinite
  <2> QED
    BY <2>1 DEF LimitedFor
<1>2. q[x].at = t /\ q[x].user = v => LimitedFor(q, t, v) = LimitedFor(p, t, v) \cup {x}
  BY DEF LimitedFor
<1>3. q[x].at # t \/ q[x].user # v => LimitedFor(q, t, v) = LimitedFor(p, t, v)
  BY DEF LimitedFor
<1> QED
  BY <1>1, <1>2, <1>3, FS_AddElement, FS_CardinalityType

LEMMA OneMoreOf ==
  ASSUME NEW p \in Seq(Logged), NEW q, NEW x, x \notin LimitedIn(p),
         LimitedIn(q) = LimitedIn(p) \cup {x},
         \A i \in LimitedIn(p) : q[i] = p[i] /\ p[i].tokens \in Nat, q[x].tokens \in Nat, NEW v
  PROVE  /\ q[x].user = v => TokenSum(q, LimitedOf(q, v))
                               = TokenSum(p, LimitedOf(p, v)) + q[x].tokens
         /\ q[x].user # v => TokenSum(q, LimitedOf(q, v)) = TokenSum(p, LimitedOf(p, v))
<1> DEFINE S == LimitedOf(p, v)
<1>1. /\ IsFiniteSet(S) /\ x \notin S
      /\ \A i \in S : q[i].tokens = p[i].tokens /\ p[i].tokens \in Nat
  BY LimitedFinite DEF LimitedOf
<1>2. q[x].user = v => LimitedOf(q, v) = S \cup {x}
  BY DEF LimitedOf
<1>3. q[x].user # v => LimitedOf(q, v) = S
  BY DEF LimitedOf
<1> HIDE DEF S
<1>4. TokenSum(q, S \cup {x}) = TokenSum(p, S) + q[x].tokens
  BY <1>1, TokenSumAdds
<1>5. TokenSum(q, S) = TokenSum(p, S)
  BY <1>1, TokenSumSame
<1> QED
  BY <1>2, <1>3, <1>4, <1>5 DEF S

\* A call of user u that went through the rejector is added to the log.
Granting(u, n) ==
  \E x : /\ x \notin LimitedIn(log) /\ LimitedIn(log') = LimitedIn(log) \cup {x}
         /\ \A i \in LimitedIn(log) : log'[i] = log[i] /\ log[i].tokens \in Nat
         /\ log'[x].user = u /\ log'[x].at = now /\ log'[x].tokens = n

LEMMA GrantingEffect ==
  ASSUME log \in Seq(Logged), NEW u, NEW n \in Nat, Granting(u, n)
  PROVE  /\ \A t : /\ Cardinality(LimitedAt(log, t)) \in Nat
                   /\ t = now => Cardinality(LimitedAt(log', t))
                                   = Cardinality(LimitedAt(log, t)) + 1
                   /\ t # now => LimitedAt(log', t) = LimitedAt(log, t)
         /\ \A t, v : /\ Cardinality(LimitedFor(log, t, v)) \in Nat
                      /\ t = now /\ v = u => Cardinality(LimitedFor(log', t, v))
                                               = Cardinality(LimitedFor(log, t, v)) + 1
                      /\ t # now \/ v # u => LimitedFor(log', t, v) = LimitedFor(log, t, v)
         /\ \A v : /\ v = u => TokenSum(log', LimitedOf(log', v))
                                 = TokenSum(log, LimitedOf(log, v)) + n
                   /\ v # u => TokenSum(log', LimitedOf(log', v))
                                 = TokenSum(log, LimitedOf(log, v))
<1>1. PICK x : /\ x \notin LimitedIn(log) /\ LimitedIn(log') = LimitedIn(log) \cup {x}
               /\ \A i \in LimitedIn(log) : log'[i] = log[i] /\ log[i].tokens \in Nat
               /\ log'[x].user = u /\ log'[x].at = now /\ log'[x].tokens = n
  BY DEF Granting
<1>2. ASSUME NEW t
      PROVE  /\ Cardinality(LimitedAt(log, t)) \in Nat
             /\ t = now => Cardinality(LimitedAt(log', t)) = Cardinality(LimitedAt(log, t)) + 1
             /\ t # now => LimitedAt(log', t) = LimitedAt(log, t)
  BY <1>1, OneMoreAt
<1>3. ASSUME NEW t, NEW v
      PROVE  /\ Cardinality(LimitedFor(log, t, v)) \in Nat
             /\ t = now /\ v = u => Cardinality(LimitedFor(log', t, v))
                                      = Cardinality(LimitedFor(log, t, v)) + 1
             /\ t # now \/ v # u => LimitedFor(log', t, v) = LimitedFor(log, t, v)
  BY <1>1, OneMoreFor
<1>4. ASSUME NEW v
      PROVE  /\ v = u => TokenSum(log', LimitedOf(log', v))
                           = TokenSum(log, LimitedOf(log, v)) + n
             /\ v # u => TokenSum(log', LimitedOf(log', v)) = TokenSum(log, LimitedOf(log, v))
  BY <1>1, OneMoreOf
<1> QED
  BY <1>2, <1>3, <1>4

\* One call is granted, to a user within the limits, and counted.
LEMMA OneGranted ==
  ASSUME RouterAssumption, IInv, Granted, Paid, NEW u \in Users, NEW n \in Nat, Granting(u, n),
         now' = now, global_qps[now] < MaxGlobalQps, user_qps[u][now] < MaxUserQps,
         n = 0 \/ token_used[u] + n <= TokenQuota,
         global_qps'[now] = global_qps[now] + 1,
         user_qps'[u][now] = user_qps[u][now] + 1,
         token_used'[u] = token_used[u] + n,
         \A v \in Users \ {u} : user_qps'[v] = user_qps[v] /\ token_used'[v] = token_used[v]
  PROVE  Granted' /\ Paid'
<1>1. /\ log \in Seq(Logged) /\ now \in Seconds
      /\ global_qps[now] \in Nat /\ \A v \in Users : user_qps[v][now] \in Nat
      /\ \A v \in Users : token_used[v] \in Nat
      /\ MaxGlobalQps \in Nat /\ MaxUserQps \in Nat /\ TokenQuota \in Nat
  BY DEF IInv, TypeOK, RouterAssumption
<1>2. \A t : /\ Cardinality(LimitedAt(log, t)) \in Nat
             /\ t = now => Cardinality(LimitedAt(log', t)) = Cardinality(LimitedAt(log, t)) + 1
             /\ t # now => LimitedAt(log', t) = LimitedAt(log, t)
  BY <1>1, GrantingEffect
<1>3. \A t, v : /\ Cardinality(LimitedFor(log, t, v)) \in Nat
                /\ t = now /\ v = u => Cardinality(LimitedFor(log', t, v))
                                         = Cardinality(LimitedFor(log, t, v)) + 1
                /\ t # now \/ v # u => LimitedFor(log', t, v) = LimitedFor(log, t, v)
  BY <1>1, GrantingEffect
<1>4. \A v : /\ v = u => TokenSum(log', LimitedOf(log', v))
                           = TokenSum(log, LimitedOf(log, v)) + n
             /\ v # u => TokenSum(log', LimitedOf(log', v)) = TokenSum(log, LimitedOf(log, v))
  BY <1>1, GrantingEffect
<1>5. ASSUME NEW t \in Seconds
      PROVE  /\ Cardinality(LimitedAt(log', t)) <= MaxGlobalQps
             /\ t = now => Cardinality(LimitedAt(log', t)) <= global_qps'[now]
  <2>1. /\ Cardinality(LimitedAt(log, t)) <= MaxGlobalQps
        /\ t = now => Cardinality(LimitedAt(log, t)) <= global_qps[now]
    BY DEF Granted
  <2> QED
    BY <1>1, <1>2, <2>1
<1>6. ASSUME NEW t \in Seconds, NEW v \in Users
      PROVE  /\ Cardinality(LimitedFor(log', t, v)) <= MaxUserQps
             /\ t = now => Cardinality(LimitedFor(log', t, v)) <= user_qps'[v][now]
  <2>1. /\ Cardinality(LimitedFor(log, t, v)) <= MaxUserQps
        /\ t = now => Cardinality(LimitedFor(log, t, v)) <= user_qps[v][now]
    BY DEF Granted
  <2>2. CASE v = u
    BY <1>1, <1>3, <2>1, <2>2
  <2>3. CASE v # u
    BY <1>3, <2>1, <2>3
  <2> QED
    BY <2>2, <2>3
<1>7. Granted'
  BY <1>1, <1>5, <1>6 DEF Granted
<1>8. ASSUME NEW v \in Users
      PROVE  /\ token_used'[v] = TokenSum(log', LimitedOf(log', v))
             /\ token_used'[v] <= TokenQuota
  <2>1. token_used[v] = TokenSum(log, LimitedOf(log, v)) /\ token_used[v] <= TokenQuota
    BY DEF Paid
  <2>2. CASE v = u
    BY <1>1, <1>4, <2>1, <2>2
  <2>3. CASE v # u
    BY <1>4, <2>1, <2>3
  <2> QED
    BY <2>2, <2>3
<1>9. Paid'
  BY <1>8 DEF Paid
<1> QED
  BY <1>7, <1>9

\* What Count does, apart from what it is
LEMMA CountEffect ==
  ASSUME TypeOK, NEW u \in Users, NEW n \in Nat, NEW refusal, Count(u, n, refusal)
  PROVE  /\ global_qps'[now] >= global_qps[now]
         /\ \A v \in Users : user_qps'[v][now] >= user_qps[v][now]
         /\ \A v \in Users \ {u} : user_qps'[v] = user_qps[v] /\ token_used'[v] = token_used[v]
         /\ refusal # "passed" \/ u \in Whitelist => token_used' = token_used
         /\ refusal = "passed" /\ u \notin Whitelist =>
              /\ global_qps'[now] = global_qps[now] + 1
              /\ user_qps'[u][now] = user_qps[u][now] + 1
              /\ token_used'[u] = token_used[u] + n
<1> DEFINE Add(passing) == IF u \notin Whitelist /\ refusal \in passing THEN 1 ELSE 0
<1>1. PICK a, b : a = Add({"passed", "user"}) /\ b = Add({"passed"})
  OBVIOUS
<1>2. /\ a \in {0, 1} /\ b \in {0, 1}
      /\ refusal # "passed" \/ u \in Whitelist => b = 0
      /\ refusal = "passed" /\ u \notin Whitelist => a = 1 /\ b = 1
  BY <1>1
<1>3. /\ global_qps' = [global_qps EXCEPT ![now] = @ + a]
      /\ user_qps' = [user_qps EXCEPT ![u][now] = @ + b]
      /\ token_used' = [token_used EXCEPT ![u] = @ + n * b]
  BY <1>1 DEF Count
<1> HIDE DEF Add
<1>4. /\ now \in Seconds /\ global_qps \in [Seconds -> Nat]
      /\ user_qps \in [Users -> [Seconds -> Nat]] /\ token_used \in [Users -> Nat]
  BY DEF TypeOK
<1>5. /\ global_qps[now] \in Nat /\ \A v \in Users : user_qps[v][now] \in Nat /\ token_used[v] \in Nat
  BY <1>4
<1>6. global_qps'[now] = global_qps[now] + a
  BY <1>3, <1>4
<1>7. /\ user_qps'[u][now] = user_qps[u][now] + b
      /\ \A v \in Users \ {u} : user_qps'[v] = user_qps[v]
  BY <1>3, <1>4
<1>8. /\ token_used'[u] = token_used[u] + n * b
      /\ \A v \in Users \ {u} : token_used'[v] = token_used[v]
  BY <1>3, <1>4
<1>9. n * 0 = 0 /\ n * 1 = n
  OBVIOUS
<1>10. ASSUME refusal # "passed" \/ u \in Whitelist PROVE token_used' = token_used
  <2>1. n * b = 0
    BY <1>2, <1>9, <1>10
  <2>2. \A v \in Users : token_used'[v] = token_used[v]
    BY <1>5, <1>8, <2>1
  <2> QED
    BY <1>3, <1>4, <2>2
<1>11. ASSUME refusal = "passed", u \notin Whitelist
       PROVE  /\ global_qps'[now] = global_qps[now] + 1
              /\ user_qps'[u][now] = user_qps[u][now] + 1
              /\ token_used'[u] = token_used[u] + n
  BY <1>2, <1>6, <1>7, <1>8, <1>9, <1>11
<1>12. /\ global_qps'[now] >= global_qps[now]
       /\ \A v \in Users : user_qps'[v][now] >= user_qps[v][now]
  BY <1>2, <1>5, <1>6, <1>7
<1> QED
  BY <1>7, <1>8, <1>10, <1>11, <1>12

\* Who passes is within the limits.
LEMMA PassedIsAllowed ==
  ASSUME NEW u, u \notin Whitelist, NEW n \in Nat, NEW w, Refusal(u, n, w) = "passed",
         IInv, RouterAssumption, u \in Users
  PROVE  /\ global_qps[now] < MaxGlobalQps /\ user_qps[u][now] < MaxUserQps
         /\ n = 0 \/ token_used[u] + n <= TokenQuota
<1>1. /\ global_qps[now] \in Nat /\ user_qps[u][now] \in Nat /\ token_used[u] \in Nat
      /\ MaxGlobalQps \in Nat /\ MaxUserQps \in Nat /\ TokenQuota \in Nat
  BY DEF IInv, TypeOK, RouterAssumption
<1> DEFINE loaded == Score(metrics[w]) >= LoadThreshold
           quota == n > 0 /\ token_used[u] + n > TokenQuota
           global == global_qps[now] >= MaxGlobalQps
           user == user_qps[u][now] >= MaxUserQps
<1>2. CASE u \in Blacklist
  BY <1>2 DEF Refusal
<1>3. CASE u \notin Blacklist
  <2>1. Refusal(u, n, w) = IF loaded THEN "loaded" ELSE IF quota THEN "quota"
                           ELSE IF global THEN "global" ELSE IF user THEN "user" ELSE "passed"
    BY <1>3 DEF Refusal
  <2> HIDE DEF loaded, quota, global, user
  <2>2. ~ quota /\ ~ global /\ ~ user
    BY <2>1
  <2> USE DEF quota, global, user
  <2> QED
    BY <1>1, <2>2
<1> QED
  BY <1>2, <1>3

LEMMA ChatKeepsLimits ==
  ASSUME RouterAssumption, IInv, IInv', Granted, Paid, NEW u \in Users, NEW n \in Tokens,
         NEW isNew \in BOOLEAN, Chat(u, n, isNew)
  PROVE  Granted' /\ Paid'
<1>1. PICK w : w = Choice(u, Valid, Bound(u, isNew))
  OBVIOUS
<1>2. PICK refusal : refusal = Refusal(u, n, w)
  OBVIOUS
<1>3. /\ Len(healthy) > 1 /\ Count(u, n, refusal) /\ now' = now
      /\ \/ refusal = "passed" /\ Place(u, n, w, "chat", isNew)
         \/ refusal # "passed" /\ Turned(u, n, isNew, refusal)
  BY <1>1, <1>2 DEF Chat
<1>4. TypeOK /\ n \in Nat /\ log \in Seq(Logged)
  BY DEF IInv, TypeOK, RouterAssumption
<1>5. /\ global_qps'[now] >= global_qps[now]
      /\ \A v \in Users : user_qps'[v][now] >= user_qps[v][now]
      /\ \A v \in Users \ {u} : user_qps'[v] = user_qps[v] /\ token_used'[v] = token_used[v]
      /\ refusal # "passed" \/ u \in Whitelist => token_used' = token_used
      /\ refusal = "passed" /\ u \notin Whitelist =>
           /\ global_qps'[now] = global_qps[now] + 1
           /\ user_qps'[u][now] = user_qps[u][now] + 1
           /\ token_used'[u] = token_used[u] + n
  BY <1>3, <1>4, CountEffect
<1>6. CASE refusal # "passed"
  <2> DEFINE e == Entry(u, n, "none", "chat", isNew, refusal)
  <2>1. refusal \notin ServedOutcomes
    BY <1>2, RefusalType, <1>6 DEF ServedOutcomes
  <2>2. log' = Append(log, e) /\ e.outcome = refusal
    BY <1>3, <1>6 DEF Turned, Entry
  <2> HIDE DEF e
  <2>3. SameCalls
    BY <2>1, <2>2, NotLimited
  <2> QED
    BY <1>3, <1>5, <1>6, <2>3, NothingGranted
<1>7. CASE refusal = "passed"
  <2> DEFINE e == Entry(u, n, w, "chat", isNew, "open")
  <2>1. /\ log' = Append(log, e) /\ e.outcome = "open" /\ e.api = "chat" /\ e.user = u
        /\ e.at = now /\ e.tokens = n /\ e.choices > 1
    BY <1>3, <1>7 DEF Place, Entry
  <2> HIDE DEF e
  <2>2. CASE u \in Whitelist
    <3>1. SameCalls
      BY <2>1, <2>2, NotLimited
    <3> QED
      BY <1>3, <1>5, <2>2, <3>1, NothingGranted
  <2>3. CASE u \notin Whitelist
    <3>1. Granting(u, n)
      <4> DEFINE x == Len(log) + 1
      <4>1. /\ x \notin DOMAIN log /\ DOMAIN log' = DOMAIN log \cup {x} /\ log'[x] = e
            /\ \A i \in DOMAIN log : log'[i] = log[i]
        BY <1>4, <2>1
      <4> HIDE DEF x
      <4>2. /\ x \notin LimitedIn(log) /\ LimitedIn(log') = LimitedIn(log) \cup {x}
            /\ \A i \in LimitedIn(log) : log'[i] = log[i] /\ log[i].tokens \in Nat
        <5> PICK p, q : p = log /\ q = log'
          OBVIOUS
        <5>1. /\ p \in Seq(Logged) /\ x \notin DOMAIN p /\ DOMAIN q = DOMAIN p \cup {x}
              /\ \A i \in DOMAIN p : q[i] = p[i]
              /\ q[x].outcome = "open" /\ q[x].api = "chat" /\ q[x].choices > 1
              /\ q[x].user \notin Whitelist
          BY <1>4, <2>1, <2>3, <4>1
        <5>2. /\ x \notin LimitedIn(p) /\ LimitedIn(q) = LimitedIn(p) \cup {x}
              /\ \A i \in LimitedIn(p) : q[i] = p[i] /\ p[i].tokens \in Nat
          BY <5>1, OneMore
        <5> QED
          BY <5>2
      <4> QED
        BY <2>1, <4>1, <4>2 DEF Granting
    <3>2. /\ global_qps[now] < MaxGlobalQps /\ user_qps[u][now] < MaxUserQps
          /\ n = 0 \/ token_used[u] + n <= TokenQuota
      BY <1>2, <1>4, <1>7, <2>3, PassedIsAllowed
    <3> QED
      BY <1>3, <1>4, <1>5, <1>7, <2>3, <3>1, <3>2, OneGranted
  <2> QED
    BY <2>2, <2>3
<1> QED
  BY <1>6, <1>7

LEMMA RecentKeeps ==
  ASSUME RouterAssumption, now \in Seconds, NEW count
  PROVE  Recent(count)[now] = count[now]
BY DEF Recent, Seconds, RouterAssumption

\* What every step other than Chat and Tick leaves of the limits
LEMMA LimitsLeft ==
  ASSUME IInv, UNCHANGED limits
  PROVE  /\ global_qps'[now] >= global_qps[now] /\ token_used' = token_used
         /\ \A v \in Users : user_qps'[v][now] >= user_qps[v][now]
<1>1. global_qps[now] \in Nat /\ \A v \in Users : user_qps[v][now] \in Nat
  BY DEF IInv, TypeOK
<1> QED
  BY <1>1 DEF limits

LEMMA LimitsStep ==
  ASSUME RouterAssumption, Inv, Inv', Granted, Paid, [Next]_vars
  PROVE  Granted' /\ Paid'
<1>1. IInv /\ IInv' /\ TypeOK /\ now \in Seconds
  BY DEF Inv, IInv, TypeOK
<1>2. log' = log => SameCalls
  BY DEF SameCalls
<1>3. ASSUME SameCalls, now' = now, UNCHANGED limits
      PROVE  Granted' /\ Paid'
  BY <1>1, <1>3, LimitsLeft, NothingGranted
<1>4. ASSUME NEW u \in Users, Request(u)
      PROVE  Granted' /\ Paid'
  <2>1. ASSUME NEW n \in Tokens, NEW isNew \in BOOLEAN, ChatSingle(u, n, isNew)
        PROVE  Granted' /\ Paid'
    <3> DEFINE e == Entry(u, n, healthy[1], "chat", isNew, "open")
    <3>1. Len(healthy) = 1 /\ log' = Append(log, e) /\ UNCHANGED << now, limits >>
      BY <2>1 DEF ChatSingle, Place
    <3>2. e.choices = 1
      BY <3>1 DEF Entry
    <3> HIDE DEF e
    <3>3. SameCalls
      BY <1>1, <3>1, <3>2, NotLimited
    <3> QED
      BY <1>3, <3>1, <3>3
  <2>2. ASSUME NEW n \in Tokens, NEW isNew \in BOOLEAN, ChatNobody(u, n, isNew)
        PROVE  Granted' /\ Paid'
    <3> DEFINE e == Entry(u, n, "none", "chat", isNew, "unavailable")
    <3>1. log' = Append(log, e) /\ UNCHANGED << now, limits >>
      BY <2>2 DEF ChatNobody, Turned
    <3>2. e.outcome \notin ServedOutcomes
      BY DEF Entry, ServedOutcomes
    <3> HIDE DEF e
    <3>3. SameCalls
      BY <1>1, <3>1, <3>2, NotLimited
    <3> QED
      BY <1>3, <3>1, <3>3
  <2>3. CASE Generate(u)
    <3> DEFINE e == Entry(u, 0, Head(cyc), "generate", FALSE, "open")
    <3>1. log' = Append(log, e) /\ UNCHANGED << now, limits >>
      BY <2>3 DEF Generate, Place
    <3>2. e.api # "chat"
      BY DEF Entry
    <3> HIDE DEF e
    <3>3. SameCalls
      BY <1>1, <3>1, <3>2, NotLimited
    <3> QED
      BY <1>3, <3>1, <3>3
  <2> QED
    BY <1>1, <1>4, <2>1, <2>2, <2>3, ChatKeepsLimits DEF Request
<1>5. ASSUME NEW i \in calls, CallStep(i)
      PROVE  Granted' /\ Paid'
  <2>1. /\ UNCHANGED << now, limits >>
        /\ \E outcome \in {"answered", "failed", "timeout"} : Close(i, outcome)
    BY <1>1, <1>5, CallEnds
  <2>2. SameCalls
    BY <1>1, <2>1, EndedSame
  <2> QED
    BY <1>3, <2>1, <2>2
<1>6. CASE HealthCheck
  BY <1>2, <1>3, <1>6 DEF HealthCheck
<1>7. CASE Clean
  <2>1. /\ global_qps' = Recent(global_qps) /\ user_qps' = [u \in Users |-> Recent(user_qps[u])]
        /\ UNCHANGED << now, token_used, log >>
    BY <1>7 DEF Clean
  <2>2. /\ global_qps'[now] = global_qps[now]
        /\ \A u \in Users : user_qps'[u][now] = user_qps[u][now]
    BY <1>1, <2>1, RecentKeeps
  <2>3. global_qps[now] \in Nat /\ \A v \in Users : user_qps[v][now] \in Nat
    BY <1>1 DEF TypeOK
  <2>4. /\ global_qps'[now] >= global_qps[now]
        /\ \A u \in Users : user_qps'[u][now] >= user_qps[u][now]
    BY <2>2, <2>3
  <2> QED
    BY <1>1, <1>2, <2>1, <2>4, NothingGranted
<1>8. CASE Tick
  BY <1>1, <1>8, SecondBegins DEF Tick
<1>9. ASSUME NEW w \in Worker, Report(w) \/ Crash(w) \/ Restart(w)
      PROVE  Granted' /\ Paid'
  <2>1. UNCHANGED << now, limits, log >>
    BY <1>9 DEF Report, Crash, Restart
  <2> QED
    BY <1>2, <1>3, <2>1
<1>10. CASE UNCHANGED vars
  <2>1. UNCHANGED << now, limits, log >>
    BY <1>10 DEF vars
  <2> QED
    BY <1>2, <1>3, <2>1
<1> QED
  BY <1>4, <1>5, <1>6, <1>7, <1>8, <1>9, <1>10 DEF Next, Loop, Environment

LEMMA NothingLimited ==
  ASSUME RouterAssumption, Init
  PROVE  Granted /\ Paid
<1>1. log = << >> /\ token_used = [u \in Users |-> 0]
      /\ global_qps = Never /\ user_qps = [u \in Users |-> Never] /\ now = 0
  BY DEF Init
<1>2. LimitedIn(log) = {}
  BY <1>1 DEF LimitedIn
<1>3. /\ \A t : LimitedAt(log, t) = {} /\ \A u : LimitedFor(log, t, u) = {}
      /\ \A u : LimitedOf(log, u) = {}
  BY <1>2 DEF LimitedAt, LimitedFor, LimitedOf
<1>4. TokenSum(log, {}) = 0
  <2>1. IsFiniteSet({})
    BY FS_EmptySet
  <2>2. PICK g : Sums(g, log, {}) /\ TokenSum(log, {}) = g[{}]
    BY <2>1, TokenSumIs
  <2> QED
    BY <2>2 DEF Sums, SumOf
<1>5. /\ global_qps[now] = 0 /\ \A u \in Users : user_qps[u][now] = 0
      /\ MaxGlobalQps \in Nat /\ MaxUserQps \in Nat /\ TokenQuota \in Nat
  BY <1>1 DEF Never, Seconds, RouterAssumption
<1>6. Cardinality({}) = 0
  BY FS_EmptySet
<1>7. Granted
  <2>1. /\ \A t : Cardinality(LimitedAt(log, t)) = 0
        /\ \A t : \A u : Cardinality(LimitedFor(log, t, u)) = 0
    BY <1>3, <1>6
  <2>2. 0 <= MaxGlobalQps /\ 0 <= MaxUserQps
    BY <1>5
  <2> QED
    BY <1>5, <2>1, <2>2 DEF Granted
<1>8. Paid
  <2> SUFFICES ASSUME NEW u \in Users
               PROVE  /\ token_used[u] = TokenSum(log, LimitedOf(log, u))
                      /\ token_used[u] <= TokenQuota
    BY DEF Paid
  <2>1. token_used[u] = 0 /\ 0 <= TokenQuota
    BY <1>1, <1>5
  <2>2. TokenSum(log, LimitedOf(log, u)) = 0
    BY <1>3, <1>4
  <2> QED
    BY <2>1, <2>2
<1> QED
  BY <1>7, <1>8

LEMMA LimitsAlways ==
  ASSUME RouterAssumption PROVE Spec => [](Granted /\ Paid)
<1>1. Init => Granted /\ Paid
  BY NothingLimited
<1>2. Inv /\ Inv' /\ Granted /\ Paid /\ [Next]_vars => Granted' /\ Paid'
  BY LimitsStep
<1> QED
  BY <1>1, <1>2, InvAlways, PTL DEF Spec

LEMMA GrantedIsWithin ==
  Granted => QpsWithinLimits
<1>1. \A t : LimitedAt(log, t) = {i \in DOMAIN log : Limited(i) /\ log[i].at = t}
  BY DEF LimitedAt, LimitedIn, Limited, Served, ServedOutcomes
<1>2. \A t, u : LimitedFor(log, t, u)
                  = {i \in DOMAIN log : Limited(i) /\ log[i].at = t /\ log[i].user = u}
  BY DEF LimitedFor, LimitedIn, Limited, Served, ServedOutcomes
<1>3. ASSUME Granted, NEW t \in Seconds
      PROVE  Cardinality({i \in DOMAIN log : Limited(i) /\ log[i].at = t}) <= MaxGlobalQps
  <2>1. Cardinality(LimitedAt(log, t)) <= MaxGlobalQps
    BY <1>3 DEF Granted
  <2> QED
    BY <1>1, <2>1
<1>4. ASSUME Granted, NEW t \in Seconds, NEW u \in Users
      PROVE  Cardinality({i \in DOMAIN log :
                            Limited(i) /\ log[i].at = t /\ log[i].user = u}) <= MaxUserQps
  <2>1. Cardinality(LimitedFor(log, t, u)) <= MaxUserQps
    BY <1>4 DEF Granted
  <2> QED
    BY <1>2, <2>1
<1> QED
  BY <1>3, <1>4 DEF QpsWithinLimits

LEMMA PaidIsKept ==
  Paid => QuotaKept
<1> SUFFICES ASSUME Paid, NEW u \in Users
             PROVE  LET mine == {i \in DOMAIN log : Limited(i) /\ log[i].user = u}
                    IN  /\ token_used[u] = MapThenSumSet(LAMBDA i : log[i].tokens, mine)
                        /\ token_used[u] <= TokenQuota
  BY DEF QuotaKept
<1>1. LimitedOf(log, u) = {i \in DOMAIN log : Limited(i) /\ log[i].user = u}
  BY DEF LimitedOf, LimitedIn, Limited, Served, ServedOutcomes
<1>2. token_used[u] = TokenSum(log, LimitedOf(log, u)) /\ token_used[u] <= TokenQuota
  BY DEF Paid
<1>3. TokenSum(log, LimitedOf(log, u)) = MapThenSumSet(LAMBDA i : log[i].tokens, LimitedOf(log, u))
  BY DEF TokenSum
<1> QED
  BY <1>1, <1>2, <1>3

\* In no second are more calls let through the rejector than max_global_qps, nor more
\* of one user than max_user_qps; token_used is exactly what a user's calls were
\* granted and stays within the quota: whenever clean_expired_qps runs, and however
\* many users, requests and failures there are.
THEOREM LimitsAreKept == ASSUME RouterAssumption PROVE Spec => []LimitsKept
<1>1. Granted /\ Paid => LimitsKept
  BY GrantedIsWithin, PaidIsKept DEF LimitsKept
<1> QED
  BY <1>1, LimitsAlways, PTL

-----------------------------------------------------------------------------
(* The load test of the early rejector. *)

\* No call has been turned away for the load of its worker.
NeverLoaded == \A i \in DOMAIN log : log[i].outcome # "loaded"

LEMMA ChosenIsNotLoaded ==
  ASSUME TypeOK, LoadThreshold \in Nat, LoadThreshold >= 600000, NEW u, NEW n, NEW w \in Worker,
         State(w) \in {"normal", "warning"}
  PROVE  Refusal(u, n, w) # "loaded"
<1>1. metrics[w] \in Metrics
  BY DEF TypeOK
<1>2. SloState(metrics[w]) \in {"normal", "warning"}
  BY DEF State
<1>3. Score(metrics[w]) < 600000 /\ Score(metrics[w]) \in Nat
  BY <1>1, <1>2, ValidScore, ScoreIsNat
<1> DEFINE loaded == Score(metrics[w]) >= LoadThreshold
           quota == n > 0 /\ token_used[u] + n > TokenQuota
           global == global_qps[now] >= MaxGlobalQps
           user == user_qps[u][now] >= MaxUserQps
<1>4. ~ loaded
  BY <1>3
<1>5. Refusal(u, n, w) = CASE u \in Whitelist -> "passed"
                           [] u \in Blacklist \ Whitelist -> "blacklisted"
                           [] OTHER -> IF loaded THEN "loaded" ELSE IF quota THEN "quota"
                                       ELSE IF global THEN "global" ELSE IF user THEN "user"
                                            ELSE "passed"
  BY DEF Refusal
<1> HIDE DEF loaded, quota, global, user
<1> QED
  BY <1>4, <1>5

LEMMA LoggedLast ==
  ASSUME TypeOK, NEW e, log' = Append(log, e), NeverLoaded, e.outcome # "loaded"
  PROVE  NeverLoaded'
<1>1. log \in Seq(Logged) /\ Len(log) \in Nat /\ DOMAIN log = 1..Len(log)
  BY DEF TypeOK
<1>2. /\ DOMAIN log' = 1..(Len(log) + 1) /\ log'[Len(log) + 1] = e
      /\ \A i \in DOMAIN log : log'[i] = log[i]
  BY <1>1
<1>3. \A i \in DOMAIN log' : i \in DOMAIN log \/ i = Len(log) + 1
  BY <1>1, <1>2
<1> QED
  BY <1>2, <1>3 DEF NeverLoaded

LEMMA NeverLoadedStep ==
  ASSUME RouterAssumption, LoadThreshold \in Nat, LoadThreshold >= 600000, Inv, NeverLoaded,
         [Next]_vars
  PROVE  NeverLoaded'
<1>1. TypeOK
  BY DEF Inv, IInv
<1>2. log' = log => NeverLoaded'
  BY DEF NeverLoaded
<1>3. ASSUME NEW u \in Users, Request(u)
      PROVE  NeverLoaded'
  <2>1. PICK e : log' = Append(log, e) /\ e.outcome # "loaded"
    <3>1. ASSUME NEW n \in Tokens, NEW isNew \in BOOLEAN, ChatSingle(u, n, isNew)
          PROVE  \E e : log' = Append(log, e) /\ e.outcome # "loaded"
      BY <3>1 DEF ChatSingle, Place, Entry
    <3>2. ASSUME NEW n \in Tokens, NEW isNew \in BOOLEAN, ChatNobody(u, n, isNew)
          PROVE  \E e : log' = Append(log, e) /\ e.outcome # "loaded"
      BY <3>2 DEF ChatNobody, Turned, Entry
    <3>3. ASSUME NEW n \in Tokens, NEW isNew \in BOOLEAN, Chat(u, n, isNew)
          PROVE  \E e : log' = Append(log, e) /\ e.outcome # "loaded"
      <4> PICK w : w = Choice(u, Valid, Bound(u, isNew))
        OBVIOUS
      <4> PICK refusal : refusal = Refusal(u, n, w)
        OBVIOUS
      <4>1. /\ Valid # << >>
            /\ \/ Place(u, n, w, "chat", isNew)
               \/ Turned(u, n, isNew, refusal)
        BY <3>3 DEF Chat
      <4>2. w \in Worker /\ State(w) \in {"normal", "warning"}
        BY <1>1, <4>1, ChoiceIsValid
      <4>3. refusal # "loaded"
        BY <1>1, <4>2, ChosenIsNotLoaded
      <4> QED
        BY <4>1, <4>3 DEF Place, Turned, Entry
    <3>4. CASE Generate(u)
      BY <3>4 DEF Generate, Place, Entry
    <3> QED
      BY <1>3, <3>1, <3>2, <3>3, <3>4 DEF Request
  <2> QED
    BY <1>1, <2>1, LoggedLast
<1>4. ASSUME NEW i \in calls, CallStep(i)
      PROVE  NeverLoaded'
  <2>1. PICK outcome \in {"answered", "failed", "timeout"} : Close(i, outcome)
    BY <1>4, CallEnds DEF Inv
  <2>2. log' = [log EXCEPT ![i].outcome = outcome] /\ log \in Seq(Logged)
    BY <1>1, <2>1 DEF Close, TypeOK
  <2>3. DOMAIN log' = DOMAIN log
    BY <2>2
  <2>4. \A j \in DOMAIN log : log'[j].outcome \in {log[j].outcome, outcome}
    <3>1. \A j \in DOMAIN log : log[j] \in Logged
      BY <2>2
    <3> QED
      BY <2>2, <3>1 DEF Logged
  <2> QED
    BY <2>1, <2>3, <2>4 DEF NeverLoaded
<1>5. CASE Loop
  BY <1>2, <1>5 DEF Loop, HealthCheck, Clean
<1>6. CASE Environment
  BY <1>2, <1>6 DEF Environment, Tick, Report, Crash, Restart
<1>7. CASE UNCHANGED vars
  BY <1>2, <1>7 DEF vars
<1> QED
  BY <1>3, <1>4, <1>5, <1>6, <1>7 DEF Next

\* The load test of the early rejector never fires when its threshold, 0.9 in the
\* code, is at least 0.6: the SLO filter has already left out every worker that
\* could score as much, whatever the workers report.
THEOREM LoadTestNeverFires ==
  ASSUME RouterAssumption, LoadThreshold \in Nat, LoadThreshold >= 600000
  PROVE  Spec => []NeverLoaded
<1>1. Init => NeverLoaded
  BY DEF Init, NeverLoaded
<1>2. Inv /\ NeverLoaded /\ [Next]_vars => NeverLoaded'
  BY NeverLoadedStep
<1> QED
  BY <1>1, <1>2, InvAlways, PTL DEF Spec

-----------------------------------------------------------------------------
=============================================================================
