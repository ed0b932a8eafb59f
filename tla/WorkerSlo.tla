------------------------------ MODULE WorkerSlo ------------------------------
(***************************************************************************)
(* How the router judges a worker by its metrics: the SLO state of         *)
(* cluster/slo_enforcer.py and the load score of cluster/load_predictor.py.*)
(* Queues are counts, times milliseconds, free KV memory gigabytes; the    *)
(* score 1.0 is One, and fractions of 1/One are dropped.                   *)
(***************************************************************************)
EXTENDS Naturals, FiniteSets

Metrics == [ttft : Nat, tpot : Nat, prefill : Nat, decode : Nat, wait : Nat, kv : Nat,
            gpu : Nat]

\* SLOConfig
Limit == [ttft |-> 4000, tpot |-> 100, queue |-> 128, wait |-> 64, kv |-> 3]
Warning == [ttft |-> 2000, tpot |-> 40, queue |-> 64, wait |-> 32, kv |-> 6]
BanBreaches == 2
RestrictBreaches == 1
RestrictWarnings == 3

Judged == {"ttft", "tpot", "queue", "wait", "kv"}

Value(m, j) == IF j = "queue" THEN m.prefill + m.decode ELSE m[j]

\* Free memory counts when it is low, everything else when it is high
Beyond(m, j, limit) == IF j = "kv" THEN m.kv <= limit.kv ELSE Value(m, j) >= limit[j]

Breaches(m) == Cardinality({j \in Judged : Beyond(m, j, Limit)})

Warnings(m) == Cardinality({j \in Judged : Beyond(m, j, Warning) /\ ~Beyond(m, j, Limit)})

\* check_worker, for a worker that is not cooling down
SloState(m) ==
  CASE Breaches(m) >= BanBreaches -> "banned"
    [] Breaches(m) < BanBreaches /\ (Breaches(m) >= RestrictBreaches
                                       \/ Warnings(m) >= RestrictWarnings) -> "restricted"
    [] Breaches(m) = 0 /\ Warnings(m) \in 1..(RestrictWarnings - 1) -> "warning"
    [] OTHER -> "normal"

Severity == [normal |-> 0, warning |-> 1, restricted |-> 2, banned |-> 3]

-----------------------------------------------------------------------------
One == 1000000

\* Weights in parts of One, and the values at which a metric counts in full
Weight == [prefill |-> 150000, decode |-> 160000, wait |-> 100000, ttft |-> 120000,
           tpot |-> 70000, gpu |-> 180000, kv |-> 220000]
Full == [prefill |-> 256, decode |-> 256, wait |-> 256, ttft |-> 4000, tpot |-> 200,
         gpu |-> 200, kv |-> 40]

Least(a, b) == IF a < b THEN a ELSE b

\* _norm_forward and _norm_reverse, weighted
Filled(m, k) == Least((m[k] * Weight[k]) \div Full[k], Weight[k])
Lacking(m, k) == Weight[k] - Filled(m, k)

\* calc_node_score
Score(m) ==
  Filled(m, "prefill") + Filled(m, "decode") + Filled(m, "wait")
    + Filled(m, "ttft") + Filled(m, "tpot") + Lacking(m, "gpu") + Lacking(m, "kv")
=============================================================================
