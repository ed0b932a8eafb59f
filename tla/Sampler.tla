------------------------------- MODULE Sampler -------------------------------
(***************************************************************************)
(* Sampling the next tokens of a batch, engine/sample.py: prepare turns    *)
(* the parameters of all its requests into the arguments of one kernel     *)
(* call, and leaves out a filter only if no request asks for it.  What the *)
(* kernels of flashinfer may return is external.  Temperatures and         *)
(* probabilities are in parts of One; a temperature of One keeps the       *)
(* probabilities of the row, the floor leaves the most probable tokens.    *)
(***************************************************************************)
EXTENDS Integers, FiniteSetsExt, SequencesExt

CONSTANTS VocabSize, One,
          Temperatures, TopKs, TopPs,   \* what requests carry: nothing checks them
          Rows,                 \* token -> probability, one per kind of logits
          MaxBatch              \* bound: requests of a batch

Vocabulary == 0 .. VocabSize - 1
Params == [temperature : Temperatures, top_k : TopKs, top_p : TopPs]

SamplerAssumption ==
  /\ {VocabSize, One, MaxBatch} \subseteq Nat \ {0}
  /\ Temperatures \cup TopKs \cup TopPs \subseteq Int
  /\ \A w \in Rows : w \in [Vocabulary -> Nat] /\ SumFunction(w) = One

VARIABLES batch,                \* its requests: params and row of probabilities
          args,                 \* BatchSamplingArgs; None for a filter left out
          allowed               \* what the kernel may return for each request

vars == << batch, args, allowed >>

None == << >>
MinP == 1                       \* the floors of both, 1e-6 in the code
MinT == 1

IsGreedy(p) == (p.temperature <= 0 \/ p.top_k = 1) /\ p.top_p = One

Largest(a, b) == IF a > b THEN a ELSE b
Smallest(a, b) == IF a < b THEN a ELSE b

Temperature(p) == Largest(IF IsGreedy(p) THEN 0 ELSE p.temperature, MinT)
TopK(p) == IF p.top_k >= 1 THEN p.top_k ELSE VocabSize
TopP(p) == Smallest(Largest(p.top_p, MinP), One)

\* The arguments of each request, or None if no request needs the filter
Filter(b, Arg(_), neutral) ==
  IF \E i \in DOMAIN b : Arg(b[i].params) # neutral
  THEN [i \in DOMAIN b |-> Arg(b[i].params)] ELSE None

PrepareAnyGreedy(b) ==          \* mutant: any instead of all
  IF \E i \in DOMAIN b : IsGreedy(b[i].params)
  THEN [temperatures |-> None, top_k |-> None, top_p |-> None]
  ELSE [temperatures |-> [i \in DOMAIN b |-> Temperature(b[i].params)],
        top_k |-> Filter(b, TopK, VocabSize), top_p |-> Filter(b, TopP, One)]

Prepare(b) ==
  IF \A i \in DOMAIN b : IsGreedy(b[i].params)
  THEN [temperatures |-> None, top_k |-> None, top_p |-> None]
  ELSE [temperatures |-> [i \in DOMAIN b |-> Temperature(b[i].params)],
        top_k |-> Filter(b, TopK, VocabSize), top_p |-> Filter(b, TopP, One)]

-----------------------------------------------------------------------------
\* The kernels.  More probable tokens come first; equal ones share their place.

Ahead(w, t) == {u \in Vocabulary : w[u] > w[t]}
Mass(w, S) == MapThenSumSet(LAMBDA t : w[t], S)

Most(w) == {t \in Vocabulary : Ahead(w, t) = {}}

Softmax(w, temperature) ==
  IF temperature > MinT THEN w ELSE [t \in Vocabulary |-> IF t \in Most(w) THEN w[t] ELSE 0]

KeepK(w, k) == {t \in Vocabulary : w[t] > 0 /\ Cardinality(Ahead(w, t)) < k}

\* The most probable tokens of S until their share of its mass reaches p
KeepP(w, S, p) == {t \in S : Mass(w, Ahead(w, t) \cap S) * One < p * Mass(w, S)}

\* sample and sample_impl, for row i of the batch
Sampled(b, a, i) ==
  LET w == Softmax(b[i].row, a.temperatures[i])
      kept == IF a.top_k = None THEN {t \in Vocabulary : w[t] > 0} ELSE KeepK(w, a.top_k[i])
  IN IF a.temperatures = None THEN {Min(Most(b[i].row))}
     ELSE IF a.top_p = None THEN kept ELSE KeepP(w, kept, a.top_p[i])

-----------------------------------------------------------------------------
Init == batch = << >> /\ args = None /\ allowed = << >>

\* A batch is formed, prepared and sampled from
Sample(b) ==
  /\ batch' = b
  /\ args' = Prepare(b)
  /\ allowed' = [i \in DOMAIN b |-> Sampled(b, Prepare(b), i)]

Next == \E b \in BoundedSeq([params : Params, row : Rows], MaxBatch) :
          b # << >> /\ batch = << >> /\ Sample(b)

Spec == Init /\ [][Next]_vars

-----------------------------------------------------------------------------
\* The request alone in its batch.
Alone(x) == Sampled(<< x >>, Prepare(<< x >>), 1)

\* A request gets from a batch just what it would get alone: a batchmate neither adds a
\* filter it did not ask for nor loses one it did.  Only a greedy request between equally
\* probable tokens differs: argmax takes the first, the sampling kernel any of them.
BatchmatesDoNotMatter ==
  \A i \in DOMAIN batch :
    LET x == batch[i]
    IN \/ allowed[i] = Alone(x)
       \/ IsGreedy(x.params) /\ Cardinality(Most(x.row)) > 1 /\ allowed[i] = Most(x.row)

\* Whatever a client sends, there is a token to return, and it is one of those the
\* request asked for: the most probable if it wants no randomness, otherwise one with
\* fewer than top_k tokens, and less than top_p of the mass, ahead of it.
WithinItsParams ==
  \A i \in DOMAIN batch :
    LET p == batch[i].params  w == batch[i].row
    IN /\ allowed[i] # {}
       /\ p.temperature <= 0 => allowed[i] \subseteq Most(w)
       /\ p.top_k >= 1 => \A t \in allowed[i] : Cardinality(Ahead(w, t)) < p.top_k
       /\ p.top_p >= MinP => \A t \in allowed[i] : Mass(w, Ahead(w, t)) < p.top_p
=============================================================================
