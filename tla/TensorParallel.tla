---------------------------- MODULE TensorParallel ----------------------------
(***************************************************************************)
(* A model over the ranks of a tensor-parallel group: each rank creates    *)
(* its layers, reads the checkpoint in whatever order its files list the   *)
(* tensors, cuts, merges and loads them (weight.py, layers/base.py); what  *)
(* the ranks then compute together is compared with one layer, not cut     *)
(* (embedding.py, linear.py, attention.py, index.cu).                      *)
(* A tensor is the sequence of its rows, or columns, in the cut dimension, *)
(* each named after its place in the checkpoint. Ranks, tokens and heads   *)
(* count from 0, as in the code. The stacking of experts in load_weight is *)
(* left out: models/qwen3_moe.py, the one class that has experts, is not   *)
(* in the repository.                                                      *)
(***************************************************************************)
EXTENDS Integers, SequencesExt, FiniteSetsExt

CONSTANTS Configs,              \* records [n, vocab, qo, kv, inter, tied, head]
          HeadDim,
          BatchSizes            \* bound: the rows of logits a batch asks for

TensorParallelAssumption ==
  /\ HeadDim \in Nat \ {0} /\ BatchSizes \subseteq Nat \ {0}
  /\ \A c \in Configs : /\ {c.n, c.vocab, c.qo, c.kv, c.inter} \subseteq Nat \ {0}
                        /\ {c.tied, c.head} \subseteq BOOLEAN /\ (c.tied \/ c.head)

VARIABLES config,               \* the model and the number of ranks
          pc,                   \* rank -> "create", "load", "ready" or "failed"
          left,                 \* rank -> the tensors it has not read
          merge_buf,            \* rank -> tensor name -> shard, of incomplete groups
          weights               \* rank -> parameter name -> its tensor on the rank

vars == << config, pc, left, merge_buf, weights >>

Ranks == 0..(config.n - 1)
DivCeil(a, b) == (a + b - 1) \div b
Rows(name, count) == [i \in 1..count |-> << name, i - 1 >>]
NoTensors == [name \in {} |-> << >>]

-----------------------------------------------------------------------------
(* What each rank has of a layer. *)

DivEvenHolds(a, replicate) ==
  IF replicate /\ config.n > a THEN config.n % a = 0 ELSE a % config.n = 0
DivEven(a, replicate) == IF replicate /\ config.n > a THEN 1 ELSE a \div config.n

LocalQo == DivEven(config.qo, FALSE)
LocalKv == DivEven(config.kv, TRUE)
VocabPerRank == DivCeil(config.vocab, config.n)

\* The lengths of the parameters the layers declare
Declared ==
  [name \in {"embed", "qkv", "o", "gate_up", "down", "norm"}
              \cup (IF config.tied THEN {} ELSE {"lm_head"}) |->
    CASE name \in {"embed", "lm_head"} -> VocabPerRank
      [] name = "qkv" -> (LocalQo + 2 * LocalKv) * HeadDim
      [] name = "o" -> DivEven(config.qo * HeadDim, FALSE)
      [] name = "gate_up" -> 2 * DivEven(config.inter, FALSE)
      [] name = "down" -> DivEven(config.inter, FALSE)
      [] name = "norm" -> 1]

CreateHolds ==
  /\ config.qo % config.kv = 0
  /\ DivEvenHolds(config.qo, FALSE) /\ DivEvenHolds(config.kv, TRUE)
  /\ DivEvenHolds(config.inter, FALSE)

-----------------------------------------------------------------------------
(* The checkpoint, and a rank's shard of each of its tensors. *)

Checkpoint ==
  [key \in {"embed", "q", "k", "v", "o", "gate", "up", "down", "norm"}
             \cup (IF config.head THEN {"lm_head"} ELSE {}) |->
    CASE key \in {"embed", "lm_head"} -> Rows(key, config.vocab)
      [] key \in {"q", "o"} -> Rows(key, config.qo * HeadDim)
      [] key \in {"k", "v"} -> Rows(key, config.kv * HeadDim)
      [] key \in {"gate", "up", "down"} -> Rows(key, config.inter)
      [] key = "norm" -> Rows(key, 1)]

\* value.chunk(n)[r]
Chunk(s, r) == LET size == DivCeil(Len(s), config.n) IN SubSeq(s, r * size + 1, (r + 1) * size)

KvHeadRoundRobin(r) == r % config.kv  \* mutant: replicas are dealt, not kept together
KvHead(r) == (r * config.kv) \div config.n

Shard(key, r) ==
  LET s == Checkpoint[key]
      stop(a) == IF a < Len(s) THEN a ELSE Len(s)
  IN  CASE key \in {"k", "v"} /\ config.kv < config.n ->
             SubSeq(s, KvHead(r) * HeadDim + 1, stop((KvHead(r) + 1) * HeadDim))
        [] key \in {"k", "v"} /\ config.kv >= config.n -> Chunk(s, r)
        [] key \in {"q", "gate", "up", "o", "down"} -> Chunk(s, r)
        [] key \in {"embed", "lm_head"} ->
             SubSeq(s, r * VocabPerRank + 1, stop((r + 1) * VocabPerRank))
        [] key = "norm" -> s

MergeGroups == [qkv |-> << "q", "k", "v" >>, gate_up |-> << "gate", "up" >>]

\* torch.cat in the order of the slots; key is the one that completes the group
Merged(group, parts, key) ==
  FlattenSeq([i \in DOMAIN MergeGroups[group] |-> parts[MergeGroups[group][i]]])

With(f, name, value) == [x \in DOMAIN f \cup {name} |-> IF x = name THEN value ELSE f[x]]
Without(f, names) == [x \in DOMAIN f \ names |-> f[x]]

-----------------------------------------------------------------------------
\* Ranks do not hear of each other before all have loaded: one order stands for all
Turn(r) == \A s \in 0..(r - 1) : pc[s] \in {"ready", "failed"}

\* create_model
Create(r) ==
  /\ pc[r] = "create" /\ Turn(r)
  /\ pc' = [pc EXCEPT ![r] = IF CreateHolds THEN "load" ELSE "failed"]
  /\ UNCHANGED << config, left, merge_buf, weights >>

\* load_weight: one tensor of a file is cut, and yielded unless its group is incomplete
Read(r) ==
  \E key \in left[r] :
    LET shard == Shard(key, r)
        groups == {g \in DOMAIN MergeGroups : key \in ToSet(MergeGroups[g])}
        parts == With(merge_buf[r], key, shard)
    IN  /\ pc[r] = "load" /\ Turn(r)
        /\ left' = [left EXCEPT ![r] = @ \ {key}]
        /\ \/ /\ groups = {}
              /\ weights' = [weights EXCEPT ![r] = With(@, key, shard)]
              /\ UNCHANGED merge_buf
           \/ \E g \in groups :
                /\ ToSet(MergeGroups[g]) \subseteq DOMAIN parts
                /\ weights' = [weights EXCEPT ![r] = With(@, g, Merged(g, parts, key))]
                /\ merge_buf' = [merge_buf EXCEPT ![r] = Without(parts, ToSet(MergeGroups[g]))]
           \/ \E g \in groups :
                /\ ~ ToSet(MergeGroups[g]) \subseteq DOMAIN parts
                /\ merge_buf' = [merge_buf EXCEPT ![r] = parts]
                /\ UNCHANGED weights
        /\ UNCHANGED << config, pc >>

\* load_state_dict: a tied head drops its tensor; every other must be declared, at its length
Load(r) ==
  LET given == IF config.tied THEN Without(weights[r], {"lm_head"}) ELSE weights[r]
  IN  /\ pc[r] = "load" /\ Turn(r) /\ left[r] = {}
      /\ weights' = [weights EXCEPT ![r] = given]
      /\ pc' = [pc EXCEPT ![r] =
                  IF /\ DOMAIN merge_buf[r] = {} /\ DOMAIN given = DOMAIN Declared
                     /\ \A name \in DOMAIN given : Len(given[name]) = Declared[name]
                  THEN "ready" ELSE "failed"]
      /\ UNCHANGED << config, left, merge_buf >>

Init ==
  /\ config \in Configs
  /\ pc = [r \in Ranks |-> "create"]
  /\ left = [r \in Ranks |-> DOMAIN Checkpoint]
  /\ merge_buf = [r \in Ranks |-> NoTensors]
  /\ weights = [r \in Ranks |-> NoTensors]

Next == \E r \in Ranks : Create(r) \/ Read(r) \/ Load(r)

Spec == Init /\ [][Next]_vars

\* The rank's rows of the vocabulary are fewer than its layers declare
ShortShard(r) == Len(Shard("embed", r)) < VocabPerRank

AllReady == \A r \in Ranks : pc[r] = "ready"

-----------------------------------------------------------------------------
(* What the ranks compute. A sum of products is the sequence of its terms, *)
(* so that a term counted twice is not the term counted once.              *)

AllReduce(f) == FlattenSeq([i \in 1..config.n |-> f[i - 1]])

\* indexing: the row of token x on rank r, or zeros
Indexed(r, x) ==
  LET start == VocabPerRank * r
      finish == IF start + VocabPerRank < config.vocab THEN start + VocabPerRank ELSE config.vocab
      pos == x - start
  IN  IF config.n = 1 THEN << weights[r]["embed"][x + 1] >>
      ELSE IF pos \in 0..(finish - start - 1) THEN << weights[r]["embed"][pos + 1] >> ELSE << >>

Embedding(x) == AllReduce([r \in Ranks |-> Indexed(r, x)])

\* Head a of a tensor of heads
HeadOf(s, a) == SubSeq(s, a * HeadDim + 1, (a + 1) * HeadDim)

\* The term of local head a: its query, the key and value its group shares, its output columns
HeadTerm(r, a) ==
  LET qkv == weights[r]["qkv"]
      q == SubSeq(qkv, 1, LocalQo * HeadDim)
      k == SubSeq(qkv, LocalQo * HeadDim + 1, (LocalQo + LocalKv) * HeadDim)
      v == SubSeq(qkv, (LocalQo + LocalKv) * HeadDim + 1, Len(qkv))
      group == a \div (LocalQo \div LocalKv)
  IN  [q |-> HeadOf(q, a), k |-> HeadOf(k, group), v |-> HeadOf(v, group),
       o |-> HeadOf(weights[r]["o"], a)]

Attention == AllReduce([r \in Ranks |-> [a \in 1..LocalQo |-> HeadTerm(r, a - 1)]])

\* silu_and_mul takes the halves of gate_up; down multiplies by its columns
Mlp ==
  AllReduce([r \in Ranks |->
    LET w == weights[r] half == Len(w["gate_up"]) \div 2
    IN  [i \in 1..half |-> [gate |-> w["gate_up"][i], up |-> w["gate_up"][half + i],
                            down |-> w["down"][i]]]])

HeadWeight(r) == weights[r][IF config.tied THEN "embed" ELSE "lm_head"]

\* all_gather: the logits of the ranks one after the other, each row by row
Gathered(bs) ==
  AllReduce([r \in Ranks |->
    FlattenSeq([t \in 1..bs |-> [j \in DOMAIN HeadWeight(r) |-> << t, HeadWeight(r)[j] >>]])])

Logits(bs) ==
  LET per == VocabPerRank
      row(t) == FlattenSeq([i \in 1..config.n |->
                  SubSeq(Gathered(bs), ((i - 1) * bs + t - 1) * per + 1,
                                       ((i - 1) * bs + t) * per)])
  IN  [t \in 1..bs |-> SubSeq(row(t), 1, config.vocab)]

-----------------------------------------------------------------------------
(* A token's embedding is its row of the checkpoint, once: the rows the    *)
(* other ranks add are zero (VocabParallelEmbedding.forward).              *)
EmbeddingIsWhole ==
  AllReady => \A x \in 0..(config.vocab - 1) : Embedding(x) = << << "embed", x >> >>

(* Every query head attends with the key-value head of its group in the    *)
(* checkpoint, replicated or not, meets its own output columns, and is     *)
(* summed once (_shard_tensor, LinearQKVMerged, AttentionLayer.forward).   *)
HeadsKeepTheirKeys ==
  AllReady =>
    LET whole == Checkpoint
        group(h) == h \div (config.qo \div config.kv)
        term(h) == [q |-> HeadOf(whole["q"], h), k |-> HeadOf(whole["k"], group(h)),
                    v |-> HeadOf(whole["v"], group(h)), o |-> HeadOf(whole["o"], h)]
    IN  /\ ToSet(Attention) = {term(h) : h \in 0..(config.qo - 1)}
        /\ Len(Attention) = config.qo

(* Every intermediate unit is gated by its own gate and meets its own down *)
(* columns, once, whatever order gate and up were read in (GatedMLP).      *)
MlpIsWhole ==
  AllReady =>
    /\ ToSet(Mlp) = {[gate |-> << "gate", i >>, up |-> << "up", i >>, down |-> << "down", i >>] :
                       i \in 0..(config.inter - 1)}
    /\ Len(Mlp) = config.inter

(* The logits of every row of a batch are in the order of the vocabulary,  *)
(* whatever the number of rows (ParallelLMHead.forward).                   *)
LogitsInOrder ==
  AllReady =>
    \A bs \in BatchSizes, t \in 1..Max(BatchSizes), x \in 0..(config.vocab - 1) :
      t <= bs => Logits(bs)[t][x + 1] = << t, << IF config.tied THEN "embed" ELSE "lm_head", x >> >>

(* The checks of the layers and of the loader fail on every rank or on     *)
(* none, with one exception: where the vocabulary does not divide, the     *)
(* last ranks get fewer rows than they declare (_shard_tensor), and no     *)
(* such rank passes the check of BaseOP.load_state_dict, while the others  *)
(* do and wait for it in a collective.                                     *)
FailTogether ==
  /\ \A r, s \in Ranks : pc[r] = "failed" /\ pc[s] = "ready" => ShortShard(r)
  /\ \A r \in Ranks : ShortShard(r) => pc[r] # "ready"
=============================================================================
