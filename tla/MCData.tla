------------------------------- MODULE MCData -------------------------------
(***************************************************************************)
(* Small instances of TensorParallel, Sampler, Messages and Detokenizer    *)
(* for TLC, in one state space: part says which of them a behaviour is of, *)
(* and the variables of the others stay as they were at first.  They share *)
(* no state.                                                               *)
(***************************************************************************)
EXTENDS Integers, TLC

VARIABLES part,
          config, pc, left, merge_buf, weights,
          batch, args, allowed,
          to_tokenizer, to_backend, to_frontend, asked, handled, said, answered,
          decode_map, told, ids, done

-----------------------------------------------------------------------------
(* Models and groups: the vocabulary does not always divide, nor do the layers. *)
Of(n, vocab, qo, kv, inter, tied, head) ==
  [n |-> n, vocab |-> vocab, qo |-> qo, kv |-> kv, inter |-> inter, tied |-> tied, head |-> head]

Shards ==
  INSTANCE TensorParallel WITH
    HeadDim <- 2, BatchSizes <- {1, 2, 3},
    Configs <-
      {Of(1, 3, 2, 1, 1, FALSE, TRUE),
       Of(2, 4, 4, 4, 2, FALSE, TRUE), Of(2, 6, 4, 2, 4, TRUE, FALSE), Of(2, 4, 2, 1, 2, TRUE, TRUE),
       Of(4, 8, 8, 2, 4, FALSE, TRUE), Of(4, 4, 4, 1, 4, TRUE, FALSE), Of(4, 8, 8, 4, 8, TRUE, TRUE),
       Of(2, 5, 4, 2, 2, FALSE, TRUE), Of(4, 5, 4, 2, 4, TRUE, FALSE),
       Of(3, 6, 6, 2, 3, FALSE, TRUE), Of(2, 4, 3, 1, 2, FALSE, TRUE)}

(* Three tokens, with and without a tie, and parameters at and outside every limit. *)
Sampling ==
  INSTANCE Sampler WITH
    VocabSize <- 3, One <- 1000, MaxBatch <- 2,
    Temperatures <- {0, 1000}, TopKs <- {-1, 1, 2, 4}, TopPs <- {0, 600, 1000, 1500},
    Rows <- {0 :> 500 @@ 1 :> 300 @@ 2 :> 200, 0 :> 200 @@ 1 :> 400 @@ 2 :> 400}

(* Two requests, a text and a chat, one of them with ignore_eos. *)
Wires ==
  INSTANCE Messages WITH
    Uids <- {1, 2}, Chats <- {2}, IgnoreEos <- << TRUE, FALSE >>, LocalBs <- 2, MaxReplies <- 3

(* Words, characters whole and in halves; Chinese ones for a single request. *)
End == << << "eos", 0 >> >>
Word == << << "space", 0 >>, << "w", 0 >> >>
FirstHalf == << << "h", 1 >> >>
SecondThenFirst == << << "h", 2 >>, << "h", 1 >> >>
SecondHalf == << << "h", 2 >> >>
SomeTokens == {End, Word, FirstHalf, SecondThenFirst, SecondHalf}

Latin ==
  INSTANCE Detokenizer WITH
    Uids <- {1, 2}, Tokens <- SomeTokens, Eos <- End, Chinese <- {},
    DropsFirstSpace <- TRUE, MaxTokens <- 3
Chinese ==
  INSTANCE Detokenizer WITH
    Uids <- {1}, Tokens <- SomeTokens, Eos <- End, Chinese <- {"h"},
    DropsFirstSpace <- FALSE, MaxTokens <- 6

ASSUME DataAssumptions ==
  /\ Shards!TensorParallelAssumption /\ Sampling!SamplerAssumption
  /\ Wires!MessagesAssumption
  /\ Latin!DetokenizerAssumption /\ Chinese!DetokenizerAssumption

-----------------------------------------------------------------------------
shardVars == << config, pc, left, merge_buf, weights >>
sampleVars == << batch, args, allowed >>
wireVars == << to_tokenizer, to_backend, to_frontend, asked, handled, said, answered >>
textVars == << decode_map, told, ids, done >>

NoShards == config = "none" /\ pc = "none" /\ left = "none" /\ merge_buf = "none" /\ weights = "none"

Init ==
  /\ part \in {"shards", "sampling", "wires", "latin", "chinese"}
  /\ IF part = "shards" THEN Shards!Init ELSE NoShards
  /\ Sampling!Init /\ Wires!Init
  /\ IF part = "chinese" THEN Chinese!Init ELSE Latin!Init

ShardStep ==
  part = "shards" /\ Shards!Next /\ UNCHANGED << sampleVars, wireVars, textVars >>

SampleStep ==
  part = "sampling" /\ Sampling!Next /\ UNCHANGED << shardVars, wireVars, textVars >>

WireStep ==
  part = "wires" /\ Wires!Next /\ UNCHANGED << shardVars, sampleVars, textVars >>

TextStep ==
  /\ \/ part = "latin" /\ Latin!Next
     \/ part = "chinese" /\ Chinese!Next
  /\ UNCHANGED << shardVars, sampleVars, wireVars >>

Next == (ShardStep \/ SampleStep \/ WireStep \/ TextStep) /\ UNCHANGED part

Spec == Init /\ [][Next]_<< part, shardVars, sampleVars, wireVars, textVars >>

-----------------------------------------------------------------------------
\* If every rank of a group loads, they compute the model of the checkpoint, embedding,
\* attention, MLP and logits; otherwise all of them fail to load it, or, of a vocabulary
\* that does not divide, at least those with a short shard do (TensorParallel).
ModelIsWhole ==
  part = "shards" =>
    /\ Shards!EmbeddingIsWhole
    /\ Shards!HeadsKeepTheirKeys
    /\ Shards!MlpIsWhole
    /\ Shards!LogitsInOrder
    /\ Shards!FailTogether

\* A request is sampled as if alone in its batch, within what it asked for (Sampler).
BatchmatesDoNotMatter ==
  part = "sampling" => Sampling!BatchmatesDoNotMatter /\ Sampling!WithinItsParams

\* Every message is decoded by the queue that takes it, arrives with what it was
\* put in with, and none is dropped where a worker sorts them (Messages).
MessagesArriveWhole ==
  part = "wires" => /\ Wires!EveryMessageDecodes
                    /\ Wires!ArrivesWhole
                    /\ Wires!NothingDropped

\* A client is sent the text of its tokens, each piece once, none taken back, and
\* nothing held back but an unfinished character; its entry ends with it (Detokenizer).
TextIsTold ==
  /\ part = "latin" => Latin!ToldIsPrefix /\ Latin!ToldAll /\ Latin!EntriesAreRunning
  /\ part = "chinese" => Chinese!ToldIsPrefix /\ Chinese!ToldAll /\ Chinese!EntriesAreRunning
=============================================================================
