------------------------------- MODULE Messages -------------------------------
(***************************************************************************)
(* What the messages between the processes carry, and what encoding them   *)
(* for ZMQ makes of it (message/, utils/mp.py): a request on its way from  *)
(* the frontend through the tokenizer worker to the scheduler, and its     *)
(* replies on their way back. Every queue decodes with the classes of one  *)
(* file only. Serving models the order in which they arrive.               *)
(* Tokens and texts are values; a tensor keeps its dtype and its items.    *)
(***************************************************************************)
EXTENDS Integers, SequencesExt, FiniteSetsExt, TLC

CONSTANTS Uids,
          Chats,                \* the uids whose text is a list of chat messages
          IgnoreEos,            \* uid -> its sampling parameter
          LocalBs,              \* local_bs of the worker
          MaxReplies            \* bound: the tokens the scheduler answers

MessagesAssumption ==
  /\ Chats \subseteq Uids /\ LocalBs \in Nat \ {0} /\ MaxReplies \in Nat
  /\ IgnoreEos \in [Uids -> BOOLEAN]

VARIABLES to_tokenizer, to_backend, to_frontend,   \* what is on the wires, encoded
          asked, handled, said, answered           \* history: objects put in and taken out

vars == << to_tokenizer, to_backend, to_frontend, asked, handled, said, answered >>

-----------------------------------------------------------------------------
(* Python values. *)

Scalar(x) == [kind |-> "scalar", value |-> x]
Items(s) == [kind |-> "list", items |-> s]
Dict(f) == [kind |-> "dict", fields |-> f]
Tensor(dtype, s) == [kind |-> "tensor", dtype |-> dtype, items |-> s]
Obj(class, f) == [kind |-> "object", class |-> class, fields |-> f]
Error == [kind |-> "error"]

-----------------------------------------------------------------------------
(* The classes a queue's decoder finds in the globals of its file, each    *)
(* with the fields of its constructor.                                     *)

Sampling == "SamplingParams" :> {"ignore_eos"}

BackendClasses ==
  Sampling @@ "BatchBackendMsg" :> {"data"} @@ "ExitMsg" :> {}
    @@ "UserMsg" :> {"uid", "input_ids", "sampling_params", "priority"}
    @@ "AbortBackendMsg" :> {"uid"}

TokenizerClasses ==
  Sampling @@ "BatchTokenizerMsg" :> {"data"}
    @@ "DetokenizeMsg" :> {"uid", "next_token", "finished"}
    @@ "TokenizeMsg" :> {"uid", "text", "sampling_params", "priority"}
    @@ "AbortMsg" :> {"uid"}

FrontendClasses ==
  "BatchFrontendMsg" :> {"data"} @@ "UserReply" :> {"uid", "incremental_output", "finished"}

-----------------------------------------------------------------------------
RECURSIVE Serialized(_), Deserialized(_, _)

\* serialize_type and _serialize_any
Serialized(value) ==
  CASE value.kind = "scalar" -> value
    [] value.kind = "list" -> Items([i \in DOMAIN value.items |-> Serialized(value.items[i])])
    [] value.kind = "dict" -> Dict([k \in DOMAIN value.fields |-> Serialized(value.fields[k])])
    [] value.kind = "tensor" ->
         Dict("__type__" :> Scalar("Tensor") @@ "buffer" :> Items(value.items)
                @@ "dtype" :> Scalar(value.dtype))
    [] value.kind = "object" ->
         Dict("__type__" :> Scalar(value.class)
                @@ [k \in DOMAIN value.fields |-> Serialized(value.fields[k])])

\* deserialize_type and _deserialize_any
Deserialized(classes, data) ==
  LET field(k) == Deserialized(classes, data.fields[k])
      typed == data.kind = "dict" /\ "__type__" \in DOMAIN data.fields
      type == data.fields["__type__"].value
      given == DOMAIN data.fields \ {"__type__"}
  IN  CASE data.kind = "scalar" -> data
        [] data.kind = "list" ->
             Items([i \in DOMAIN data.items |-> Deserialized(classes, data.items[i])])
        [] data.kind = "dict" /\ ~ typed -> Dict([k \in given |-> field(k)])
        [] typed /\ type = "Tensor" ->
             Tensor(data.fields["dtype"].value, data.fields["buffer"].items)
        [] typed /\ type \in DOMAIN classes ->
             IF given \subseteq classes[type] /\ \A k \in given : field(k) # Error
             THEN Obj(type, [k \in given |-> field(k)]) ELSE Error
        [] typed /\ type \notin DOMAIN classes \cup {"Tensor"} -> Error

\* A list whose items were not all decoded is one that was not
Decoded(classes, data) ==
  LET obj == Deserialized(classes, data)
  IN  IF /\ obj # Error /\ "data" \in DOMAIN obj.fields
         /\ \E i \in DOMAIN obj.fields["data"].items : obj.fields["data"].items[i] = Error
      THEN Error ELSE obj

Put(queue, obj) == Append(queue, Serialized(obj))

\* put of a batch, of its only message, or of nothing
PutAll(queue, class, msgs) ==
  CASE Len(msgs) = 0 -> queue
    [] Len(msgs) = 1 -> Put(queue, msgs[1])
    [] Len(msgs) > 1 -> Put(queue, Obj(class, "data" :> Items(msgs)))

Unwrapped(obj) == IF "data" \in DOMAIN obj.fields THEN obj.fields["data"].items ELSE << obj >>

-----------------------------------------------------------------------------
(* The frontend. *)

Text(u) ==
  IF u \in Chats THEN Items(<< Dict("role" :> Scalar("user") @@ "content" :> Scalar(u)) >>)
  ELSE Scalar(u)

Parameters(u) == Obj("SamplingParams", "ignore_eos" :> Scalar(IgnoreEos[u]))

\* No endpoint sets a priority
TokenizeMsg(u) ==
  Obj("TokenizeMsg", "uid" :> Scalar(u) @@ "text" :> Text(u)
        @@ "sampling_params" :> Parameters(u) @@ "priority" :> Scalar(0))

Ask(u) ==
  /\ u \notin {a[2] : a \in asked}
  /\ asked' = asked \cup {<< "ask", u >>}
  /\ to_tokenizer' = Put(to_tokenizer, TokenizeMsg(u))
  /\ UNCHANGED << to_backend, to_frontend, handled, said, answered >>

Leave(u) ==
  /\ << "ask", u >> \in asked /\ << "abort", u >> \notin asked
  /\ asked' = asked \cup {<< "abort", u >>}
  /\ to_tokenizer' = Put(to_tokenizer, Obj("AbortMsg", "uid" :> Scalar(u)))
  /\ UNCHANGED << to_backend, to_frontend, handled, said, answered >>

-----------------------------------------------------------------------------
(* The tokenizer worker. *)

\* The tokens of a text: a chat is rendered by its template first
Tokens(text) ==
  IF text.kind = "list" THEN << "template", text.items[1].fields["content"].value >>
  ELSE << text.value >>

AsUserMsgPlain(msg) ==          \* mutant: the parameters are the defaults
  Obj("UserMsg", "uid" :> msg.fields["uid"]
        @@ "input_ids" :> Tensor("int32", Tokens(msg.fields["text"]))
        @@ "sampling_params" :> Obj("SamplingParams", "ignore_eos" :> Scalar(FALSE))
        @@ "priority" :> msg.fields["priority"])

AsUserMsg(msg) ==
  Obj("UserMsg", "uid" :> msg.fields["uid"]
        @@ "input_ids" :> Tensor("int32", Tokens(msg.fields["text"]))
        @@ "sampling_params" :> msg.fields["sampling_params"]
        @@ "priority" :> msg.fields["priority"])

AsReply(msg) ==
  Obj("UserReply", "uid" :> msg.fields["uid"] @@ "finished" :> msg.fields["finished"]
        @@ "incremental_output" :> msg.fields["next_token"])

OfClass(msgs, class) == SelectSeq(msgs, LAMBDA m : m.class = class)

Mapped(Op(_), msgs) == [i \in DOMAIN msgs |-> Op(msgs[i])]

\* The requests of a turn, and then its aborts, to the scheduler
BackendAfter(msgs) ==
  PutAll(PutAll(to_backend, "BatchBackendMsg", Mapped(AsUserMsg, OfClass(msgs, "TokenizeMsg"))),
         "BatchBackendMsg",
         Mapped(LAMBDA m : Obj("AbortBackendMsg", "uid" :> m.fields["uid"]),
                OfClass(msgs, "AbortMsg")))

\* tokenize_worker: one turn takes messages until it has local_bs, or finds the queue empty
Work ==
  \E n \in 1..Len(to_tokenizer) :
    LET taken(k) == FlattenSeq([i \in 1..k |-> Unwrapped(Decoded(TokenizerClasses, to_tokenizer[i]))])
        msgs == taken(n)
    IN  /\ \A i \in 1..n : Decoded(TokenizerClasses, to_tokenizer[i]) # Error
        /\ Len(taken(n - 1)) < LocalBs
        /\ to_tokenizer' = SubSeq(to_tokenizer, n + 1, Len(to_tokenizer))
        /\ to_frontend' = PutAll(to_frontend, "BatchFrontendMsg",
                                 Mapped(AsReply, OfClass(msgs, "DetokenizeMsg")))
        /\ to_backend' = BackendAfter(msgs)
        /\ UNCHANGED << asked, handled, said, answered >>

-----------------------------------------------------------------------------
(* The scheduler and the frontend's listener. *)

\* _recv_msg and _process_one_msg
Handle ==
  /\ to_backend # << >>
  /\ Decoded(BackendClasses, Head(to_backend)) # Error
  /\ handled' = handled \cup ToSet(Unwrapped(Decoded(BackendClasses, Head(to_backend))))
  /\ to_backend' = Tail(to_backend)
  /\ UNCHANGED << to_tokenizer, to_frontend, asked, said, answered >>

\* _reply_tokenizer_rank0: the next token, the number of tokens said, of each request of a batch
Reply ==
  \E batch \in SUBSET {m.fields["uid"].value : m \in {h \in handled : h.class = "UserMsg"}},
     finished \in BOOLEAN :
    LET msg(u) == Obj("DetokenizeMsg", "uid" :> Scalar(u) @@ "finished" :> Scalar(finished)
                        @@ "next_token" :> Scalar(Cardinality(said) + u))
        msgs == {msg(u) : u \in batch}
    IN  /\ batch # {} /\ Cardinality(said) + Cardinality(batch) <= MaxReplies
        /\ said' = said \cup {AsReply(m) : m \in msgs}
        /\ to_tokenizer' = PutAll(to_tokenizer, "BatchTokenizerMsg", SetToSeq(msgs))
        /\ UNCHANGED << to_backend, to_frontend, asked, handled, answered >>

\* FrontendManager.listen
Listen ==
  /\ to_frontend # << >>
  /\ Decoded(FrontendClasses, Head(to_frontend)) # Error
  /\ answered' = answered \cup ToSet(Unwrapped(Decoded(FrontendClasses, Head(to_frontend))))
  /\ to_frontend' = Tail(to_frontend)
  /\ UNCHANGED << to_tokenizer, to_backend, asked, handled, said >>

Init ==
  /\ to_tokenizer = << >> /\ to_backend = << >> /\ to_frontend = << >>
  /\ asked = {} /\ handled = {} /\ said = {} /\ answered = {}

Next == (\E u \in Uids : Ask(u) \/ Leave(u)) \/ Work \/ Handle \/ Reply \/ Listen

Spec == Init /\ [][Next]_vars

-----------------------------------------------------------------------------
(* Every queue's decoder knows every class, at any depth, of what is put   *)
(* into it: no process stops at a message of another (deserialize_type).   *)
EveryMessageDecodes ==
  /\ \A i \in DOMAIN to_tokenizer : Decoded(TokenizerClasses, to_tokenizer[i]) # Error
  /\ \A i \in DOMAIN to_backend : Decoded(BackendClasses, to_backend[i]) # Error
  /\ \A i \in DOMAIN to_frontend : Decoded(FrontendClasses, to_frontend[i]) # Error

(* After two queues the scheduler has the request the frontend was asked,  *)
(* with the tokens and parameters of its own uid, and a client             *)
(* gets the tokens the scheduler chose for it (tokenize_worker).           *)
ArrivesWhole ==
  /\ \A m \in handled :
       LET u == m.fields["uid"].value
       IN  CASE m.class = "UserMsg" ->
                  /\ << "ask", u >> \in asked
                  /\ m.fields["input_ids"] =
                       Tensor("int32", IF u \in Chats THEN << "template", u >> ELSE << u >>)
                  /\ m.fields["sampling_params"] = Parameters(u)
             [] m.class = "AbortBackendMsg" -> << "abort", u >> \in asked
  /\ answered \subseteq said

(* What was asked has been handled, or is on a wire: sorting the messages  *)
(* of a turn by kind drops none (tokenize_worker).                         *)
NothingDropped ==
  LET wire(queue, classes) ==
        UNION {ToSet(Unwrapped(Decoded(classes, queue[i]))) : i \in DOMAIN queue}
      there(ours, theirs) ==
        {m.fields["uid"].value : m \in {x \in wire(to_tokenizer, TokenizerClasses) : x.class = ours}}
          \cup {m.fields["uid"].value :
                  m \in {x \in handled \cup wire(to_backend, BackendClasses) : x.class = theirs}}
  IN  \A a \in asked : a[2] \in IF a[1] = "ask" THEN there("TokenizeMsg", "UserMsg")
                                ELSE there("AbortMsg", "AbortBackendMsg")
=============================================================================
