------------------------------ MODULE Serving ------------------------------
(***************************************************************************)
(* The processes of one server together: the frontend, the tokenizers, the *)
(* scheduler and the detokenizer (tokenizer/server.py, startup.py).  Every *)
(* pair of processes has a FIFO pipe; a process with several of them takes *)
(* from any.  Of the scheduler only its messages are left: what it does    *)
(* between them is Scheduler's.  With num_tokenizer = 0 the detokenizer    *)
(* also tokenizes; as it handles one message at a time, it is the instance *)
(* with one tokenizer.                                                     *)
(***************************************************************************)
EXTENDS Frontend

CONSTANT Args                   \* the possible arguments and inputs of a run:
  \* local_bs: messages a worker handles together; overlap: is it overlap_loop, with
  \* a batch in flight; too_long: the uids whose prompt exceeds max_seq_len;
  \* replies: bound, replies to one request.  No request has a negative max_tokens,
  \* which ends the scheduler (Scheduler, AddFails).

ASSUME ServingAssumption ==
  Args \subseteq [local_bs : Nat \ {0}, overlap : BOOLEAN, too_long : SUBSET User,
                 replies : 1..MaxReplies]

VARIABLES args,                 \* the arguments of this run
          to_backend,           \* tokenizer -> batches of backend messages
          running,              \* the uids the scheduler holds
          late,                 \* the uids freed while their batch is in flight
          scheduler,            \* sound, corrupt (it has freed a request twice) or ended
          to_detokenizer,       \* batches of DetokenizeMsg
          decode_map            \* DetokenizeManager: the uids with a status

backend == << args, to_backend, running, late, scheduler, to_detokenizer, decode_map >>
all == << frontend, backend >>

ServingInit ==
  /\ Init
  /\ args \in Args
  /\ to_backend = [t \in Tokenizer |-> << >>]
  /\ running = {} /\ late = {} /\ scheduler = "sound"
  /\ to_detokenizer = << >>
  /\ decode_map = {}

-----------------------------------------------------------------------------
Kind(messages, k) == Within(messages, {x \in Message : x.kind = k})

\* What is sent for a list: nothing if it is empty
AsBatch(messages) == IF messages = << >> THEN << >> ELSE << messages >>

AbortsFirst(messages) ==        \* mutant: the worker sends its aborts first
  AsBatch(Kind(messages, "abort")) \o AsBatch(Kind(messages, "tokenize"))

\* What a worker makes of the messages it took: one batch of the tokenized
\* requests, then one of the aborts
Forwarded(messages) ==
  AsBatch(Kind(messages, "tokenize")) \o AsBatch(Kind(messages, "abort"))

\* One turn of tokenize_worker on messages of the frontend
Tokenize(t) ==
  \E k \in 1..args.local_bs :
    /\ k <= Len(to_tokenizer[t])
    /\ to_tokenizer' = [to_tokenizer EXCEPT ![t] = SubSeq(@, k + 1, Len(@))]
    /\ to_backend' = [to_backend EXCEPT
                        ![t] = @ \o Forwarded(SubSeq(to_tokenizer[t], 1, k))]
    /\ UNCHANGED << manager, tasks, world, inbox, issued >>
    /\ UNCHANGED << args, running, late, scheduler, to_detokenizer, decode_map >>

Uids(messages) == {messages[i].uid : i \in DOMAIN messages}

\* Scheduler._process_one_msg for a batch of one kind: too long a request is
\* dropped, an abort is for whoever is there, be it in the batch in flight
Receive(t) ==
  /\ scheduler # "ended" /\ to_backend[t] # << >>
  /\ LET messages == Head(to_backend[t])
         aborts == Uids(Kind(messages, "abort"))
         new == Uids(Kind(messages, "tokenize")) \ args.too_long
     IN  /\ running' = (running \cup new) \ aborts
         /\ \E flying \in SUBSET {u \in aborts \cap running : args.overlap} :
              late' = late \cup flying
  /\ to_backend' = [to_backend EXCEPT ![t] = Tail(@)]
  /\ UNCHANGED << args, frontend, scheduler, to_detokenizer, decode_map >>

OutputLimit == IF args.overlap THEN args.replies - 1 ELSE args.replies

FreeToAnswer(S) ==              \* the flags the replies of a batch can have
  {f \in [S -> BOOLEAN] :
     \A u \in S \cap running : Len(issued[u]) + 1 >= OutputLimit => f[u]}

\* A request aborted in flight, which its results find freed but not finished
AbortedInFlight(u) == u \in late /\ \A i \in DOMAIN issued[u] : ~ issued[u][i].finished

\* Those of S whose resources are freed, or handed to the tree, once more
FreedTwice(S, f) == {u \in S : AbortedInFlight(u) /\ (f[u] \/ issued[u] = << >>)}

StillRunning(S, f) == running \ {u \in S : f[u]}

\* _process_last_data: the replies of a batch, in the order of its requests.
\* In overlap_loop a request that has just ended may be in the next batch.
ReplyBatch(S) ==
  /\ scheduler # "ended"
  /\ S # {} /\ S \subseteq running \cup late
  /\ \A u \in S : Len(issued[u]) < args.replies
  /\ \E f \in FreeToAnswer(S) :
       \E order \in {s \in [1..Cardinality(S) -> S] : IsInjective(s)} :
         LET reply(u) == [uid |-> u, n |-> Len(issued[u]) + 1, finished |-> f[u]]
         IN /\ issued' = [u \in User |-> IF u \in S THEN Append(issued[u], reply(u))
                                                     ELSE issued[u]]
            /\ to_detokenizer' = Append(to_detokenizer, [i \in DOMAIN order |-> reply(order[i])])
            /\ running' = StillRunning(S, f)
            /\ scheduler' = IF FreedTwice(S, f) = {} THEN scheduler ELSE "corrupt"
            /\ \E again \in SUBSET {u \in S \cap running : args.overlap /\ f[u]} :
                 late' = (late \ S) \cup again
  /\ UNCHANGED << manager, tasks, world, to_tokenizer, inbox, args, to_backend, decode_map >>

\* Freeing twice fails the assertion of lock_handle, at once or for a later holder of
\* the same path (Scheduler, RefCountsAsserted); the replies of the batch are lost.
SchedulerEnds ==
  /\ scheduler = "corrupt" \/ (scheduler = "sound" /\ \E u \in late : AbortedInFlight(u))
  /\ scheduler' = "ended"
  /\ UNCHANGED << frontend, args, to_backend, running, late, to_detokenizer, decode_map >>

\* The statuses after DetokenizeManager.detokenize
Statuses(batch) ==
  (decode_map \cup Uids(batch))
    \ {batch[i].uid : i \in {j \in DOMAIN batch : batch[j].finished}}

\* The other turn of tokenize_worker, on messages of the scheduler
Detokenize ==
  \E k \in 1..args.local_bs :
    /\ k <= Len(to_detokenizer)
    /\ LET batch == FlattenSeq(SubSeq(to_detokenizer, 1, k))
       IN  inbox' = Append(inbox, batch) /\ decode_map' = Statuses(batch)
    /\ to_detokenizer' = SubSeq(to_detokenizer, k + 1, Len(to_detokenizer))
    /\ UNCHANGED << manager, tasks, world, to_tokenizer, issued >>
    /\ UNCHANGED << args, to_backend, running, late, scheduler >>

FrontendStep ==
  /\ Client \/ Listen \/ \E u \in User : UserStep(u)
  /\ UNCHANGED backend

ServingNext ==
  \/ FrontendStep
  \/ \E t \in Tokenizer : Tokenize(t) \/ Receive(t)
  \/ \E S \in SUBSET User : ReplyBatch(S)
  \/ SchedulerEnds
  \/ Detokenize

ServingSpec == ServingInit /\ [][ServingNext]_all

Replies(u) == \E S \in SUBSET User : u \in S /\ ReplyBatch(S)

\* Every process is a loop that keeps running; the scheduler comes to every request
\* it holds, as long as no abort has found one in flight (Scheduler, Served, in both
\* loops).  Clients owe nothing.
ServingFairness ==
  /\ WF_all(Listen /\ UNCHANGED backend)
  /\ \A u \in User : WF_all(UserStep(u) /\ UNCHANGED backend) /\ WF_all(Replies(u))
  /\ \A t \in Tokenizer : WF_all(Tokenize(t)) /\ WF_all(Receive(t))
  /\ WF_all(Detokenize)

FairServing == ServingSpec /\ ServingFairness

-----------------------------------------------------------------------------
\* Where a message of u is between frontend and scheduler
InPipe(k, u) ==
  \E t \in Tokenizer :
    \/ \E i \in DOMAIN to_tokenizer[t] : to_tokenizer[t][i] = [kind |-> k, uid |-> u]
    \/ \E i \in DOMAIN to_backend[t] : u \in Uids(Kind(to_backend[t][i], k))

\* From the scheduler to the client, through two more queues and a process in
\* between, no reply is lost, doubled or overtaken while the stream is open.
RepliesInOrder ==
  \A u \in User : Streaming(u) =>
    got[u] \o held[u] \o ack_map[u] \o Queued(u) \o Of(FlattenSeq(to_detokenizer), u)
      = issued[u]

\* Cancelling works: when the abort of a request has been handled, the
\* scheduler neither runs the request nor will begin to.
AbortedNotRunning ==
  \A u \in User :
    aborting[u] = "sent" /\ ~InPipe("abort", u) =>
      u \notin running /\ ~InPipe("tokenize", u)

\* The detokenizer keeps a status for a request only while more replies of it
\* can come, or it was cancelled or answered once too often: those stay.
StatusesNeeded ==
  \A u \in decode_map :
    \/ u \in running \cup late
    \/ Of(FlattenSeq(to_detokenizer), u) # << >>
    \/ aborting[u] # "no"
    \/ args.overlap

\* A request the scheduler works for is one the frontend has a handler for,
\* until it is cancelled: nobody is computed for without a listener.
RunningIsAsked ==
  \A u \in running :
    \/ Streaming(u) /\ u \in DOMAIN ack_map
    \/ aborting[u] # "no"
    \/ task[u] = "lost"

\* Nobody is worked for in vain.
NothingUnwanted == AbortedNotRunning /\ RunningIsAsked /\ StatusesNeeded

\* What the client sees is what RequestService promises.
Phase(u) ==
  IF task[u] = "none" THEN "new"
  ELSE IF u \notin connected THEN "left"
  ELSE IF task[u] \in {"ending", "done"} THEN "closed" ELSE "open"

Service == INSTANCE RequestService WITH
  Client <- User, Answer <- Reply, Final <- {r \in Reply : r.finished},
  phase <- [u \in User |-> Phase(u)], answers <- issued, seen <- got

ImplementsService == Service!Spec

\* Every request that is not too long is answered to its end, or its client
\* leaves, as long as the scheduler frees no request twice.
Answered ==
  \A u \in User :
    task[u] = "sending" /\ u \notin args.too_long
      ~> (task[u] = "done" \/ u \notin connected \/ scheduler # "sound")

\* A request whose client has left does not run for ever, cancelled or not.
LostEnds ==
  \A u \in User : (u \notin connected) ~> [](u \notin running \/ scheduler # "sound")

\* Every request comes to an end, for its client or without it, unless the abort of
\* one in flight has made overlap_loop free it twice: then all may wait for ever.
RequestsEnd == Answered /\ LostEnds
=============================================================================
