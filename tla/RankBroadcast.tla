--------------------------- MODULE RankBroadcast ---------------------------
(***************************************************************************)
(* The scheduler processes of one tensor-parallel group, scheduler/io.py:  *)
(* rank 0 pulls messages from its socket, publishes their bytes to the     *)
(* other ranks and broadcasts their number over the process group, and all *)
(* ranks then run the same iteration of the scheduler loop, whose forward  *)
(* pass none of them completes without the others.                         *)
(*                                                                         *)
(* An iteration is abstracted to what the ranks must agree on: whether it  *)
(* waits for a message, which messages it handles, and which requests are  *)
(* in its batch.  A request takes part in Work[m] batches.                 *)
(***************************************************************************)
EXTENDS Naturals, SequencesExt, FiniteSetsExt

CONSTANTS Size,                 \* tp_info.size
          Reqs, Exit,           \* user messages, and the ExitMsg
          Work,                 \* batches of a request
          Overlap,              \* overlap_loop or normal_loop
          Late,                 \* may a subscription reach rank 0 after a message?
          HighWater             \* messages a PUB socket holds for a subscriber

ASSUME RankBroadcastAssumption ==
  /\ Size \in Nat \ {0} /\ HighWater \in Nat /\ {Overlap, Late} \subseteq BOOLEAN
  /\ IsFiniteSet(Reqs) /\ Exit \notin Reqs /\ Work \in [Reqs -> Nat \ {0}]

Ranks == 0..(Size - 1)
Others == Ranks \ {0}
Msgs == Reqs \cup {Exit}

VARIABLES inbox,                \* the PULL socket of rank 0
          joined, sub,          \* the subscribers rank 0 knows; rank -> its SUB socket
          counts,               \* rank -> the numbers broadcast to it
          pc, raw,              \* rank -> where it is; what rank 0 is to publish
          pending,              \* rank -> pending_msgs
          want,                 \* rank -> how many more messages it is to get
          left,                 \* rank -> request -> batches it will still be in
          last, ongoing,        \* rank -> last_data and ongoing_data: a batch and its number
          launched,             \* rank -> the batches given to its GPU
          replies,              \* history: request -> replies sent to the detokenizer
          arrived, taken,       \* history: all messages; how many were in a count
          log, applied          \* history: what rank 0 decided; rank -> what it handled

socketVars == << inbox, joined, sub, counts >>
loopVars == << pc, raw, pending, want >>
batchVars == << left, last, ongoing, launched, replies >>
historyVars == << arrived, taken, log, applied >>
vars == << socketVars, loopVars, batchVars, historyVars >>

-----------------------------------------------------------------------------
NoBatch == [number |-> 0, reqs |-> << >>]

Running(r) == {m \in Reqs : left[r][m] > 0}

Blocking(r) == Running(r) = {} /\ last[r] = NoBatch

Goto(r, label) == pc' = [pc EXCEPT ![r] = label]
AddPending(r, m) == pending' = [pending EXCEPT ![r] = Append(@, m)]

\* A PUB socket drops what its subscriber has no room for, or what it does not
\* know of yet
Published(m) ==
  [r \in Others |-> IF r \in joined /\ Len(sub[r]) < HighWater THEN Append(sub[r], m)
                    ELSE sub[r]]

-----------------------------------------------------------------------------
Wait0Unpublished ==             \* mutant: the first message is not published
  /\ pc[0] = "start" /\ Blocking(0)
  /\ inbox # << >>
  /\ inbox' = Tail(inbox)
  /\ AddPending(0, Head(inbox))
  /\ Goto(0, "poll")
  /\ UNCHANGED << joined, sub, counts, raw, want, batchVars, historyVars >>

\* Rank 0: _recv_msg_multi_rank0, or _recv_msg_single_rank
Wait0 ==
  /\ pc[0] = "start" /\ Blocking(0)
  /\ inbox # << >>
  /\ inbox' = Tail(inbox)
  /\ sub' = Published(Head(inbox))
  /\ AddPending(0, Head(inbox))
  /\ Goto(0, "poll")
  /\ UNCHANGED << joined, counts, raw, want, batchVars, historyVars >>

NoWait0 ==
  /\ pc[0] = "start" /\ ~Blocking(0)
  /\ Goto(0, "poll")
  /\ UNCHANGED << socketVars, raw, pending, want, batchVars, historyVars >>

Poll ==
  /\ pc[0] = "poll" /\ inbox # << >>
  /\ raw' = Append(raw, Head(inbox)) /\ inbox' = Tail(inbox)
  /\ UNCHANGED << joined, sub, counts, pc, pending, want, batchVars, historyVars >>

CountAll == Len(pending[0] \o raw)      \* mutant: the first message is counted again
Count == Len(raw)

\* The socket is empty: the count goes out
Broadcast ==
  /\ pc[0] = "poll" /\ inbox = << >>
  /\ counts' = [r \in Others |-> Append(counts[r], Count)]
  /\ Goto(0, "publish")
  /\ log' = Append(log, pending[0] \o raw)
  /\ taken' = taken + Len(pending[0] \o raw)
  /\ UNCHANGED << inbox, joined, sub, raw, pending, want, batchVars, arrived, applied >>

Publish ==
  /\ pc[0] = "publish" /\ raw # << >>
  /\ sub' = Published(Head(raw))
  /\ raw' = Tail(raw)
  /\ AddPending(0, Head(raw))
  /\ UNCHANGED << inbox, joined, counts, pc, want, batchVars, historyVars >>

Publish0 ==
  /\ pc[0] = "publish" /\ raw = << >>
  /\ Goto(0, "handle")
  /\ UNCHANGED << socketVars, raw, pending, want, batchVars, historyVars >>

-----------------------------------------------------------------------------
\* The others: _recv_msg_multi_rank1
Wait1(r) ==
  /\ pc[r] = "start" /\ Blocking(r)
  /\ sub[r] # << >>
  /\ sub' = [sub EXCEPT ![r] = Tail(@)]
  /\ AddPending(r, Head(sub[r]))
  /\ Goto(r, "count")
  /\ UNCHANGED << inbox, joined, counts, raw, want, batchVars, historyVars >>

NoWait1(r) ==
  /\ pc[r] = "start" /\ ~Blocking(r)
  /\ Goto(r, "count")
  /\ UNCHANGED << socketVars, raw, pending, want, batchVars, historyVars >>

TakeCount(r) ==
  /\ pc[r] = "count" /\ counts[r] # << >>
  /\ want' = [want EXCEPT ![r] = Head(counts[r])]
  /\ counts' = [counts EXCEPT ![r] = Tail(@)]
  /\ Goto(r, "take")
  /\ UNCHANGED << inbox, joined, sub, raw, pending, batchVars, historyVars >>

TakeMsg(r) ==
  /\ pc[r] = "take" /\ want[r] > 0 /\ sub[r] # << >>
  /\ AddPending(r, Head(sub[r]))
  /\ sub' = [sub EXCEPT ![r] = Tail(@)]
  /\ want' = [want EXCEPT ![r] = @ - 1]
  /\ UNCHANGED << inbox, joined, counts, pc, raw, batchVars, historyVars >>

TookButOne(r) ==                \* mutant: the loop ends one message early
  /\ pc[r] = "take" /\ want[r] <= 1
  /\ Goto(r, "handle")
  /\ UNCHANGED << socketVars, raw, pending, want, batchVars, historyVars >>

TookAll(r) ==
  /\ pc[r] = "take" /\ want[r] = 0
  /\ Goto(r, "handle")
  /\ UNCHANGED << socketVars, raw, pending, want, batchVars, historyVars >>

-----------------------------------------------------------------------------
\* Every rank: the rest of overlap_loop or normal_loop.  The batch is in the order
\* of a set of objects hashed by their addresses.
Handle(r) ==
  /\ pc[r] = "handle" /\ ~Contains(pending[r], Exit)
  /\ LET now == [m \in Reqs |-> IF Contains(pending[r], m) THEN Work[m] ELSE left[r][m]]
         batch == {m \in Reqs : now[m] > 0}
     IN  /\ left' = [left EXCEPT ![r] = [m \in Reqs |-> IF m \in batch THEN now[m] - 1 ELSE 0]]
         /\ launched' = [launched EXCEPT ![r] = IF batch = {} THEN @ ELSE @ + 1]
         /\ \E order \in SetToSeqs(batch) :
              ongoing' = [ongoing EXCEPT ![r] =
                            IF batch = {} THEN NoBatch
                            ELSE [number |-> launched[r] + 1, reqs |-> order]]
  /\ applied' = [applied EXCEPT ![r] = Append(@, pending[r])]
  /\ pending' = [pending EXCEPT ![r] = << >>]
  /\ Goto(r, "process")
  /\ UNCHANGED << socketVars, raw, want, last, replies, arrived, taken, log >>

\* External: a batch has run when every rank has launched it
HasRun(batch) == \A r \in Ranks : launched[r] >= batch.number

\* send_result: _reply_tokenizer_rank0 and _reply_tokenizer_rank1
Reply(r, batch) ==
  [m \in Reqs |-> replies[m] + IF r = 0 /\ Contains(batch.reqs, m) THEN 1 ELSE 0]

\* _process_last_data, of the batch before or of this one
Process(r) ==
  /\ pc[r] = "process"
  /\ LET batch == IF Overlap THEN last[r] ELSE ongoing[r]
     IN  HasRun(batch) /\ replies' = Reply(r, batch)
  /\ last' = [last EXCEPT ![r] = IF Overlap THEN ongoing[r] ELSE NoBatch]
  /\ ongoing' = [ongoing EXCEPT ![r] = NoBatch]
  /\ Goto(r, "start")
  /\ UNCHANGED << socketVars, raw, pending, want, left, launched, historyVars >>

\* ExitMsg: KeyboardInterrupt, and shutdown waits for all ranks
Interrupted(r) ==
  /\ pc[r] = "handle" /\ Contains(pending[r], Exit)
  /\ applied' = [applied EXCEPT ![r] = Append(@, pending[r])]
  /\ pending' = [pending EXCEPT ![r] = << >>]
  /\ Goto(r, "stopping")
  /\ UNCHANGED << socketVars, raw, want, batchVars, arrived, taken, log >>

Shutdown ==
  /\ \A r \in Ranks : pc[r] = "stopping"
  /\ pc' = [r \in Ranks |-> "stopped"]
  /\ UNCHANGED << socketVars, raw, pending, want, batchVars, historyVars >>

-----------------------------------------------------------------------------
Init ==
  /\ inbox = << >>
  /\ joined = {}
  /\ sub = [r \in Others |-> << >>] /\ counts = [r \in Others |-> << >>]
  /\ pc = [r \in Ranks |-> "start"] /\ raw = << >>
  /\ pending = [r \in Ranks |-> << >>] /\ want = [r \in Ranks |-> 0]
  /\ left = [r \in Ranks |-> [m \in Reqs |-> 0]]
  /\ last = [r \in Ranks |-> NoBatch] /\ ongoing = last /\ launched = [r \in Ranks |-> 0]
  /\ replies = [m \in Reqs |-> 0]
  /\ arrived = << >> /\ taken = 0 /\ log = << >>
  /\ applied = [r \in Ranks |-> << >>]

\* External: tokenizers send, and a subscription reaches rank 0
Send(m) ==
  /\ ~Contains(arrived, m) /\ ~Contains(arrived, Exit)
  /\ Late \/ joined = Others
  /\ inbox' = Append(inbox, m) /\ arrived' = Append(arrived, m)
  /\ UNCHANGED << joined, sub, counts, loopVars, batchVars, taken, log, applied >>

Join(r) ==
  /\ r \notin joined
  /\ joined' = joined \cup {r}
  /\ UNCHANGED << inbox, sub, counts, loopVars, batchVars, historyVars >>

Step0 == Wait0 \/ NoWait0 \/ Poll \/ Broadcast \/ Publish \/ Publish0
Step1(r) == Wait1(r) \/ NoWait1(r) \/ TakeCount(r) \/ TakeMsg(r) \/ TookAll(r)
Step(r) == Handle(r) \/ Process(r) \/ Interrupted(r)

Next ==
  \/ Step0 \/ Shutdown
  \/ \E r \in Others : Step1(r) \/ Join(r)
  \/ \E r \in Ranks : Step(r)
  \/ \E m \in Msgs : Send(m)

Spec == Init /\ [][Next]_vars

Fairness ==
  /\ WF_vars(Step0) /\ WF_vars(Shutdown)
  /\ \A r \in Ranks : WF_vars(Step(r))
  /\ \A r \in Others : WF_vars(Step1(r))

FairSpec == Spec /\ Fairness

-----------------------------------------------------------------------------
\* The ranks implement RankLog: whatever their relative speeds, all handle the
\* same messages in the same iteration, in the order of arrival.
Log == INSTANCE RankLog
SameIterations == Log!Spec

\* Every message taken off the socket of rank 0 is, for every other rank,
\* handled, held, on its way or about to be published, in this order.
NothingLost ==
  \A r \in Others :
    FlattenSeq(applied[r]) \o pending[r] \o sub[r] \o raw
      = SubSeq(arrived, 1, Len(arrived) - Len(inbox))

\* The detokenizer gets one reply per request and batch, whatever the number of
\* ranks.
OneReplyPerBatch == \A m \in Reqs : replies[m] <= Work[m]

\* Ranks that compute a batch together have the same requests in it.
Computing(r) == {last[r], ongoing[r]} \ {NoBatch}
SameBatches ==
  \A r, s \in Ranks : \A x \in Computing(r), y \in Computing(s) :
    x.number = y.number => ToSet(x.reqs) = ToSet(y.reqs)

\* ... and in the same rows, over which the partial results are summed.
SameRows ==
  \A r, s \in Ranks : \A x \in Computing(r), y \in Computing(s) :
    x.number = y.number => x.reqs = y.reqs

\* Whatever their speeds, the ranks work on the same messages and batches, and one
\* of them replies.
RanksTogether == NothingLost /\ SameBatches /\ OneReplyPerBatch

\* A message that arrives before the ExitMsg is handled by every rank.
EveryRankHandles ==
  \A m \in Reqs, r \in Ranks :
    Contains(arrived, m) ~> Contains(FlattenSeq(applied[r]), m)

\* When one rank has been told to exit, all of them stop.
StopTogether ==
  (\E r \in Ranks : pc[r] = "stopping") ~> (\A r \in Ranks : pc[r] = "stopped")

\* A request is computed to its end unless an ExitMsg follows.
EveryRequestComputed ==
  \A m \in Reqs :
    Contains(arrived, m) ~> (replies[m] = Work[m] \/ Contains(arrived, Exit))

\* No rank is left waiting for the others: neither with a message, nor in a batch,
\* nor at the exit.
RanksGoOn == EveryRankHandles /\ EveryRequestComputed /\ StopTogether
=============================================================================
