------------------------------ MODULE Frontend ------------------------------
(***************************************************************************)
(* The frontend process, core/api.py: one event loop with a handler        *)
(* coroutine per request, a listener coroutine that files the replies, and *)
(* a task per aborted request.  A step is the code between two awaits.     *)
(* Serving puts the other processes behind the two queues.                 *)
(***************************************************************************)
EXTENDS Lists, FiniteSets, SequencesExt

CONSTANTS NumUsers,             \* bound: requests of a run
          MaxReplies,           \* bound: replies to one request
          Tokenizer,            \* the processes behind zmq_tokenizer_addr
          TaskCancelled         \* does the ASGI server cancel the task of a lost client

ASSUME FrontendAssumption ==
  /\ NumUsers \in Nat /\ MaxReplies \in Nat
  /\ Tokenizer # {} /\ TaskCancelled \in BOOLEAN

User == 0..(NumUsers - 1)

VARIABLES uid_counter, ack_map, event_map, initialized,   \* FrontendManager
          task,                 \* uid -> where its handler is suspended
          held,                 \* uid -> the rest of wait_for_ack's pending
          aborting,             \* uid -> where its abort_user task is
          connected,            \* the uids whose client is still there
          got,                  \* uid -> the replies streamed to the client (history)
          to_tokenizer,         \* tokenizer -> messages of send_tokenizer
          inbox,                \* batches of replies waiting in recv_tokenizer
          issued                \* uid -> the replies the backend has made (history)

manager == << uid_counter, ack_map, event_map, initialized >>
tasks == << task, held, aborting >>
world == << connected, got >>
links == << to_tokenizer, inbox, issued >>
frontend == << manager, tasks, world, links >>

Message == [kind : {"tokenize", "abort"}, uid : User]
Reply == [uid : User, n : 1..MaxReplies, finished : BOOLEAN]

Of(batch, u) == Within(batch, {r \in Reply : r.uid = u})

Init ==
  /\ uid_counter = 0 /\ initialized = FALSE
  /\ ack_map = << >> /\ event_map = << >>
  /\ task = [u \in User |-> "none"]
  /\ held = [u \in User |-> << >>]
  /\ aborting = [u \in User |-> "no"]
  /\ connected = User
  /\ got = [u \in User |-> << >>]
  /\ to_tokenizer = [t \in Tokenizer |-> << >>]
  /\ inbox = << >>
  /\ issued = [u \in User |-> << >>]

-----------------------------------------------------------------------------

\* A POST: new_user, then send_one up to the await of put
NewUser ==
  /\ uid_counter \in User
  /\ ack_map' = [u \in DOMAIN ack_map \cup {uid_counter} |->
                   IF u = uid_counter THEN << >> ELSE ack_map[u]]
  /\ event_map' = [u \in DOMAIN event_map \cup {uid_counter} |->
                     u # uid_counter /\ event_map[u]]
  /\ uid_counter' = uid_counter + 1
  /\ initialized' = TRUE
  /\ task' = [task EXCEPT ![uid_counter] = "sending"]
  /\ UNCHANGED << held, aborting, world, links >>

\* The socket takes the message; PUSH picks one of the connected tokenizers
Put(message) ==
  \E t \in Tokenizer : to_tokenizer' = [to_tokenizer EXCEPT ![t] = Append(@, message)]

SendRequest(u) ==
  /\ task[u] = "sending"
  /\ Put([kind |-> "tokenize", uid |-> u])
  /\ task' = [task EXCEPT ![u] = "starting"]
  /\ UNCHANGED << manager, held, aborting, world, inbox, issued >>

\* The response begins to iterate stream_with_cancellation
StartStream(u) ==
  /\ task[u] = "starting"
  /\ task' = [task EXCEPT ![u] = "waiting"]
  /\ UNCHANGED << manager, held, aborting, world, links >>

\* wait_for_ack after event.wait(): clear the event, take the list
Wake(u) ==
  /\ task[u] = "waiting" /\ event_map[u]
  /\ event_map' = [event_map EXCEPT ![u] = FALSE]
  /\ held' = [held EXCEPT ![u] = ack_map[u]]
  /\ ack_map' = [ack_map EXCEPT ![u] = << >>]
  /\ task' = [task EXCEPT ![u] = IF ack_map[u] = << >> THEN "waiting" ELSE "delivering"]
  /\ UNCHANGED << uid_counter, initialized, aborting, world, links >>

NextStopIgnoringEnd(u) ==       \* mutant: no break at ack.finished
  IF Tail(held[u]) = << >> THEN "waiting" ELSE "delivering"

\* Where the stream is suspended after the reply at the head of held
NextStop(u) ==
  CASE Head(held[u]).finished -> "ending"
    [] Tail(held[u]) = << >> /\ ~Head(held[u]).finished -> "waiting"
    [] OTHER -> "delivering"

ClearAfterwards(u) ==           \* mutant: the event is cleared after the loop
  /\ task[u] = "delivering" /\ u \in connected
  /\ task' = [task EXCEPT ![u] = NextStop(u)]
  /\ event_map' = [event_map EXCEPT ![u] = @ /\ NextStop(u) # "waiting"]
  /\ got' = [got EXCEPT ![u] = Append(@, Head(held[u]))]
  /\ held' = [held EXCEPT ![u] = IF NextStop(u) = "ending" THEN << >> ELSE Tail(@)]
  /\ UNCHANGED << uid_counter, ack_map, initialized, aborting, connected, links >>

\* One reply passes stream_generate and the test of is_disconnected.  At the
\* final one the loop is left: what is behind it in pending is dropped, and so
\* are the two del statements of wait_for_ack.
Deliver(u) ==
  /\ task[u] = "delivering" /\ u \in connected
  /\ got' = [got EXCEPT ![u] = Append(@, Head(held[u]))]
  /\ task' = [task EXCEPT ![u] = NextStop(u)]
  /\ held' = [held EXCEPT ![u] = IF NextStop(u) = "ending" THEN << >> ELSE Tail(@)]
  /\ UNCHANGED << manager, aborting, connected, links >>

\* The closing chunk
EndStream(u) ==
  /\ task[u] = "ending" /\ u \in connected
  /\ task' = [task EXCEPT ![u] = "done"]
  /\ UNCHANGED << manager, held, aborting, world, links >>

\* The except branch of stream_with_cancellation
Cancelled(u) ==
  /\ task' = [task EXCEPT ![u] = "cancelled"]
  /\ held' = [held EXCEPT ![u] = << >>]
  /\ aborting' = [aborting EXCEPT ![u] = "sleeping"]
  /\ UNCHANGED << manager, world, links >>

\* is_disconnected is true when a chunk is ready
NoticeDisconnect(u) ==
  /\ task[u] \in {"delivering", "ending"} /\ u \notin connected
  /\ Cancelled(u)

\* External: the server cancels the task of a lost client while it waits for a reply ...
CancelWaiting(u) ==
  /\ TaskCancelled
  /\ task[u] = "waiting" /\ u \notin connected
  /\ Cancelled(u)

\* ... or while the response sends a chunk: the generator it leaves is closed with
\* GeneratorExit, which the except clause does not catch ...
CancelSending(u) ==
  /\ TaskCancelled
  /\ task[u] \in {"waiting", "delivering", "ending"} /\ got[u] # << >> /\ u \notin connected
  /\ task' = [task EXCEPT ![u] = "lost"]
  /\ held' = [held EXCEPT ![u] = << >>]
  /\ UNCHANGED << manager, aborting, world, links >>

\* ... or before its stream has begun, where nothing catches the exception
CancelStarting(u) ==
  /\ TaskCancelled
  /\ task[u] = "starting" /\ u \notin connected
  /\ task' = [task EXCEPT ![u] = "lost"]
  /\ UNCHANGED << manager, held, aborting, world, links >>

AbortKeepsEvent(u) ==           \* mutant: event_map keeps the entry
  /\ aborting[u] = "sleeping"
  /\ ack_map' = Restrict(ack_map, DOMAIN ack_map \ {u})
  /\ aborting' = [aborting EXCEPT ![u] = "sending"]
  /\ UNCHANGED << uid_counter, event_map, initialized, task, held, world, links >>

\* abort_user after its sleep, up to the await of put
AbortUser(u) ==
  /\ aborting[u] = "sleeping"
  /\ ack_map' = Restrict(ack_map, DOMAIN ack_map \ {u})
  /\ event_map' = Restrict(event_map, DOMAIN event_map \ {u})
  /\ aborting' = [aborting EXCEPT ![u] = "sending"]
  /\ UNCHANGED << uid_counter, initialized, task, held, world, links >>

SendAbort(u) ==
  /\ aborting[u] = "sending"
  /\ Put([kind |-> "abort", uid |-> u])
  /\ aborting' = [aborting EXCEPT ![u] = "sent"]
  /\ UNCHANGED << manager, task, held, world, inbox, issued >>

FiledLast(u) ==                 \* mutant: a reply replaces the one before it
  IF Of(Head(inbox), u) = << >> THEN ack_map[u] ELSE Of(Head(inbox), u)

\* What listen makes of the list of u, without an await inside a batch
Filed(u) == ack_map[u] \o Of(Head(inbox), u)

Listen ==
  /\ initialized /\ inbox # << >>
  /\ ack_map' = [u \in DOMAIN ack_map |-> Filed(u)]
  /\ event_map' = [u \in DOMAIN event_map |->
                     event_map[u] \/ (u \in DOMAIN ack_map /\ Of(Head(inbox), u) # << >>)]
  /\ inbox' = Tail(inbox)
  /\ UNCHANGED << uid_counter, initialized, tasks, world, to_tokenizer, issued >>

-----------------------------------------------------------------------------
\* External: a client goes away while its request is open
Disconnect(u) ==
  /\ u \in connected
  /\ task[u] \in {"sending", "starting", "waiting", "delivering", "ending"}
  /\ connected' = connected \ {u}
  /\ UNCHANGED << manager, tasks, got, links >>

\* The steps of the event loop
UserStep(u) ==
  \/ SendRequest(u) \/ StartStream(u) \/ Wake(u) \/ Deliver(u) \/ EndStream(u)
  \/ NoticeDisconnect(u) \/ CancelWaiting(u) \/ CancelSending(u) \/ CancelStarting(u)
  \/ AbortUser(u) \/ SendAbort(u)

Client == NewUser \/ \E u \in User : Disconnect(u)

-----------------------------------------------------------------------------
Stop == {"none", "sending", "starting", "waiting", "delivering", "ending", "done",
         "cancelled", "lost"}

Streaming(u) == task[u] \in {"sending", "starting", "waiting", "delivering"}

\* No KeyError: the two maps have the same uids, so the listener that found a
\* uid in ack_map finds its event; and a coroutine that will read its entry
\* still has one, whatever abort_user tasks run in between.
MapsTogether ==
  /\ DOMAIN ack_map = DOMAIN event_map
  /\ \A u \in User : Streaming(u) => u \in DOMAIN ack_map

\* Replies that wait in the queue for u, batch after batch
Queued(u) == Of(FlattenSeq(inbox), u)

\* A request is aborted only after its client has gone: no order of the tasks
\* lets abort_user remove or abort the request of a client that still waits.
OnlyLostAborted ==
  \A u \in connected :
    /\ aborting[u] = "no"
    /\ \A t \in Tokenizer : \A i \in DOMAIN to_tokenizer[t] :
         to_tokenizer[t][i] # [kind |-> "abort", uid |-> u]

\* A cancellation takes nothing from anybody who still uses it.
CancelsCleanly == MapsTogether /\ OnlyLostAborted
=============================================================================
