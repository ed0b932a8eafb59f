------------------------------ MODULE Startup ------------------------------
(***************************************************************************)
(* The processes of one server as launch_server starts them (startup.py,   *)
(* api.py, args.py): the main process opens its sockets, starts a process  *)
(* per rank, the detokenizer and the tokenizers, waits for their           *)
(* acknowledgements, and serves.  Every socket either creates its address  *)
(* (bind) or connects to it, by rules that depend on whether tokenizing is *)
(* done in the detokenizer's process.                                      *)
(***************************************************************************)
EXTENDS Naturals, FiniteSets

CONSTANTS Size,                 \* tensor-parallel size
          NumTokenizers,        \* num_tokenizer; 0: one process for both directions
          MayCrash              \* may a process end before it is ready?

ASSUME StartupAssumption ==
  Size \in Nat \ {0} /\ NumTokenizers \in Nat /\ MayCrash \in BOOLEAN

Main == << "main", 0 >>
Schedulers == {<< "scheduler", i >> : i \in 0..(Size - 1)}
Primary == << "scheduler", 0 >>
Detokenizer == << "tokenizer", NumTokenizers >>
Tokenizers == {<< "tokenizer", i >> : i \in 0..(NumTokenizers - 1)}
Workers == Tokenizers \cup {Detokenizer}
Children == Schedulers \cup Workers

VARIABLES pc,                   \* process -> "off", "started", ..., "ready", "crashed"
          bound, linked,        \* address -> the processes that created it, that connected
          acks,                 \* ack_queue: the number of messages in it
          acked                 \* the number of messages main has taken

vars == << pc, bound, linked, acks, acked >>

-----------------------------------------------------------------------------
Shared == NumTokenizers = 0
Addresses == {"frontend", "tokenizer", "detokenizer", "backend", "broadcast"}
TokenizerAddr == IF Shared THEN "detokenizer" ELSE "tokenizer"
NumAcksOfRanks == NumTokenizers + 1 + Size      \* mutant: an acknowledgement of every rank
NumAcksLess == NumTokenizers + 1                \* mutant: the detokenizer is forgotten
NumAcks == NumTokenizers + 2

\* The sockets of a process: << address, create >>
MainSockets == {<< "frontend", TRUE >>, << TokenizerAddr, ~Shared >>}

SchedulerSockets(p) ==
  IF p = Primary
  THEN {<< "backend", TRUE >>, << "detokenizer", ~Shared >>}
       \cup (IF Size > 1 THEN {<< "broadcast", TRUE >>} ELSE {})
  ELSE {<< "broadcast", FALSE >>}

WorkerSocketsCreate(p) ==       \* mutant: a tokenizer always creates its address
  {<< "backend", FALSE >>, << "frontend", FALSE >>,
   << IF p = Detokenizer THEN "detokenizer" ELSE TokenizerAddr, TRUE >>}
WorkerSockets(p) ==
  {<< "backend", FALSE >>, << "frontend", FALSE >>,
   << IF p = Detokenizer THEN "detokenizer" ELSE TokenizerAddr, Shared >>}

\* The addresses after process p has opened its sockets
Opened(map, p, sockets, create) ==
  [a \in Addresses |-> IF << a, create >> \in sockets THEN map[a] \cup {p} ELSE map[a]]

Open(p, sockets, from, to) ==
  /\ pc[p] = from
  /\ bound' = Opened(bound, p, sockets, TRUE)
  /\ linked' = Opened(linked, p, sockets, FALSE)
  /\ pc' = [pc EXCEPT ![p] = to]

-----------------------------------------------------------------------------
\* run_api_server, and start_subprocess
MainOpens == Open(Main, MainSockets, "off", "open") /\ UNCHANGED << acks, acked >>

MainStarts ==
  /\ pc[Main] = "open"
  /\ pc' = [p \in DOMAIN pc |-> IF p = Main THEN "waiting" ELSE "started"]
  /\ UNCHANGED << bound, linked, acks, acked >>

MainTakesAck ==
  /\ pc[Main] = "waiting" /\ acked < NumAcks /\ acks > 0
  /\ acks' = acks - 1 /\ acked' = acked + 1
  /\ UNCHANGED << pc, bound, linked >>

MainServes ==
  /\ pc[Main] = "waiting" /\ acked = NumAcks
  /\ pc' = [pc EXCEPT ![Main] = "serving"]
  /\ UNCHANGED << bound, linked, acks, acked >>

\* _run_scheduler: the engine, whose set-up takes all ranks, then the sockets,
\* then the barrier of sync_all_ranks, and the acknowledgement of rank 0
SchedulerJoins(p) ==
  /\ pc[p] = "started"
  /\ pc' = [pc EXCEPT ![p] = "joined"]
  /\ UNCHANGED << bound, linked, acks, acked >>

Beyond(label) == \A q \in Schedulers : pc[q] \notin {"off", "started", "crashed"} \cup label

SchedulerOpens(p) ==
  /\ Beyond({})
  /\ Open(p, SchedulerSockets(p), "joined", "barrier")
  /\ UNCHANGED << acks, acked >>

SchedulerAcks(p) ==
  /\ pc[p] = "barrier" /\ Beyond({"joined"})
  /\ pc' = [pc EXCEPT ![p] = "ready"]
  /\ acks' = IF p = Primary THEN acks + 1 ELSE acks
  /\ UNCHANGED << bound, linked, acked >>

\* A rank whose peer is gone ends by the timeout of the collective
TimesOut(p) ==
  /\ pc[p] \in {"joined", "barrier"} /\ \E q \in Schedulers : pc[q] = "crashed"
  /\ pc' = [pc EXCEPT ![p] = "crashed"]
  /\ UNCHANGED << bound, linked, acks, acked >>

\* tokenize_worker: the sockets, then the tokenizer is loaded, then the acknowledgement
WorkerOpens(p) ==
  Open(p, WorkerSockets(p), "started", "loading") /\ UNCHANGED << acks, acked >>

WorkerAcks(p) ==
  /\ pc[p] = "loading"
  /\ pc' = [pc EXCEPT ![p] = "ready"]
  /\ acks' = acks + 1
  /\ UNCHANGED << bound, linked, acked >>

\* External: no memory, no model file
Crash(p) ==
  /\ MayCrash /\ pc[p] \in {"started", "joined", "loading"}
  /\ pc' = [pc EXCEPT ![p] = "crashed"]
  /\ UNCHANGED << bound, linked, acks, acked >>

Init ==
  /\ pc = [p \in Children \cup {Main} |-> "off"]
  /\ bound = [a \in Addresses |-> {}] /\ linked = bound
  /\ acks = 0 /\ acked = 0

MainStep == MainOpens \/ MainStarts \/ MainTakesAck \/ MainServes
SchedulerStep(p) == SchedulerJoins(p) \/ SchedulerOpens(p) \/ SchedulerAcks(p) \/ TimesOut(p)
WorkerStep(p) == WorkerOpens(p) \/ WorkerAcks(p)

Next ==
  \/ MainStep
  \/ \E p \in Schedulers : SchedulerStep(p)
  \/ \E p \in Workers : WorkerStep(p)
  \/ \E p \in Children : Crash(p)

Spec == Init /\ [][Next]_vars

FairSpec ==
  /\ Spec /\ WF_vars(MainStep)
  /\ \A p \in Schedulers : WF_vars(SchedulerStep(p))
  /\ \A p \in Workers : WF_vars(WorkerStep(p))

-----------------------------------------------------------------------------
\* The server accepts requests only when every process of it is ready, whichever
\* crash before: a request is never queued for a process that never comes.
ServesOnlyWhenReady ==
  pc[Main] = "serving" =>
    \A p \in Children : pc[p] = "ready" \/ (p \in Schedulers \ {Primary} /\ pc[p] = "barrier")

\* No address is created by two processes, shared tokenizer or not ...
OneCreator == \A a \in Addresses : Cardinality(bound[a]) <= 1

\* ... and when the server accepts requests, each has its creator and its users.
EveryAddressConnected ==
  pc[Main] = "serving" => \A a \in Addresses : bound[a] = {} <=> linked[a] = {}

\* Without crashes the server comes to accept requests.
Serves == <>(pc[Main] = "serving")
=============================================================================
