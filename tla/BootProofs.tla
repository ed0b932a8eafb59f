------------------------------ MODULE BootProofs ------------------------------
(***************************************************************************)
(* Proofs about the start of a server, for any number of ranks and         *)
(* tokenizers.  About Startup: no address gets two creators, and the       *)
(* server serves only when every process is behind its set-up.  About      *)
(* EngineSetup: for any memories and any disturbances the ranks decide the *)
(* same number of pages, and raise only together.  About Cluster: whenever *)
(* its children get ready, slow or end, a Ctrl+C caught while serving      *)
(* reaches every one of them.                                              *)
(***************************************************************************)
EXTENDS Startup, EngineSetup, Cluster, FiniteSetTheorems, SequenceTheorems, TLAPS

-----------------------------------------------------------------------------
(* The processes and their acknowledgements *)

Labels == {"off", "open", "waiting", "serving", "started", "joined", "barrier", "loading",
           "ready", "crashed"}

Processes == Children \cup {Main}

TypeOK ==
  /\ pc \in [Processes -> Labels]
  /\ bound \in [Addresses -> SUBSET Processes]
  /\ acks \in Nat /\ acked \in Nat

-----------------------------------------------------------------------------
(* Addresses. *)

Sockets(p) ==
  IF p = Main THEN MainSockets ELSE IF p \in Schedulers THEN SchedulerSockets(p) ELSE WorkerSockets(p)

\* Whoever has created an address is one of those that do
Creators == \A a \in Addresses : \A p \in bound[a] : << a, TRUE >> \in Sockets(p)

LEMMA ProcessesDiffer ==
  /\ Main \notin Children
  /\ Schedulers \cap Workers = {}
  /\ Primary \in Schedulers /\ Detokenizer \in Workers
  /\ Shared => Workers = {Detokenizer}
BY StartupAssumption DEF Main, Children, Schedulers, Workers, Tokenizers, Primary, Detokenizer, Shared

LEMMA MainCreates ==
  ASSUME NEW a, << a, TRUE >> \in MainSockets
  PROVE  a = "frontend" \/ (a = "tokenizer" /\ ~Shared)
BY DEF MainSockets, TokenizerAddr

LEMMA SchedulerCreates ==
  ASSUME NEW p, NEW a, << a, TRUE >> \in SchedulerSockets(p)
  PROVE  p = Primary /\ (a \in {"backend", "broadcast"} \/ (a = "detokenizer" /\ ~Shared))
BY DEF SchedulerSockets

LEMMA WorkerCreates ==
  ASSUME NEW p, NEW a, << a, TRUE >> \in WorkerSockets(p)
  PROVE  a = "detokenizer" /\ Shared
BY DEF WorkerSockets, TokenizerAddr

LEMMA CreatorUnique ==
  ASSUME NEW a, NEW p \in Processes, NEW q \in Processes,
         << a, TRUE >> \in Sockets(p), << a, TRUE >> \in Sockets(q)
  PROVE  p = q
<1>1. \A r \in Processes : << a, TRUE >> \in Sockets(r) =>
        \/ r = Main /\ (a = "frontend" \/ (a = "tokenizer" /\ ~Shared))
        \/ r = Primary /\ (a \in {"backend", "broadcast"} \/ (a = "detokenizer" /\ ~Shared))
        \/ r = Detokenizer /\ a = "detokenizer" /\ Shared
  <2> SUFFICES ASSUME NEW r \in Processes, << a, TRUE >> \in Sockets(r)
               PROVE  \/ r = Main /\ (a = "frontend" \/ (a = "tokenizer" /\ ~Shared))
                      \/ r = Primary /\ (a \in {"backend", "broadcast"}
                                           \/ (a = "detokenizer" /\ ~Shared))
                      \/ r = Detokenizer /\ a = "detokenizer" /\ Shared
    OBVIOUS
  <2>1. CASE r = Main
    BY <2>1, MainCreates DEF Sockets
  <2>2. CASE r # Main /\ r \in Schedulers
    BY <2>2, SchedulerCreates DEF Sockets
  <2>3. CASE r # Main /\ r \notin Schedulers
    <3>1. a = "detokenizer" /\ Shared
      BY <2>3, WorkerCreates DEF Sockets
    <3>2. r \in Workers
      BY <2>3 DEF Processes, Children
    <3> QED
      BY <3>1, <3>2, ProcessesDiffer
  <2> QED
    BY <2>1, <2>2, <2>3
<1> QED
  BY <1>1

LEMMA OpenStep ==
  ASSUME TypeOK, Creators, NEW p \in Processes, NEW from, NEW to \in Labels,
         Open(p, Sockets(p), from, to), UNCHANGED << acks, acked >>
  PROVE  TypeOK' /\ Creators'
<1>1. bound' = [a \in Addresses |-> IF << a, TRUE >> \in Sockets(p) THEN bound[a] \cup {p}
                                    ELSE bound[a]]
  BY DEF Open, Opened
<1>2. TypeOK'
  BY <1>1 DEF TypeOK, Open
<1>3. Creators'
  BY <1>1 DEF Creators, TypeOK
<1> QED
  BY <1>2, <1>3

-----------------------------------------------------------------------------
(* Acknowledgements. *)

Ackers == Workers \cup {Primary}
Acked == {p \in Ackers : pc[p] = "ready"}

\* Every acknowledgement sent is in the queue or taken
Counted == acks + acked = Cardinality(Acked)

\* Rank 0 is ready only behind the barrier, which all ranks have reached
Together == pc[Primary] = "ready" => \A q \in Schedulers : pc[q] \in {"barrier", "ready"}

\* The places of the processes before and after the main process starts them
Phases ==
  /\ pc[Main] \in {"off", "open", "waiting", "serving"}
  /\ pc[Main] \in {"off", "open"} => \A p \in Children : pc[p] = "off"
  /\ \A p \in Schedulers : pc[p] \in {"off", "started", "joined", "barrier", "ready", "crashed"}
  /\ pc[Main] = "serving" => acked = NumAcks

IInv == TypeOK /\ Creators /\ Counted /\ Together /\ Phases

LEMMA AckersAreProcesses == Ackers \subseteq Children /\ Ackers \subseteq Processes
BY ProcessesDiffer DEF Ackers, Processes, Children

\* What TypeOK and Creators say carries over a step that only moves a process and
\* counts: bound is as it was.
LEMMA BoundStays ==
  ASSUME TypeOK, Creators, NEW p \in Processes, NEW to \in Labels,
         pc' = [pc EXCEPT ![p] = to], bound' = bound, acks' \in Nat, acked' \in Nat
  PROVE  TypeOK' /\ Creators'
<1>1. pc' \in [Processes -> Labels]
  BY DEF TypeOK
<1>2. TypeOK'
  BY <1>1 DEF TypeOK
<1>3. Creators'
  BY Zenon DEF Creators
<1> QED
  BY <1>2, <1>3

LEMMA AckersCount == IsFiniteSet(Ackers) /\ Cardinality(Ackers) = NumAcks
<1> DEFINE S == 0..NumTokenizers
           f == [i \in S |-> << "tokenizer", i >>]
<1>1. NumTokenizers \in Nat
  BY StartupAssumption
<1>2. IsFiniteSet(S) /\ Cardinality(S) = NumTokenizers + 1
  BY <1>1, FS_Interval
<1>3. Workers = {<< "tokenizer", i >> : i \in S}
  BY <1>1 DEF Workers, Tokenizers, Detokenizer
<1>4. f \in Surjection(S, Workers) /\ f \in Injection(S, Workers)
  BY <1>3 DEF Surjection, Injection, IsInjective
<1>5. IsFiniteSet(Workers) /\ Cardinality(Workers) = NumTokenizers + 1
  BY <1>2, <1>4, FS_Surjection
<1>6. Primary \notin Workers
  BY ProcessesDiffer
<1>7. /\ IsFiniteSet(Workers \cup {Primary})
      /\ Cardinality(Workers \cup {Primary}) = Cardinality(Workers) + 1
  BY <1>5, <1>6, FS_AddElement
<1> QED
  BY <1>1, <1>5, <1>7 DEF Ackers, NumAcks

\* A process that gets ready is counted once more.
LEMMA OneMoreAcked ==
  ASSUME TypeOK, NEW p \in Ackers, pc[p] # "ready", pc' = [pc EXCEPT ![p] = "ready"]
  PROVE  Cardinality(Acked') = Cardinality(Acked) + 1
<1>1. IsFiniteSet(Acked)
  BY AckersCount, FS_Subset DEF Acked
<1>2. \A q \in Ackers : pc'[q] = IF q = p THEN "ready" ELSE pc[q]
  BY AckersAreProcesses DEF TypeOK
<1>3. p \notin Acked /\ Acked' = Acked \cup {p}
  BY <1>2 DEF Acked
<1> QED
  BY <1>1, <1>3, FS_AddElement

\* A process that goes elsewhere, and was not ready, changes nothing.
LEMMA SameAcked ==
  ASSUME TypeOK, NEW p \in Processes, NEW to \in Labels, pc' = [pc EXCEPT ![p] = to],
         p \in Ackers => pc[p] # "ready" /\ to # "ready"
  PROVE  Acked' = Acked
<1>1. \A q \in Ackers : pc'[q] = IF q = p THEN to ELSE pc[q]
  BY AckersAreProcesses DEF TypeOK
<1> QED
  BY <1>1 DEF Acked

-----------------------------------------------------------------------------
\* A process moves on without an acknowledgement.
LEMMA MoveStep ==
  ASSUME IInv, TypeOK', Creators', NEW p \in Processes, NEW to \in Labels,
         pc' = [pc EXCEPT ![p] = to],
         UNCHANGED << acks, acked >>,
         p \in Ackers => pc[p] # "ready" /\ to # "ready",
         p \in Schedulers => /\ to \in {"joined", "barrier", "ready", "crashed"}
                             /\ to \notin {"barrier", "ready"} => pc[Primary] # "ready",
         p \in Children => pc[p] # "off",
         p = Main => pc[p] = "off" /\ to = "open"
  PROVE  IInv'
<1>1. Acked' = Acked
  BY SameAcked DEF IInv
<1>2. Counted'
  BY <1>1 DEF IInv, Counted
<1>3. \A q \in Processes : pc'[q] = IF q = p THEN to ELSE pc[q]
  BY DEF IInv, TypeOK
<1>4. /\ Main \in Processes /\ Main \notin Children /\ Primary \in Schedulers
      /\ Schedulers \subseteq Children /\ Children \subseteq Processes /\ Primary \in Ackers
  BY ProcessesDiffer DEF Processes, Children, Ackers
<1>5. Together'
  BY <1>3, <1>4 DEF IInv, Together
<1>6. Phases'
  BY <1>3, <1>4 DEF IInv, Phases
<1> QED
  BY <1>2, <1>5, <1>6 DEF IInv

\* A tokenizer, or rank 0, acknowledges.
LEMMA AckStep ==
  ASSUME IInv, NEW p \in Ackers, pc[p] \notin {"ready", "off"}, pc' = [pc EXCEPT ![p] = "ready"],
         acks' = acks + 1, UNCHANGED << bound, acked >>,
         p = Primary => \A q \in Schedulers : pc[q] \in {"barrier", "ready"}
  PROVE  IInv'
<1>1. /\ Main \in Processes /\ Main \notin Children /\ Primary \in Schedulers
      /\ Schedulers \subseteq Children /\ Children \subseteq Processes /\ Primary \in Ackers
      /\ Ackers \subseteq Children
  BY ProcessesDiffer DEF Processes, Children, Ackers
<1>2. TypeOK' /\ Creators'
  <2>1. acks' \in Nat /\ acked' \in Nat
    BY DEF IInv, TypeOK
  <2> QED
    BY <1>1, <2>1, BoundStays DEF IInv, Labels
<1>3. Cardinality(Acked') = Cardinality(Acked) + 1
  BY OneMoreAcked DEF IInv
<1>4. Counted'
  BY <1>3 DEF IInv, Counted, TypeOK
<1>5. \A q \in Processes : pc'[q] = IF q = p THEN "ready" ELSE pc[q]
  BY DEF IInv, TypeOK
<1>6. Together'
  BY <1>1, <1>5 DEF IInv, Together
<1>7. Phases'
  BY <1>1, <1>5 DEF IInv, Phases
<1> QED
  BY <1>2, <1>4, <1>6, <1>7 DEF IInv

LEMMA MainTurn ==
  ASSUME IInv, MainStep
  PROVE  IInv'
<1>0. /\ Main \in Processes /\ Main \notin Children /\ Primary \in Schedulers
      /\ Schedulers \subseteq Children /\ Children \subseteq Processes /\ Primary \in Ackers
      /\ Ackers \subseteq Children
  BY ProcessesDiffer DEF Processes, Children, Ackers
<1>1. CASE MainOpens
  <2>1. TypeOK' /\ Creators'
    <3>1. Open(Main, Sockets(Main), "off", "open") /\ UNCHANGED << acks, acked >>
      BY <1>1 DEF MainOpens, Sockets
    <3> QED
      BY <1>0, <3>1, OpenStep DEF IInv, Labels
  <2>2. pc[Main] = "off" /\ pc' = [pc EXCEPT ![Main] = "open"] /\ UNCHANGED << acks, acked >>
    BY <1>1 DEF MainOpens, Open
  <2> QED
    BY <1>0, <2>1, <2>2, MoveStep DEF Labels
<1>2. CASE MainStarts
  <2>1. /\ pc[Main] = "open" /\ UNCHANGED << bound, acks, acked >>
        /\ pc' = [p \in DOMAIN pc |-> IF p = Main THEN "waiting" ELSE "started"]
    BY <1>2 DEF MainStarts
  <2>2. \A p \in Processes : pc'[p] = IF p = Main THEN "waiting" ELSE "started"
    BY <2>1 DEF IInv, TypeOK
  <2>3. \A p \in Children : pc[p] = "off"
    BY <2>1 DEF IInv, Phases
  <2>4. Acked' = Acked
    BY <1>0, <2>2, <2>3 DEF Acked
  <2>5. TypeOK' /\ Creators'
    BY <2>1 DEF IInv, TypeOK, Creators, Labels
  <2> QED
    BY <1>0, <2>1, <2>2, <2>4, <2>5 DEF IInv, Counted, Together, Phases
<1>3. CASE MainTakesAck
  <2>1. /\ pc[Main] = "waiting" /\ acks > 0 /\ acks' = acks - 1 /\ acked' = acked + 1
        /\ UNCHANGED << pc, bound >>
    BY <1>3 DEF MainTakesAck
  <2>2. TypeOK' /\ Creators'
    <3>1. acks' \in Nat /\ acked' \in Nat
      BY <2>1 DEF IInv, TypeOK
    <3>2. TypeOK'
      BY <2>1, <3>1 DEF IInv, TypeOK
    <3>3. Creators'
      BY <2>1, Zenon DEF IInv, Creators
    <3> QED
      BY <3>2, <3>3
  <2>3. Acked' = Acked
    BY <2>1 DEF Acked
  <2>4. Counted'
    BY <2>1, <2>3 DEF IInv, Counted, TypeOK
  <2> QED
    BY <2>1, <2>2, <2>4 DEF IInv, Together, Phases
<1>4. CASE MainServes
  <2>1. /\ pc[Main] = "waiting" /\ acked = NumAcks /\ pc' = [pc EXCEPT ![Main] = "serving"]
        /\ UNCHANGED << bound, acks, acked >>
    BY <1>4 DEF MainServes
  <2>2. TypeOK' /\ Creators'
    BY <2>1 DEF IInv, TypeOK, Creators, Labels
  <2>3. \A p \in Processes : pc'[p] = IF p = Main THEN "serving" ELSE pc[p]
    BY <2>1 DEF IInv, TypeOK
  <2>4. Acked' = Acked
    BY <1>0, <2>3 DEF Acked
  <2> QED
    BY <1>0, <2>1, <2>2, <2>3, <2>4 DEF IInv, Counted, Together, Phases
<1> QED
  BY <1>1, <1>2, <1>3, <1>4 DEF MainStep

LEMMA SchedulerTurn ==
  ASSUME IInv, NEW p \in Schedulers, SchedulerStep(p)
  PROVE  IInv'
<1>0. /\ Main \notin Children /\ Primary \in Schedulers /\ Schedulers \subseteq Children
      /\ Children \subseteq Processes /\ Schedulers \cap Workers = {}
      /\ (p \in Ackers <=> p = Primary) /\ Primary \in Ackers
  BY ProcessesDiffer DEF Processes, Children, Ackers
<1>1. CASE SchedulerJoins(p)
  <2>1. /\ pc[p] = "started" /\ pc' = [pc EXCEPT ![p] = "joined"]
        /\ UNCHANGED << bound, acks, acked >>
    BY <1>1 DEF SchedulerJoins
  <2>2. TypeOK' /\ Creators'
    BY <2>1 DEF IInv, TypeOK, Creators, Labels
  <2>3. pc[Primary] # "ready"
    BY <2>1 DEF IInv, Together
  <2> QED
    BY <1>0, <2>1, <2>2, <2>3, MoveStep DEF Labels
<1>2. CASE SchedulerOpens(p)
  <2>1. Open(p, Sockets(p), "joined", "barrier") /\ UNCHANGED << acks, acked >>
    BY <1>0, <1>2 DEF SchedulerOpens, Sockets
  <2>2. TypeOK' /\ Creators'
    BY <1>0, <2>1, OpenStep DEF IInv, Labels
  <2>3. pc[p] = "joined" /\ pc' = [pc EXCEPT ![p] = "barrier"]
    BY <2>1 DEF Open
  <2> QED
    BY <1>0, <2>1, <2>2, <2>3, MoveStep DEF Labels
<1>3. CASE SchedulerAcks(p)
  <2>1. /\ pc[p] = "barrier" /\ pc' = [pc EXCEPT ![p] = "ready"]
        /\ acks' = IF p = Primary THEN acks + 1 ELSE acks
        /\ UNCHANGED << bound, acked >>
        /\ \A q \in Schedulers : pc[q] \in {"barrier", "ready"}
    BY <1>3 DEF SchedulerAcks, Beyond, IInv, Phases
  <2>2. CASE p = Primary
    BY <1>0, <2>1, <2>2, AckStep
  <2>3. CASE p # Primary
    <3>1. TypeOK' /\ Creators'
      BY <2>1, <2>3 DEF IInv, TypeOK, Creators, Labels
    <3> QED
      BY <1>0, <2>1, <2>3, <3>1, MoveStep DEF Labels
  <2> QED
    BY <2>2, <2>3
<1>4. CASE TimesOut(p)
  <2>1. /\ pc[p] \in {"joined", "barrier"} /\ pc' = [pc EXCEPT ![p] = "crashed"]
        /\ \E q \in Schedulers : pc[q] = "crashed"
        /\ UNCHANGED << bound, acks, acked >>
    BY <1>4 DEF TimesOut
  <2>2. TypeOK' /\ Creators'
    BY <2>1 DEF IInv, TypeOK, Creators, Labels
  <2>3. pc[Primary] # "ready"
    BY <2>1 DEF IInv, Together
  <2> QED
    BY <1>0, <2>1, <2>2, <2>3, MoveStep DEF Labels
<1> QED
  BY <1>1, <1>2, <1>3, <1>4 DEF SchedulerStep

LEMMA WorkerTurn ==
  ASSUME IInv, NEW p \in Workers, WorkerStep(p)
  PROVE  IInv'
<1>0. /\ Main \notin Children /\ Primary \in Schedulers /\ p \notin Schedulers
      /\ p \in Children /\ p \in Processes /\ p \in Ackers /\ p # Main
  BY ProcessesDiffer DEF Processes, Children, Ackers
<1>1. CASE WorkerOpens(p)
  <2>1. Open(p, Sockets(p), "started", "loading") /\ UNCHANGED << acks, acked >>
    BY <1>0, <1>1 DEF WorkerOpens, Sockets
  <2>2. TypeOK' /\ Creators'
    BY <1>0, <2>1, OpenStep DEF IInv, Labels
  <2>3. pc[p] = "started" /\ pc' = [pc EXCEPT ![p] = "loading"]
    BY <2>1 DEF Open
  <2> QED
    BY <1>0, <2>1, <2>2, <2>3, MoveStep DEF Labels
<1>2. CASE WorkerAcks(p)
  BY <1>0, <1>2, AckStep DEF WorkerAcks
<1> QED
  BY <1>1, <1>2 DEF WorkerStep

LEMMA CrashTurn ==
  ASSUME IInv, NEW p \in Children, Crash(p)
  PROVE  IInv'
<1>0. Main \notin Children /\ p # Main /\ p \in Processes /\ Schedulers \subseteq Children
  BY ProcessesDiffer DEF Processes, Children
<1>1. /\ pc[p] \in {"started", "joined", "loading"} /\ pc' = [pc EXCEPT ![p] = "crashed"]
      /\ UNCHANGED << bound, acks, acked >>
  BY DEF Crash
<1>2. TypeOK' /\ Creators'
  BY <1>1 DEF IInv, TypeOK, Creators, Labels
<1>3. p \in Schedulers => pc[Primary] # "ready"
  BY <1>1 DEF IInv, Together
<1> QED
  BY <1>0, <1>1, <1>2, <1>3, MoveStep DEF Labels

LEMMA Invariance == Spec => []IInv
<1>1. Init => IInv
  <2> SUFFICES ASSUME Init PROVE IInv
    OBVIOUS
  <2>1. TypeOK /\ Creators
    BY DEF Init, TypeOK, Creators, Processes, Labels
  <2>2. Acked = {} /\ acks = 0 /\ acked = 0
    <3>1. \A q \in Ackers : pc[q] = "off"
      BY AckersAreProcesses DEF Init, Processes
    <3> QED
      BY <3>1 DEF Init, Acked
  <2>3. Counted
    BY <2>2, FS_EmptySet DEF Counted
  <2>4. Together /\ Phases
    BY ProcessesDiffer DEF Init, Together, Phases, Children
  <2> QED
    BY <2>1, <2>3, <2>4 DEF IInv
<1>2. IInv /\ [Next]_vars => IInv'
  <2> SUFFICES ASSUME IInv, [Next]_vars PROVE IInv'
    OBVIOUS
  <2>1. CASE UNCHANGED vars
    <3>1. Acked' = Acked
      BY <2>1 DEF Acked, vars
    <3> QED
      BY <2>1, <3>1 DEF IInv, TypeOK, Creators, Counted, Together, Phases, vars
  <2> QED
    BY <2>1, MainTurn, SchedulerTurn, WorkerTurn, CrashTurn DEF Next
<1> QED
  BY <1>1, <1>2, PTL DEF Spec

-----------------------------------------------------------------------------
\* No address is created by two processes, for any number of ranks and tokenizers
\* (the properties zmq_*_addr and *_create of the arguments).
THEOREM NoAddressTwice == Spec => []OneCreator
<1>1. IInv => OneCreator
  <2> SUFFICES ASSUME IInv, NEW a \in Addresses PROVE Cardinality(bound[a]) <= 1
    BY DEF OneCreator
  <2>1. \A p, q \in bound[a] : p = q
    BY CreatorUnique DEF IInv, TypeOK, Creators
  <2>2. CASE bound[a] = {}
    BY <2>2, FS_EmptySet
  <2>3. CASE bound[a] # {}
    <3>1. PICK p : bound[a] = {p}
      BY <2>1, <2>3
    <3> QED
      BY <3>1, FS_Singleton
  <2> QED
    BY <2>2, <2>3
<1> QED
  BY <1>1, Invariance, PTL

\* The server accepts requests only when all tokenizers have acknowledged and all
\* ranks are through the set-up, whatever crashes (launch_server, run_api_server).
THEOREM OnlyWhenReady == Spec => []ServesOnlyWhenReady
<1>1. IInv => ServesOnlyWhenReady
  <2> SUFFICES ASSUME IInv, pc[Main] = "serving", NEW p \in Children
               PROVE  pc[p] = "ready" \/ (p \in Schedulers \ {Primary} /\ pc[p] = "barrier")
    BY DEF ServesOnlyWhenReady
  <2>1. Cardinality(Acked) >= Cardinality(Ackers)
    BY AckersCount, StartupAssumption DEF IInv, Counted, Phases, TypeOK, NumAcks
  <2>2. /\ IsFiniteSet(Acked) /\ Cardinality(Acked) <= Cardinality(Ackers)
        /\ Cardinality(Ackers) = Cardinality(Acked) => Ackers = Acked
    BY AckersCount, FS_Subset DEF Acked
  <2>3. Acked = Ackers
    BY <2>1, <2>2, AckersCount, FS_CardinalityType
  <2>4. \A q \in Ackers : pc[q] = "ready"
    BY <2>3 DEF Acked
  <2>5. \A q \in Schedulers : pc[q] \in {"barrier", "ready"}
    BY <2>4 DEF IInv, Together, Ackers
  <2> QED
    BY <2>4, <2>5 DEF Children, Ackers
<1> QED
  BY <1>1, Invariance, PTL

-----------------------------------------------------------------------------
(* The memory the ranks measure: what a rank decides depends on completed  *)
(* all-reduces alone, and a completed all-reduce never changes.            *)

EngineLabels == {"init", "first", "loaded", "second", "pages", "allocated", "third", "ready",
           "raised", "out of memory"}

\* The outcome of the k-th all-reduce, which is the same for every rank
Unequal(k) == MaxFree(k) - MinFree(k) > 2 * Giga

\* The pages every rank decides on, once two all-reduces are complete
Common == Pages(MaxFree(1), MaxFree(2))

Shape ==
  /\ DOMAIN given = Ranks /\ given = [r \in Ranks |-> given[r]]
  /\ \A r \in Ranks : \E S : given[r] \in Seq(S)
  /\ place \in [Ranks -> EngineLabels]
  /\ init_free_memory = [r \in Ranks |-> init_free_memory[r]]
  /\ num_pages = [r \in Ranks |-> num_pages[r]]

\* How many all-reduces a rank has given to, by its place in __init__
Lengths ==
  \A r \in Ranks :
    /\ Len(given[r]) \in 0..3
    /\ place[r] = "init" => Len(given[r]) = 0
    /\ place[r] \in {"first", "loaded"} => Len(given[r]) = 1
    /\ place[r] \in {"second", "pages", "allocated"} => Len(given[r]) = 2
    /\ place[r] \in {"third", "ready"} => Len(given[r]) = 3

\* What was completed, and found, before a rank got where it is
Gates ==
  \A r \in Ranks :
    /\ Len(given[r]) >= 2 \/ place[r] = "loaded" => Reduced(1) /\ ~Unequal(1)
    /\ place[r] \in {"loaded", "second"} => init_free_memory[r] = MaxFree(1)
    /\ Len(given[r]) >= 3 \/ place[r] \in {"pages", "allocated"} =>
         Reduced(2) /\ ~Unequal(2) /\ Common > 1
    /\ place[r] = "ready" => Reduced(3) /\ ~Unequal(3)

Decisions ==
  \A r \in Ranks : num_pages[r] # 0 => Reduced(1) /\ Reduced(2) /\ num_pages[r] = Common

Rejected(k) == Reduced(k) /\ (Unequal(k) \/ (k = 2 /\ ~(Common > 1)))

Raises ==
  \A r \in Ranks : place[r] = "raised" => \E k \in 1..3 : Len(given[r]) = k /\ Rejected(k)

EngineInv == Shape /\ Lengths /\ Gates /\ Decisions /\ Raises

-----------------------------------------------------------------------------
LEMMA AppendAny ==
  ASSUME NEW S, NEW s \in Seq(S), NEW x
  PROVE  /\ \E T : Append(s, x) \in Seq(T)
         /\ Len(Append(s, x)) = Len(s) + 1
         /\ \A i \in 1..Len(s) : Append(s, x)[i] = s[i]
<1> DEFINE T == S \cup {x}
<1>1. s \in Seq(T)
  OBVIOUS
<1>2. x \in T
  OBVIOUS
<1>3. Append(s, x) \in Seq(T)
  BY <1>1, <1>2
<1>4. Len(Append(s, x)) = Len(s) + 1 /\ \A i \in 1..Len(s) : Append(s, x)[i] = s[i]
  BY <1>1, <1>2
<1> QED
  BY <1>3, <1>4

\* A completed all-reduce is not changed by what a rank gives to a later one.
LEMMA Stable ==
  ASSUME Shape, NEW r \in Ranks, NEW x, NEW k \in 1..3,
         given' = [given EXCEPT ![r] = Append(@, x)],
         Reduced(k)
  PROVE  Reduced(k)' /\ MaxFree(k)' = MaxFree(k) /\ MinFree(k)' = MinFree(k)
<1>1. PICK S : given[r] \in Seq(S)
  BY DEF Shape
<1>2. /\ Len(Append(given[r], x)) = Len(given[r]) + 1
      /\ \A i \in 1..Len(given[r]) : Append(given[r], x)[i] = given[r][i]
  BY <1>1, AppendAny
<1>3. Len(given[r]) \in Nat /\ Len(given[r]) >= k
  BY <1>1 DEF Reduced
<1>4. \A s \in Ranks : Len(given'[s]) >= k /\ given'[s][k] = given[s][k]
  BY <1>2, <1>3 DEF Shape, Reduced
<1>5. {given'[s][k] : s \in Ranks} = {given[s][k] : s \in Ranks}
  BY <1>4
<1>6. {-given'[s][k] : s \in Ranks} = {-given[s][k] : s \in Ranks}
  BY <1>4
<1> QED
  BY <1>4, <1>5, <1>6 DEF Reduced, MaxFree, MinFree

LEMMA StableOutcome ==
  ASSUME Shape, NEW r \in Ranks, NEW x, given' = [given EXCEPT ![r] = Append(@, x)]
  PROVE  /\ \A k \in 1..3 : Reduced(k) =>
              Reduced(k)' /\ MaxFree(k)' = MaxFree(k) /\ (Unequal(k)' <=> Unequal(k))
         /\ Reduced(1) /\ Reduced(2) => Common' = Common
<1>1. \A k \in 1..3 : Reduced(k) =>
        Reduced(k)' /\ MaxFree(k)' = MaxFree(k) /\ MinFree(k)' = MinFree(k)
  BY Stable
<1> QED
  BY <1>1 DEF Unequal, Common, Pages

\* A step that gives nothing leaves all of it alone.
LEMMA SameOutcome ==
  ASSUME UNCHANGED given
  PROVE  /\ (Reduced(1)' <=> Reduced(1)) /\ (Reduced(2)' <=> Reduced(2)) /\ (Reduced(3)' <=> Reduced(3))
         /\ (Unequal(1)' <=> Unequal(1)) /\ (Unequal(2)' <=> Unequal(2)) /\ (Unequal(3)' <=> Unequal(3))
         /\ MaxFree(1)' = MaxFree(1) /\ Common' = Common
         /\ \A j \in 1..3 : Rejected(j) => Rejected(j)'
BY DEF Reduced, MaxFree, MinFree, Unequal, Common, Pages, Rejected

-----------------------------------------------------------------------------
LEMMA MeasureStep ==
  ASSUME EngineInv, NEW r \in Ranks, MeasureFirst(r) \/ MeasureSecond(r) \/ MeasureThird(r)
  PROVE  EngineInv'
<1> DEFINE n == Len(given[r])
<1>1. PICK from, wait :
        /\ place[r] = from /\ place' = [place EXCEPT ![r] = wait]
        /\ given' = [given EXCEPT ![r] = Append(@, free[r])]
        /\ UNCHANGED << init_free_memory, num_pages >>
        /\ \/ from = "init" /\ wait = "first" /\ n = 0
           \/ from = "loaded" /\ wait = "second" /\ n = 1
           \/ from = "allocated" /\ wait = "third" /\ n = 2
  <2>1. CASE MeasureFirst(r)
    BY <2>1 DEF MeasureFirst, Measure, Goto, EngineInv, Lengths
  <2>2. CASE MeasureSecond(r)
    BY <2>2 DEF MeasureSecond, Measure, Goto, EngineInv, Lengths
  <2>3. CASE MeasureThird(r)
    BY <2>3 DEF MeasureThird, Measure, Goto, EngineInv, Lengths
  <2> QED
    BY <2>1, <2>2, <2>3
<1>2. PICK S : given[r] \in Seq(S)
  BY DEF EngineInv, Shape
<1>3. (\E T : given'[r] \in Seq(T)) /\ Len(given'[r]) = n + 1
  BY <1>1, <1>2, AppendAny DEF EngineInv, Shape
<1>4. /\ \A s \in Ranks \ {r} : given'[s] = given[s] /\ place'[s] = place[s]
      /\ place'[r] = wait
  BY <1>1 DEF EngineInv, Shape
<1>5. /\ \A k \in 1..3 : Reduced(k) =>
           Reduced(k)' /\ MaxFree(k)' = MaxFree(k) /\ (Unequal(k)' <=> Unequal(k))
      /\ Reduced(1) /\ Reduced(2) => Common' = Common
  BY <1>1, StableOutcome DEF EngineInv
<1>6. Shape'
  BY <1>1, <1>3, <1>4 DEF EngineInv, Shape, EngineLabels
<1>7. Lengths'
  BY <1>1, <1>3, <1>4 DEF EngineInv, Lengths
<1>8. Gates'
  <2> SUFFICES ASSUME NEW s \in Ranks
               PROVE  /\ Len(given'[s]) >= 2 \/ place'[s] = "loaded" => Reduced(1)' /\ ~Unequal(1)'
                      /\ place'[s] \in {"loaded", "second"} => init_free_memory'[s] = MaxFree(1)'
                      /\ Len(given'[s]) >= 3 \/ place'[s] \in {"pages", "allocated"} =>
                           Reduced(2)' /\ ~Unequal(2)' /\ Common' > 1
                      /\ place'[s] = "ready" => Reduced(3)' /\ ~Unequal(3)'
    BY DEF Gates
  <2>0. \A k \in {1, 2} : \A t \in Ranks : Reduced(2) /\ Len(given[t]) \in Nat => Reduced(1)
    BY DEF Reduced, EngineInv, Lengths
  <2>1. CASE s = r
    <3>1. CASE n = 0
      BY <1>1, <1>3, <1>4, <2>1, <3>1
    <3>2. CASE n = 1
      BY <1>1, <1>3, <1>4, <1>5, <2>1, <3>2 DEF EngineInv, Gates
    <3>3. CASE n = 2
      <4>1. Reduced(1) /\ ~Unequal(1) /\ Reduced(2) /\ ~Unequal(2) /\ Common > 1
        BY <1>1, <3>3 DEF EngineInv, Gates
      <4> QED
        BY <1>1, <1>3, <1>4, <1>5, <2>1, <3>3, <4>1
    <3> QED
      BY <1>1, <3>1, <3>2, <3>3
  <2>2. CASE s # r
    <3>1. given'[s] = given[s] /\ place'[s] = place[s] /\ init_free_memory'[s] = init_free_memory[s]
      BY <1>1, <1>4, <2>2
    <3>2. Len(given[s]) >= 3 \/ place[s] \in {"pages", "allocated"} => Reduced(1) /\ Reduced(2)
      BY DEF EngineInv, Gates, Lengths
    <3>3. place[s] \in {"loaded", "second"} => Reduced(1)
      BY DEF EngineInv, Gates, Lengths
    <3> QED
      BY <1>5, <3>1, <3>2, <3>3 DEF EngineInv, Gates
  <2> QED
    BY <2>1, <2>2
<1>9. Decisions'
  BY <1>1, <1>5 DEF EngineInv, Decisions
<1>10. Raises'
  <2> SUFFICES ASSUME NEW s \in Ranks, place'[s] = "raised"
               PROVE  \E k \in 1..3 : Len(given'[s]) = k /\ Rejected(k)'
    BY DEF Raises
  <2>1. s # r /\ place[s] = "raised" /\ given'[s] = given[s]
    BY <1>1, <1>4
  <2>2. PICK k \in 1..3 : Len(given[s]) = k /\ Rejected(k)
    BY <2>1 DEF EngineInv, Raises
  <2>3. k = 2 => Reduced(1)
    <3>1. Gates
      BY DEF EngineInv
    <3>2. k = 2 => Len(given[s]) >= 2
      BY <2>2
    <3> QED
      BY <3>1, <3>2 DEF Gates
  <2>4. Rejected(k)'
    BY <1>5, <2>2, <2>3 DEF Rejected
  <2> QED
    BY <2>1, <2>2, <2>4
<1> QED
  BY <1>6, <1>7, <1>8, <1>9, <1>10 DEF EngineInv

LEMMA RaiseStep ==
  ASSUME EngineInv, NEW r \in Ranks, RaiseAny(r)
  PROVE  EngineInv'
<1>1. PICK k \in 1..3, wait \in {"first", "second", "third"} :
        /\ place[r] = wait /\ Reduced(k) /\ Unequal(k) /\ Len(given[r]) = k
        /\ place' = [place EXCEPT ![r] = "raised"]
        /\ UNCHANGED << given, init_free_memory, num_pages >>
  <2>1. CASE Raise(r, 1, "first")
    BY <2>1 DEF Raise, Goto, Imbalanced, Unequal, EngineInv, Lengths
  <2>2. CASE Raise(r, 2, "second")
    BY <2>2 DEF Raise, Goto, Imbalanced, Unequal, EngineInv, Lengths
  <2>3. CASE Raise(r, 3, "third")
    BY <2>3 DEF Raise, Goto, Imbalanced, Unequal, EngineInv, Lengths
  <2> QED
    BY <2>1, <2>2, <2>3 DEF RaiseAny
<1>2. place'[r] = "raised" /\ \A s \in Ranks \ {r} : place'[s] = place[s]
  BY <1>1 DEF EngineInv, Shape
<1>3. /\ (Reduced(1)' <=> Reduced(1)) /\ (Reduced(2)' <=> Reduced(2)) /\ (Reduced(3)' <=> Reduced(3))
      /\ (Unequal(1)' <=> Unequal(1)) /\ (Unequal(2)' <=> Unequal(2)) /\ (Unequal(3)' <=> Unequal(3))
      /\ MaxFree(1)' = MaxFree(1) /\ Common' = Common
      /\ \A j \in 1..3 : Rejected(j) => Rejected(j)'
  BY <1>1, SameOutcome
<1>4. Shape'
  BY <1>1 DEF EngineInv, Shape, EngineLabels
<1>5. Lengths'
  BY <1>1, <1>2 DEF EngineInv, Lengths
<1>6. Gates'
  BY <1>1, <1>2, <1>3 DEF EngineInv, Gates
<1>7. Decisions'
  BY <1>1, <1>3 DEF EngineInv, Decisions
<1>8. Raises'
  BY <1>1, <1>2, <1>3 DEF EngineInv, Raises, Rejected
<1> QED
  BY <1>4, <1>5, <1>6, <1>7, <1>8 DEF EngineInv

LEMMA LoadModelStep ==
  ASSUME EngineInv, NEW r \in Ranks, LoadModel(r)
  PROVE  EngineInv'
<1>1. /\ place[r] = "first" /\ Reduced(1) /\ ~Unequal(1)
      /\ init_free_memory' = [init_free_memory EXCEPT ![r] = MaxFree(1)]
      /\ \E to \in {"out of memory", "loaded"} : place' = [place EXCEPT ![r] = to]
      /\ UNCHANGED << given, num_pages >>
  BY DEF LoadModel, Passed, Imbalanced, Unequal, SyncedMemory, Goto
<1>2. /\ place'[r] \in {"out of memory", "loaded"} /\ \A s \in Ranks \ {r} : place'[s] = place[s]
      /\ init_free_memory'[r] = MaxFree(1)
      /\ \A s \in Ranks \ {r} : init_free_memory'[s] = init_free_memory[s]
      /\ given' = given /\ num_pages' = num_pages
  BY <1>1 DEF EngineInv, Shape
<1>3. /\ (Reduced(1)' <=> Reduced(1)) /\ (Reduced(2)' <=> Reduced(2)) /\ (Reduced(3)' <=> Reduced(3))
      /\ (Unequal(1)' <=> Unequal(1)) /\ (Unequal(2)' <=> Unequal(2)) /\ (Unequal(3)' <=> Unequal(3))
      /\ MaxFree(1)' = MaxFree(1) /\ Common' = Common
      /\ \A j \in 1..3 : Rejected(j) => Rejected(j)'
  BY <1>1, SameOutcome
<1>4. Shape'
  BY <1>1 DEF EngineInv, Shape, EngineLabels
<1>5. Lengths'
  BY <1>1, <1>2 DEF EngineInv, Lengths
<1>6. Gates'
  BY <1>1, <1>2, <1>3 DEF EngineInv, Gates, Lengths
<1>7. Decisions'
  BY <1>2, <1>3 DEF EngineInv, Decisions
<1>8. Raises'
  BY <1>2, <1>3 DEF EngineInv, Raises
<1> QED
  BY <1>4, <1>5, <1>6, <1>7, <1>8 DEF EngineInv

LEMMA DetermineStep ==
  ASSUME EngineInv, NEW r \in Ranks, DetermineNumPages(r)
  PROVE  EngineInv'
<1>1. /\ place[r] = "second" /\ Reduced(2) /\ ~Unequal(2)
      /\ Len(given[r]) = 2 /\ init_free_memory[r] = MaxFree(1) /\ Reduced(1)
  BY DEF DetermineNumPages, Passed, Imbalanced, Unequal, EngineInv, Lengths, Gates
<1>2. /\ num_pages' = [num_pages EXCEPT ![r] = Common]
      /\ place' = [place EXCEPT ![r] = IF num_pages'[r] > 1 THEN "pages" ELSE "raised"]
      /\ UNCHANGED << given, init_free_memory >>
  BY <1>1 DEF DetermineNumPages, SyncedMemory, Goto, Common
<1>3. /\ num_pages'[r] = Common
      /\ place'[r] = IF Common > 1 THEN "pages" ELSE "raised"
      /\ \A s \in Ranks \ {r} : place'[s] = place[s] /\ num_pages'[s] = num_pages[s]
  BY <1>2 DEF EngineInv, Shape
<1>4. /\ (Reduced(1)' <=> Reduced(1)) /\ (Reduced(2)' <=> Reduced(2)) /\ (Reduced(3)' <=> Reduced(3))
      /\ (Unequal(1)' <=> Unequal(1)) /\ (Unequal(2)' <=> Unequal(2)) /\ (Unequal(3)' <=> Unequal(3))
      /\ MaxFree(1)' = MaxFree(1) /\ Common' = Common
      /\ \A j \in 1..3 : Rejected(j) => Rejected(j)'
  BY <1>2, SameOutcome
<1>5. Shape'
  BY <1>2 DEF EngineInv, Shape, EngineLabels
<1>6. Lengths'
  BY <1>1, <1>2, <1>3 DEF EngineInv, Lengths
<1>7. Gates'
  BY <1>1, <1>2, <1>3, <1>4 DEF EngineInv, Gates
<1>8. Decisions'
  BY <1>1, <1>2, <1>3, <1>4 DEF EngineInv, Decisions
<1>9. Raises'
  <2> SUFFICES ASSUME NEW s \in Ranks, place'[s] = "raised"
               PROVE  \E k \in 1..3 : Len(given'[s]) = k /\ Rejected(k)'
    BY DEF Raises
  <2>1. CASE s = r
    <3>1. ~(Common > 1)
      BY <1>3, <2>1
    <3>2. Rejected(2)'
      BY <1>1, <1>4, <3>1 DEF Rejected
    <3> QED
      BY <1>1, <1>2, <2>1, <3>2
  <2>2. CASE s # r
    BY <1>2, <1>3, <1>4, <2>2 DEF EngineInv, Raises
  <2> QED
    BY <2>1, <2>2
<1> QED
  BY <1>5, <1>6, <1>7, <1>8, <1>9 DEF EngineInv

\* AllocatePool and Ready change the place of a rank only.
LEMMA OnwardStep ==
  ASSUME EngineInv, NEW r \in Ranks, AllocatePool(r) \/ Ready(r)
  PROVE  EngineInv'
<1>1. /\ UNCHANGED << given, init_free_memory, num_pages >>
      /\ \/ place[r] = "pages"
            /\ \E to \in {"out of memory", "allocated"} : place' = [place EXCEPT ![r] = to]
         \/ /\ place[r] = "third" /\ place' = [place EXCEPT ![r] = "ready"]
            /\ Reduced(3) /\ ~Unequal(3)
  <2>1. CASE AllocatePool(r)
    BY <2>1 DEF AllocatePool, Goto
  <2>2. CASE Ready(r)
    BY <2>2 DEF Ready, Passed, Imbalanced, Unequal, Goto
  <2> QED
    BY <2>1, <2>2
<1>2. /\ \A s \in Ranks \ {r} : place'[s] = place[s]
      /\ \/ place[r] = "pages" /\ place'[r] \in {"out of memory", "allocated"}
         \/ place[r] = "third" /\ place'[r] = "ready" /\ Reduced(3) /\ ~Unequal(3)
      /\ given' = given /\ init_free_memory' = init_free_memory /\ num_pages' = num_pages
  BY <1>1 DEF EngineInv, Shape
<1>3. /\ (Reduced(1)' <=> Reduced(1)) /\ (Reduced(2)' <=> Reduced(2)) /\ (Reduced(3)' <=> Reduced(3))
      /\ (Unequal(1)' <=> Unequal(1)) /\ (Unequal(2)' <=> Unequal(2)) /\ (Unequal(3)' <=> Unequal(3))
      /\ MaxFree(1)' = MaxFree(1) /\ Common' = Common
      /\ \A j \in 1..3 : Rejected(j) => Rejected(j)'
  BY <1>1, SameOutcome
<1>0. PICK to \in EngineLabels : place' = [place EXCEPT ![r] = to]
  BY <1>1 DEF EngineLabels
<1>4. Shape'
  BY <1>0, <1>2 DEF EngineInv, Shape
<1>5. Lengths'
  BY <1>1, <1>2 DEF EngineInv, Lengths
<1>6. Gates'
  BY <1>1, <1>2, <1>3 DEF EngineInv, Gates
<1>7. Decisions'
  BY <1>2, <1>3 DEF EngineInv, Decisions
<1>8. Raises'
  BY <1>2, <1>3 DEF EngineInv, Raises
<1> QED
  BY <1>4, <1>5, <1>6, <1>7, <1>8 DEF EngineInv

LEMMA UnchangedStep ==
  ASSUME EngineInv, UNCHANGED << place, given, init_free_memory, num_pages >>
  PROVE  EngineInv'
<1>1. /\ (Reduced(1)' <=> Reduced(1)) /\ (Reduced(2)' <=> Reduced(2)) /\ (Reduced(3)' <=> Reduced(3))
      /\ (Unequal(1)' <=> Unequal(1)) /\ (Unequal(2)' <=> Unequal(2)) /\ (Unequal(3)' <=> Unequal(3))
      /\ MaxFree(1)' = MaxFree(1) /\ Common' = Common
      /\ \A j \in 1..3 : Rejected(j) => Rejected(j)'
  BY SameOutcome
<1>2. Shape' /\ Lengths'
  BY DEF EngineInv, Shape, Lengths
<1>3. Gates' /\ Decisions'
  BY <1>1 DEF EngineInv, Gates, Decisions
<1>4. Raises'
  BY <1>1 DEF EngineInv, Raises
<1> QED
  BY <1>2, <1>3, <1>4 DEF EngineInv

LEMMA EngineInitInvariant == EngineInit => EngineInv
<1> SUFFICES ASSUME EngineInit PROVE EngineInv
  OBVIOUS
<1>1. \A r \in Ranks : given[r] = << >> /\ place[r] = "init" /\ num_pages[r] = 0
  BY DEF EngineInit
<1>2. << >> \in Seq(Nat) /\ Len(<< >>) = 0
  OBVIOUS
<1>3. Shape
  BY <1>1, <1>2 DEF EngineInit, Shape, EngineLabels
<1>4. \A r \in Ranks : Len(given[r]) = 0
  BY <1>1, <1>2
<1> QED
  BY <1>1, <1>3, <1>4 DEF EngineInv, Lengths, Gates, Decisions, Raises

LEMMA EngineInvariance == EngineSpec => []EngineInv
<1>1. EngineInit => EngineInv
  BY EngineInitInvariant
<1>2. EngineInv /\ [EngineNext]_engineVars => EngineInv'
  <2> SUFFICES ASSUME EngineInv, [EngineNext]_engineVars PROVE EngineInv'
    OBVIOUS
  <2>1. ASSUME NEW r \in Ranks, MeasureFirst(r) \/ MeasureSecond(r) \/ MeasureThird(r)
        PROVE  EngineInv'
    BY <2>1, MeasureStep
  <2>2. ASSUME NEW r \in Ranks, LoadModel(r) PROVE EngineInv'
    BY <2>2, LoadModelStep
  <2>3. ASSUME NEW r \in Ranks, DetermineNumPages(r) PROVE EngineInv'
    BY <2>3, DetermineStep
  <2>4. ASSUME NEW r \in Ranks, AllocatePool(r) \/ Ready(r) PROVE EngineInv'
    BY <2>4, OnwardStep
  <2>5. ASSUME NEW r \in Ranks, RaiseAny(r) PROVE EngineInv'
    BY <2>5, RaiseStep
  <2>6. ASSUME NEW r \in Ranks, Disturb(r) PROVE EngineInv'
    BY <2>6, UnchangedStep DEF Disturb
  <2>7. CASE UNCHANGED engineVars
    BY <2>7, UnchangedStep DEF engineVars
  <2> QED
    BY <2>1, <2>2, <2>3, <2>4, <2>5, <2>6, <2>7 DEF EngineNext, RankStep
<1> QED
  BY <1>1, <1>2, PTL DEF EngineSpec

-----------------------------------------------------------------------------
\* All ranks of a group decide the same number of KV pages, however many they are
\* and whatever memory each has (Engine._determine_num_pages).
THEOREM AllPagesAgree == EngineSpec => []PagesAgree
<1>1. EngineInv => PagesAgree
  BY DEF EngineInv, Decisions, PagesAgree, Decided
<1> QED
  BY <1>1, EngineInvariance, PTL

\* A rank that raises leaves none waiting in a later all-reduce, and none gets
\* ready: what it found, all find (Engine._sync_get_memory).
THEOREM AllRaiseTogether == EngineSpec => []RaiseTogether
<1>1. EngineInv => RaiseTogether
  <2> SUFFICES ASSUME EngineInv, NEW r \in Ranks, NEW s \in Ranks, place[r] = "raised"
               PROVE  Len(given[s]) <= Len(given[r]) /\ place[s] # "ready"
    BY DEF RaiseTogether
  <2>1. PICK k \in 1..3 : Len(given[r]) = k /\ Rejected(k)
    BY DEF EngineInv, Raises
  <2>2. Len(given[s]) \in Int /\ Len(given[s]) <= 3 /\ (place[s] = "ready" => Len(given[s]) = 3)
    <3>1. Len(given[s]) \in 0..3 /\ (place[s] = "ready" => Len(given[s]) = 3)
      BY DEF EngineInv, Lengths
    <3>2. \A n \in 0..3 : n \in Int /\ n <= 3
      OBVIOUS
    <3> QED
      BY <3>1, <3>2
  <2>3. /\ Len(given[s]) >= 2 => ~Unequal(1)
        /\ Len(given[s]) >= 3 => ~Unequal(2) /\ Common > 1
        /\ place[s] = "ready" => ~Unequal(3)
    BY DEF EngineInv, Gates
  <2>4. CASE k = 1
    BY <2>1, <2>2, <2>3, <2>4 DEF Rejected
  <2>5. CASE k = 2
    <3>1. Len(given[r]) = 2 /\ (Unequal(2) \/ ~ (Common > 1))
      BY <2>1, <2>5 DEF Rejected
    <3>2. ~ (Len(given[s]) >= 3)
      BY <2>3, <3>1
    <3> QED
      BY <2>2, <3>1, <3>2
  <2>6. CASE k = 3
    <3>1. Rejected(3)
      BY <2>1, <2>6
    <3>2. place[s] # "ready"
      BY <2>3, <3>1 DEF Rejected
    <3>3. Len(given[r]) = 3
      BY <2>1, <2>6
    <3>4. Len(given[s]) <= 3
      BY <2>2
    <3> QED
      BY <3>2, <3>3, <3>4
  <2> QED
    BY <2>4, <2>5, <2>6
<1> QED
  BY <1>1, EngineInvariance, PTL

-----------------------------------------------------------------------------
(* The launcher of a cluster. *)

LauncherType ==
  /\ step \in {"spawn", "wait", "serve", "stop", "reap", "done", "died"}
  /\ at \in Nat \ {0} /\ (step = "spawn" => at <= Len(WorkerList))
  /\ procs \in Seq(LauncherChildren)

\* Up to the end of the last wait the router, which is waited for last, has not
\* been seen, and up to the end of serving there was no Ctrl+C
BeforeServing ==
  /\ step \in {"spawn", "wait"} => TheRouter \notin seen
  /\ step \in {"spawn", "wait", "serve"} => ~interrupted
  /\ step \in {"serve", "stop"} => procs # << >>

\* In the middle of the loop that terminates, the children before at are told
Stopping ==
  step = "stop" => at <= Len(procs) /\ \A i \in 1..(at - 1) : procs[i] \in told

LauncherInv == LauncherType /\ BeforeServing /\ Stopping /\ EveryChildTold

-----------------------------------------------------------------------------
\* Steps that neither stop children nor change what was started, told or seen once
\* the launcher has been interrupted.
LEMMA QuietLauncher ==
  ASSUME LauncherInv, UNCHANGED << procs, told, interrupted >>, step # "stop",
         step' \in {"spawn", "wait", "serve", "reap", "done", "died"}, at' \in Nat \ {0},
         step' = "spawn" => at' <= Len(WorkerList),
         step' \in {"spawn", "wait", "serve"} => step \in {"spawn", "wait", "serve"},
         step' \in {"spawn", "wait"} => TheRouter \notin seen',
         step' = "serve" => procs # << >>,
         step \in {"spawn", "wait", "serve"} \/ seen' = seen
  PROVE  LauncherInv'
<1>1. LauncherType' /\ Stopping'
  BY DEF LauncherInv, LauncherType, Stopping
<1>2. BeforeServing'
  BY DEF LauncherInv, BeforeServing
<1>3. EveryChildTold'
  BY DEF LauncherInv, BeforeServing, EveryChildTold
<1> QED
  BY <1>1, <1>2, <1>3 DEF LauncherInv

LEMMA StartChildStep ==
  ASSUME LauncherInv, SpawnWorker \/ StartRouter
  PROVE  LauncherInv'
<1>1. /\ step \in {"spawn", "wait"} /\ step' \in {"spawn", "wait"}
      /\ at' \in Nat \ {0} /\ (step' = "spawn" => at' <= Len(WorkerList))
      /\ UNCHANGED << seen, told, interrupted >>
      /\ \E c \in LauncherChildren : procs' = Append(procs, c)
  <2>1. CASE SpawnWorker
    <3>1. Len(WorkerList) \in Nat /\ at \in 1..Len(WorkerList)
      BY <2>1, ClusterAssumption DEF SpawnWorker, LauncherInv, LauncherType
    <3>2. WorkerList[at] \in LauncherChildren
      BY <3>1, ClusterAssumption DEF LauncherChildren, Worker
    <3> QED
      BY <2>1, <3>1, <3>2 DEF SpawnWorker, Start, LauncherInv, LauncherType
  <2>2. CASE StartRouter
    BY <2>2 DEF StartRouter, Start, LauncherChildren, LauncherInv, LauncherType
  <2> QED
    BY <2>1, <2>2
<1>2. LauncherType'
  BY <1>1 DEF LauncherInv, LauncherType
<1>3. BeforeServing' /\ Stopping' /\ EveryChildTold'
  BY <1>1 DEF LauncherInv, BeforeServing, Stopping, EveryChildTold
<1> QED
  BY <1>2, <1>3 DEF LauncherInv

LEMMA WaitChildStep ==
  ASSUME LauncherInv, NEW c \in LauncherChildren, Healthy(c) \/ GiveUp(c) \/ Refused(c) \/ TimedOut(c)
  PROVE  LauncherInv'
<1>1. CASE Healthy(c) \/ GiveUp(c)
  <2>1. /\ step = "wait" /\ at \in DOMAIN procs /\ seen' = seen \cup {c}
        /\ UNCHANGED << procs, told, interrupted >>
        /\ \/ c = TheRouter /\ step' = "serve" /\ at' = 1
           \/ c # TheRouter /\ step' = "wait" /\ at' = at + 1
    BY <1>1 DEF Healthy, GiveUp, Probing, WaitOver
  <2>2. procs # << >> /\ at' \in Nat \ {0} /\ TheRouter \notin seen
    BY <2>1 DEF LauncherInv, LauncherType, BeforeServing
  <2> QED
    BY <2>1, <2>2, QuietLauncher
<1>2. CASE Refused(c) \/ TimedOut(c)
  BY <1>2, QuietLauncher DEF Refused, TimedOut, Probing, LauncherInv, LauncherType, BeforeServing
<1> QED
  BY <1>1, <1>2

LEMMA ServeOnStep ==
  ASSUME LauncherInv, ServeOn \/ Reap
  PROVE  LauncherInv'
<1>1. CASE ServeOn
  BY <1>1, QuietLauncher DEF ServeOn, LauncherInv, LauncherType, BeforeServing
<1>2. CASE Reap
  BY <1>2, QuietLauncher DEF Reap, LauncherInv, LauncherType, BeforeServing
<1> QED
  BY <1>1, <1>2

LEMMA InterruptStep ==
  ASSUME LauncherInv, Interrupt
  PROVE  LauncherInv'
<1>1. CASE step = "serve"
  <2>1. step' = "stop" /\ at' = 1 /\ UNCHANGED << procs, seen, told >> /\ procs # << >>
    BY <1>1 DEF Interrupt, LauncherInv, BeforeServing
  <2>2. Len(procs) >= 1
    BY <2>1 DEF LauncherInv, LauncherType
  <2> QED
    BY <2>1, <2>2 DEF LauncherInv, LauncherType, BeforeServing, Stopping, EveryChildTold
<1>2. CASE step # "serve"
  <2>1. step' = "died" /\ at' = 1 /\ UNCHANGED << procs, seen, told >> /\ TheRouter \notin seen
    BY <1>2 DEF Interrupt, LauncherInv, BeforeServing
  <2> QED
    BY <2>1 DEF LauncherInv, LauncherType, BeforeServing, Stopping, EveryChildTold, LauncherChildren
<1> QED
  BY <1>1, <1>2

LEMMA TerminateStep ==
  ASSUME LauncherInv, Terminate
  PROVE  LauncherInv'
<1>1. /\ step = "stop" /\ told' = told \cup {procs[at]}
      /\ UNCHANGED << procs, seen, interrupted >>
      /\ at \in Nat \ {0} /\ Len(procs) \in Nat /\ at <= Len(procs)
      /\ \A i \in 1..(at - 1) : procs[i] \in told
  BY DEF Terminate, LauncherInv, LauncherType, Stopping
<1>2. \A i \in 1..at : procs[i] \in told'
  BY <1>1
<1>3. CASE at < Len(procs)
  <2>1. at' = at + 1 /\ step' = "stop"
    BY <1>1, <1>3 DEF Terminate
  <2> QED
    BY <1>1, <1>2, <1>3, <2>1 DEF LauncherInv, LauncherType, BeforeServing, Stopping, EveryChildTold
<1>4. CASE ~(at < Len(procs))
  <2>1. at' = 1 /\ step' = "reap" /\ at = Len(procs)
    BY <1>1, <1>4 DEF Terminate
  <2>2. ToSet(procs') \subseteq told'
    BY <1>1, <1>2, <2>1 DEF ToSet, LauncherInv, LauncherType
  <2> QED
    BY <1>1, <2>1, <2>2 DEF LauncherInv, LauncherType, BeforeServing, Stopping, EveryChildTold
<1> QED
  BY <1>3, <1>4

LEMMA OtherLauncherStep ==
  ASSUME LauncherInv, UNCHANGED << step, at, procs, seen, told, interrupted >>
  PROVE  LauncherInv'
BY DEF LauncherInv, LauncherType, BeforeServing, Stopping, EveryChildTold

-----------------------------------------------------------------------------
\* Whenever a Ctrl+C is caught while serving, every child started is told to end,
\* whether or not those before it end in time (launch_cluster, the loop of
\* terminate before the loop of wait).
THEOREM EveryChildIsTold == LauncherSpec => []EveryChildTold
<1>1. LauncherInit => LauncherInv
  <2>1. << >> \in Seq(LauncherChildren) /\ Len(WorkerList) \in Nat /\ Len(WorkerList) >= 1
    BY ClusterAssumption
  <2> QED
    BY <2>1 DEF LauncherInit, LauncherInv, LauncherType, BeforeServing, Stopping, EveryChildTold
<1>2. LauncherInv /\ [LauncherNext]_launcherVars => LauncherInv'
  <2> SUFFICES ASSUME LauncherInv, [LauncherNext]_launcherVars PROVE LauncherInv'
    OBVIOUS
  <2>1. CASE SpawnWorker \/ StartRouter
    BY <2>1, StartChildStep
  <2>2. ASSUME NEW c \in LauncherChildren, Healthy(c) \/ GiveUp(c) \/ Refused(c) \/ TimedOut(c)
        PROVE  LauncherInv'
    BY <2>2, WaitChildStep
  <2>3. CASE ServeOn \/ Reap
    BY <2>3, ServeOnStep
  <2>4. CASE Terminate
    BY <2>4, TerminateStep
  <2>5. CASE Interrupt
    BY <2>5, InterruptStep
  <2>6. ASSUME NEW c \in LauncherChildren, ChildStep(c) PROVE LauncherInv'
    BY <2>6, OtherLauncherStep DEF ChildStep
  <2>7. CASE UNCHANGED launcherVars
    BY <2>7, OtherLauncherStep DEF launcherVars
  <2> QED
    BY <2>1, <2>2, <2>3, <2>4, <2>5, <2>6, <2>7 DEF LauncherNext, Launcher
<1> QED
  BY <1>1, <1>2, PTL DEF LauncherSpec, LauncherInv
=============================================================================
