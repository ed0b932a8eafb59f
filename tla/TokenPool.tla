------------------------------- MODULE TokenPool -------------------------------
(***************************************************************************)
(* The token pool of TableManager between the scheduler and the two CUDA   *)
(* streams: the scheduler copies prompts into rows, every batch loads its  *)
(* tokens from the pool and writes those it samples back, and a row passes *)
(* from a finished request to the next (scheduler.py, prefill.py,          *)
(* table.py). Work given to a stream is done later, in the order of the    *)
(* stream; the streams are ordered by wait_stream and copy_done only.      *)
(* Requests are admitted without regard to the cache: see Scheduler.       *)
(* The token of request r at position p is << r, p >>.                     *)
(***************************************************************************)
EXTENDS Integers, SequencesExt, FiniteSetsExt, TLC

CONSTANTS Overlap,              \* not DISABLE_OVERLAP_SCHEDULING
          Arrival,              \* the requests in their order of arrival
          PromptLen, OutputLen, \* request -> number of tokens
          NumRows, Width,       \* max_running_reqs; the length of a row
          PrefillBudget, MaxCached   \* bound: MaxCached tokens of a cached prefix

Requests == ToSet(Arrival)

TokenPoolAssumption ==
  /\ Overlap \in BOOLEAN /\ IsInjective(Arrival) /\ MaxCached \in Nat
  /\ {NumRows, PrefillBudget} \subseteq Nat \ {0}
  /\ \A r \in Requests : /\ PromptLen[r] \in 1..(Width - 1) /\ OutputLen[r] \in Nat
                         /\ PromptLen[r] + OutputLen[r] <= Width

VARIABLES pending,              \* pending_list
          reqs,                 \* request -> [row, cached, device, max], once admitted
          running,              \* running_reqs
          free_slots,           \* _free_slots
          last, turn,           \* the batch not processed yet; "schedule" or "process"
          scheduler_stream, engine_stream,   \* work not done yet
          token_pool,           \* row -> position -> token
          over, late, misread   \* history: the requests found to be finished, those admitted
                                \* to a row with a write on its way, those fed a wrong token

vars == << pending, reqs, running, free_slots, last, turn, scheduler_stream, engine_stream,
           token_pool, over, late, misread >>

-----------------------------------------------------------------------------
(* Work for a stream. *)

Copy(row, r, from, to) == [kind |-> "copy", row |-> row, req |-> r, from |-> from, to |-> to]
WaitFor(n) == [kind |-> "wait", count |-> n]        \* n operations of the other stream
Load(batch) == [kind |-> "load", batch |-> batch]   \* and the forward pass
Write(batch) == [kind |-> "write", batch |-> batch]

\* wait_stream: everything the scheduler's stream has been given
NoWaits(copies) == << >>        \* mutant: the engine's stream does not wait
Waits(copies) == << WaitFor(Len(scheduler_stream) + Len(copies)) >>

CanDecode(req) == req.max > req.device

\* A member of a batch, as the mappings made before the forward pass have it
Member(r, req, chunked) ==
  [req |-> r, row |-> req.row, from |-> req.cached, to |-> req.device, chunked |-> chunked]

\* _make_write_tuple: -1 is the last column
WritePos(member) == IF member.chunked THEN Width - 1 ELSE member.to

Completed(req) == [req EXCEPT !.cached = req.device, !.device = req.device + 1]

-----------------------------------------------------------------------------
(* Launching a batch: the copies of its prompts, the load, the write. *)

Launch(batch, copies) ==
  /\ IF Overlap
     THEN /\ scheduler_stream' = scheduler_stream \o copies
          /\ engine_stream' = engine_stream \o Waits(copies) \o << Load(batch), Write(batch) >>
     ELSE /\ engine_stream' = engine_stream \o copies \o << Load(batch), Write(batch) >>
          /\ UNCHANGED scheduler_stream
  /\ turn' = "process"
  /\ last' = Append(last, batch)

Members(batch) == {batch[i].req : i \in DOMAIN batch}

WritesTo(row) ==
  \E i \in DOMAIN engine_stream :
    /\ engine_stream[i].kind = "write"
    /\ \E j \in DOMAIN engine_stream[i].batch : engine_stream[i].batch[j].row = row

\* try_add_one: r joins a batch with hit tokens cached, or with its next chunk
Add(a, r, hit) ==
  LET old == r \in DOMAIN a.reqs
      row == IF old THEN a.reqs[r].row ELSE Last(a.slots)
      cached == IF old THEN a.reqs[r].cached ELSE hit
      size == Min({a.budget, PromptLen[r] - cached})
      req == [row |-> row, cached |-> cached, device |-> cached + size,
              max |-> PromptLen[r] + OutputLen[r]]
  IN  [budget |-> a.budget - size,
       slots |-> IF old THEN a.slots ELSE Front(a.slots),
       reqs |-> r :> req @@ a.reqs,
       copies |-> a.copies
         \o (IF old \/ cached = 0 THEN << >> ELSE << Copy(row, r, 0, cached) >>)
         \o << Copy(row, r, cached, cached + size) >>,
       batch |-> Append(a.batch, Member(r, req, cached + size < PromptLen[r]))]

\* The first k of the pending list, with hits[r] tokens of a new request cached
Admitted(k, hits) ==
  FoldLeft(LAMBDA a, r : Add(a, r, hits[r]),
           [budget |-> PrefillBudget, slots |-> free_slots, reqs |-> reqs,
            copies |-> << >>, batch |-> << >>], SubSeq(pending, 1, k))

\* The budget is not used up before the k-th, and there is a row for every new request
Fits(k, hits) ==
  LET cached(r) == IF r \in DOMAIN reqs THEN reqs[r].cached ELSE hits[r]
  IN  /\ MapThenSumSet(LAMBDA i : PromptLen[pending[i]] - cached(pending[i]), 1..(k - 1))
           < PrefillBudget
      /\ Cardinality({i \in 1..k : pending[i] \notin DOMAIN reqs}) <= Len(free_slots)

\* PrefillManager.schedule_next_batch and the launch of its batch
Prefill ==
  \E k \in 1..Len(pending), hits \in [ToSet(pending) -> 0..MaxCached] :
    LET a == Admitted(k, hits)
        chunked == {m.req : m \in {m \in ToSet(a.batch) : m.chunked}}
    IN  /\ turn = "schedule"
        /\ \A r \in ToSet(pending) : hits[r] < PromptLen[r]
        /\ Fits(k, hits)
        /\ \A r \in ToSet(pending) : r \notin Members(a.batch) => hits[r] = 0
        /\ k < Len(pending) => ~ Fits(k + 1, hits)
        /\ Launch(a.batch, a.copies)
        /\ reqs' = [r \in DOMAIN a.reqs |->
                      IF r \in Members(a.batch) THEN Completed(a.reqs[r]) ELSE a.reqs[r]]
        /\ running' = {r \in running \cup (Members(a.batch) \ chunked) : CanDecode(reqs'[r])}
        /\ free_slots' = a.slots
        /\ pending' = SelectSeq(pending, LAMBDA r : r \notin (Members(a.batch) \ chunked))
        /\ late' = late \cup {r \in Members(a.batch) \ DOMAIN reqs : WritesTo(a.reqs[r].row)}
        /\ UNCHANGED << token_pool, over, misread >>

NothingToPrefill ==
  pending # << >> => Head(pending) \notin DOMAIN reqs /\ free_slots = << >>

\* DecodeManager.schedule_next_batch and the launch of its batch
Decode ==
  LET batch == SetToSeq({Member(r, reqs[r], FALSE) : r \in running})
  IN  /\ turn = "schedule" /\ NothingToPrefill /\ running # {}
      /\ Launch(batch, << >>)
      /\ reqs' = [r \in DOMAIN reqs |-> IF r \in running THEN Completed(reqs[r]) ELSE reqs[r]]
      /\ running' = {r \in running : CanDecode(reqs'[r])}
      /\ UNCHANGED << pending, free_slots, token_pool, over, late, misread >>

\* overlap_loop with nothing to launch, but results to process
NoBatch ==
  /\ turn = "schedule" /\ NothingToPrefill /\ running = {} /\ last # << >>
  /\ turn' = "process" /\ last' = Append(last, << >>)
  /\ UNCHANGED << pending, reqs, running, free_slots, scheduler_stream, engine_stream,
                  token_pool, over, late, misread >>

\* The batch whose results are next: in overlap_loop the one before the last launched
Due == IF Overlap THEN IF Len(last) = 2 THEN Head(last) ELSE << >> ELSE Head(last)

\* The requests of a batch that may finish: no chunks, and not finished by the batch before
Open(batch) == {m.req : m \in {m \in ToSet(batch) : ~ m.chunked}} \ over

\* _process_last_data: after copy_done, that is after the sampling, not the write
Process ==
  /\ turn = "process"
  /\ LET must == {r \in Open(Due) : ~ CanDecode(reqs[r])}
         rest == IF Len(last) = 2 THEN Tail(last) ELSE IF Overlap THEN last ELSE << >>
     IN  \E eos \in SUBSET (Open(Due) \ must) :
           LET finished == SelectSeq(Due, LAMBDA m : m.req \in eos \cup must)
           IN  /\ \A i \in DOMAIN engine_stream : engine_stream[i] # Load(Due)
               /\ over' = over \cup Members(finished)
               /\ running' = running \ Members(finished)
               /\ free_slots' = free_slots \o [i \in DOMAIN finished |-> finished[i].row]
               /\ last' = IF rest = << << >> >> THEN << >> ELSE rest
               /\ turn' = "schedule"
  /\ UNCHANGED << pending, reqs, scheduler_stream, engine_stream, token_pool, late, misread >>

-----------------------------------------------------------------------------
(* The streams. *)

Filled(copy) ==
  [token_pool EXCEPT ![copy.row] =
     [p \in 0..(Width - 1) |->
        IF p \in copy.from..(copy.to - 1) THEN << copy.req, p >> ELSE @[p]]]

SchedulerStream ==
  /\ scheduler_stream # << >>
  /\ token_pool' = Filled(Head(scheduler_stream))
  /\ scheduler_stream' = Tail(scheduler_stream)
  /\ engine_stream' = [i \in DOMAIN engine_stream |->
       IF engine_stream[i].kind # "wait" \/ engine_stream[i].count = 0 THEN engine_stream[i]
       ELSE WaitFor(engine_stream[i].count - 1)]
  /\ UNCHANGED << pending, reqs, running, free_slots, last, turn, over, late, misread >>

Misread(m) == \E p \in m.from..(m.to - 1) : token_pool[m.row][p] # << m.req, p >>

EngineStream ==
  /\ engine_stream # << >>
  /\ LET op == Head(engine_stream)
     IN  \/ /\ op.kind = "wait" /\ op.count = 0
            /\ UNCHANGED << token_pool, misread >>
         \/ /\ op.kind = "copy"
            /\ token_pool' = Filled(op)
            /\ UNCHANGED misread
         \/ /\ op.kind = "load"
            /\ misread' = misread \cup {m.req : m \in {m \in ToSet(op.batch) :
                                                        m.req \notin over /\ Misread(m)}}
            /\ UNCHANGED token_pool
         \/ /\ op.kind = "write"
            /\ token_pool' = [row \in DOMAIN token_pool |-> [p \in 0..(Width - 1) |->
                 IF \E m \in ToSet(op.batch) : m.row = row /\ WritePos(m) = p
                 THEN LET m == CHOOSE m \in ToSet(op.batch) : m.row = row /\ WritePos(m) = p
                      IN  << m.req, m.to >>
                 ELSE token_pool[row][p]]]
            /\ UNCHANGED misread
  /\ engine_stream' = Tail(engine_stream)
  /\ UNCHANGED << pending, reqs, running, free_slots, last, turn, scheduler_stream, over, late >>

Init ==
  /\ pending = Arrival /\ reqs = [r \in {} |-> 0] /\ running = {}
  /\ free_slots = [i \in 1..NumRows |-> i - 1]
  /\ last = << >> /\ turn = "schedule"
  /\ scheduler_stream = << >> /\ engine_stream = << >>
  /\ token_pool = [row \in 0..(NumRows - 1) |-> [p \in 0..(Width - 1) |-> << >>]]
  /\ over = {} /\ late = {} /\ misread = {}

Next == Prefill \/ Decode \/ NoBatch \/ Process \/ SchedulerStream \/ EngineStream

Spec == Init /\ [][Next]_vars

-----------------------------------------------------------------------------
(* A request whose results count is fed its own tokens, prompt and         *)
(* samples, in every batch (Scheduler._forward). In overlap_loop the one   *)
(* way to be fed another request's token is to take over a row while the   *)
(* last batch of its former owner is on its way: otherwise wait_stream     *)
(* orders copies, loads and writes as they must be.                        *)
MisreadOnlyIfLate == misread \subseteq IF Overlap THEN late ELSE {}

(* Rows change hands only between requests whose results are no longer     *)
(* waited for, and every row has one owner or is free.                     *)
RowsHaveOneOwner ==
  LET owner(row) == {r \in DOMAIN reqs \ over : reqs[r].row = row}
  IN  /\ \A row \in 0..(NumRows - 1) :
           Cardinality(owner(row)) = IF row \in ToSet(free_slots) THEN 0 ELSE 1
      /\ IsInjective(free_slots)
=============================================================================
