------------------------------ MODULE RankLog ------------------------------
(***************************************************************************)
(* What the broadcast of messages to the ranks promises: the messages that *)
(* arrive are cut, in order, into the batches of successive iterations,    *)
(* and every rank applies the same batches in the same order, each at its  *)
(* own pace.                                                               *)
(***************************************************************************)
EXTENDS Naturals, Sequences

CONSTANTS Ranks, Msgs

VARIABLES arrived,              \* the messages so far
          taken,                \* how many of them are in the log
          log,                  \* the batches decided so far
          applied               \* rank -> the batches it has applied

vars == << arrived, taken, log, applied >>

Init ==
  /\ arrived = << >> /\ taken = 0 /\ log = << >>
  /\ applied = [r \in Ranks |-> << >>]

Arrive(m) ==
  /\ arrived' = Append(arrived, m)
  /\ UNCHANGED << taken, log, applied >>

Decide ==
  /\ \E n \in taken..Len(arrived) :
       /\ log' = Append(log, SubSeq(arrived, taken + 1, n))
       /\ taken' = n
  /\ UNCHANGED << arrived, applied >>

Apply(r) ==
  /\ Len(applied[r]) < Len(log)
  /\ applied' = [applied EXCEPT ![r] = SubSeq(log, 1, Len(@) + 1)]
  /\ UNCHANGED << arrived, taken, log >>

Next == Decide \/ (\E m \in Msgs : Arrive(m)) \/ (\E r \in Ranks : Apply(r))

Spec == Init /\ [][Next]_vars
=============================================================================
