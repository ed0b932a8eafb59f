-------------------------------- MODULE Lists --------------------------------
(* The filtering list comprehension, which several processes use. *)
EXTENDS Naturals, Sequences

\* [x for x in list if x in S].  TLAPS can unfold this function, and not SelectSeq.
Within(list, S) ==
  LET kept[n \in 0..Len(list)] ==
        IF n = 0 THEN << >>
        ELSE IF list[n] \in S THEN Append(kept[n - 1], list[n]) ELSE kept[n - 1]
  IN  kept[Len(list)]
=============================================================================
