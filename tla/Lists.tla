------------------------------- MODULE Lists -------------------------------
(***************************************************************************)
(* What a loop over a list that erases, or picks, some of its elements     *)
(* makes of it.  It is SelectSeq with a set for the test, written as a     *)
(* recursive function: the provers know nothing of SelectSeq.              *)
(***************************************************************************)
EXTENDS Integers, Sequences

\* those of the list that are in S, in their order
Chosen(list, S) ==
    LET kept[n \in 0..Len(list)] ==
            IF n = 0 THEN <<>>
            ELSE IF list[n] \in S THEN Append(kept[n - 1], list[n]) ELSE kept[n - 1]
    IN  kept[Len(list)]

=============================================================================
