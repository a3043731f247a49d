------------------------------- MODULE Window -------------------------------
(***************************************************************************)
(* What KnownNodes keeps of a node's reaction times: the last few of them, *)
(* oldest first.                                                           *)
(***************************************************************************)
EXTENDS Integers, Sequences

CONSTANTS Size, Time

VARIABLE last

\* At most n elements, from the end.
LastOf(s, n) == SubSeq(s, IF Len(s) > n THEN Len(s) - n + 1 ELSE 1, Len(s))

Init == last = <<>>

Measure(t) == last' = LastOf(Append(last, t), Size)

Next == \E t \in Time : Measure(t)

Spec == Init /\ [][Next]_last

=============================================================================
