---------------------------- MODULE LongestChain ----------------------------
(***************************************************************************)
(* What a node promises about the chain it has committed to: it may start  *)
(* without one, it takes the genesis block first, and from then on it only *)
(* ever replaces its chain by a strictly higher one.                       *)
(***************************************************************************)
EXTENDS BlockTree

VARIABLE tip    \* the block the node has committed to, or Nil

Init == tip \in Block \cup {Nil}

Bootstrap ==
    /\ tip = Nil
    /\ tip' = Genesis

Adopt(b) ==
    /\ tip # Nil
    /\ Height(b) > Height(tip)
    /\ tip' = b

Next == Bootstrap \/ \E b \in Block : Adopt(b)

Spec == Init /\ [][Next]_tip

=============================================================================
