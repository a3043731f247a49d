----------------------------- MODULE BlockTree -----------------------------
(***************************************************************************)
(* The blocks of one group.  A block carries its height and the hash of    *)
(* its predecessor, and its own hash covers both (types/block.go), so a    *)
(* block commits to everything below it.  A block is therefore its path:   *)
(* the sequence of labels from the first block above genesis up to itself. *)
(* Two blocks have equal hashes exactly when they are the same sequence,   *)
(* which is the usual reading of a collision-free hash.                    *)
(***************************************************************************)
EXTENDS Integers, Sequences

CONSTANTS
    Label,      \* what tells sibling blocks apart (miner, time, content)
    Block,      \* the blocks that are ever mined in this group
    MaxHeight,  \* no block is higher than this
    Nil         \* a nil *types.Block

\* Every ancestor of a block is a block, and none is Nil.
ASSUME BlockAssumption ==
    /\ MaxHeight \in Nat
    /\ Block \subseteq Seq(Label)
    /\ <<>> \in Block
    /\ Nil \notin Block
    /\ \A b \in Block : Len(b) <= MaxHeight
    /\ \A b \in Block : \A h \in 0..Len(b) : SubSeq(b, 1, h) \in Block

Genesis == <<>>

Height(b) == Len(b)

\* The ancestor of b at height h (b itself at its own height).
At(b, h) == SubSeq(b, 1, h)

PrevHash(b) == At(b, Height(b) - 1)

\* The main chain that ends in b.
ChainOf(b) == {At(b, h) : h \in 0..Height(b)}

=============================================================================
