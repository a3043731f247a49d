------------------------------- MODULE Mining -------------------------------
(***************************************************************************)
(* A miner that works for several groups at once: MineBlocks               *)
(* (core/blockchain.go), the search for a nonce (core/proof_of_work.go),   *)
(* the check of a block's work (types/block.go) and the loop of            *)
(* commands/mining.go.  One proof of work serves a batch of blocks, one    *)
(* block per group: it covers the root of a Merkle tree over their         *)
(* headers, and each block carries the path from its header to the root.   *)
(* Meanwhile other miners append blocks, or replace some by more.          *)
(*                                                                         *)
(* Whether a hash is small enough is a matter of luck: its level is the    *)
(* greatest difficulty it is good for.  What the transactions are does not *)
(* matter here.  A block is known by the chain it ends.                    *)
(***************************************************************************)
EXTENDS Integers, Sequences, FiniteSets, FiniteSetsExt, SequencesExt, Merkle

CONSTANTS
    MaxGroupNum,\* number of groups
    GroupBase,  \* first group of the miner
    BatchSize,  \* number of its groups
    Interval,   \* every how many blocks the difficulty changes (30)
    Spacing,    \* intended time between blocks (30 s)
    Gap,        \* times between blocks
    Level,      \* levels of hashes
    MaxHeight,  \* how high chains grow
    MaxForks    \* how often blocks are replaced

ASSUME MiningAssumption ==
    /\ MaxGroupNum \in Nat \ {0}
    /\ GroupBase \in 0..MaxGroupNum - 1 /\ BatchSize \in 1..MaxGroupNum
    /\ Interval \in Nat \ {0, 1} /\ Spacing \in Nat \ {0}
    /\ Gap \subseteq Nat \ {0} /\ Level \subseteq Nat \ {0}
    /\ MaxHeight \in Nat /\ MaxForks \in Nat

VARIABLES
    chain,      \* chain[g]: sequence of blocks [time, target, level]
    pc,         \* where the miner is
    batch,      \* the blocks it works on
    forks       \* number of replacements

vars == <<chain, pc, batch, forks>>

Group == 0..MaxGroupNum - 1

Height(c) == Len(c) - 1

-----------------------------------------------------------------------------
(* Difficulty *)

\* The difficulty as GetTarget and Verify use it, an integer.  A target is a
\* floating-point number in the code, a fraction <<n, d>> here.
Difficulty(target) == target[1] \div target[2]

\* The target of the block that follows the chain c.  For the first block the code
\* asks for one of negative height, and finds none.
NextTarget(c) ==
    LET lastest == Last(c)
        prev == Height(c) - (Interval - 1)
    IN  IF Height(c) % Interval = 0 /\ prev >= 0
        THEN <<lastest.target[1] * (Interval - 1) * Spacing,
               lastest.target[2] * (lastest.time - c[prev + 1].time)>>
        ELSE lastest.target

-----------------------------------------------------------------------------
(* The batch *)

\* Header of the block that follows chain c: what BlockHeader.Hash covers.
Header(b) == <<b.group, b.prev, b.target, b.time>>

BatchMerkleTree == NewMerkleTree([i \in DOMAIN batch |-> Header(batch[i])])

\* prepareData: what the search hashes.
PoweredStruct == <<Root(BatchMerkleTree), GroupBase, BatchSize>>

\* Mutant: counted without going around the last group.
LeafNumber(b) == b.group - GroupBase

\* The block's number in its batch.
Leaf(b) == (b.group + MaxGroupNum - GroupBase) % MaxGroupNum

\* Block.Hash, but for the nonce.
HashOf(b) ==
    <<Walk(Hash(Header(b)), FindPath(BatchMerkleTree, Leaf(b))), GroupBase, BatchSize>>

\* Mutant: the work was done, so all blocks are good.
VerifyNothing(b, level) == TRUE

\* Block.Verify.
Verify(b, level) == level >= Difficulty(b.target)

-----------------------------------------------------------------------------
(* The miner *)

\* The loop takes coinbases and transactions for all its groups.
Start ==
    /\ pc = "idle"
    /\ \A i \in 0..BatchSize - 1 :
          Height(chain[(GroupBase + i) % MaxGroupNum]) < MaxHeight
    /\ pc' = "build"
    /\ batch' = <<>>
    /\ UNCHANGED <<chain, forks>>

\* Mutant: one block too many.
EnoughOver(n) == n > BatchSize

Enough(n) == n >= BatchSize

\* MineBlocks, first part: the next block of the batch on what is now the last
\* block of its group.
BuildBlock(gap) ==
    LET g == (GroupBase + Len(batch)) % MaxGroupNum
    IN  /\ pc = "build"
        /\ batch' = Append(batch, [group |-> g, prev |-> chain[g],
                                   target |-> NextTarget(chain[g]),
                                   time |-> Last(chain[g]).time + gap, level |-> 0])
        /\ pc' = IF Enough(Len(batch')) THEN "pow" ELSE "build"
        /\ UNCHANGED <<chain, forks>>

\* NewPOW takes the least of the targets; one below 1 is a division by zero, which
\* ends the process.
NewPOW ==
    /\ pc = "pow"
    /\ pc' = IF \E i \in DOMAIN batch : Difficulty(batch[i].target) = 0
             THEN "panicked" ELSE "run"
    /\ UNCHANGED <<chain, batch, forks>>

MinTarget == Min({Difficulty(batch[i].target) : i \in DOMAIN batch})

Changed == \E i \in DOMAIN batch : Height(chain[batch[i].group]) # Height(batch[i].prev)

\* Run gives up when a chain has changed.
BlockchainChange ==
    /\ pc = "run"
    /\ Changed
    /\ pc' = "idle"
    /\ batch' = <<>>
    /\ UNCHANGED <<chain, forks>>

\* MineBlocks, last part: the blocks whose own hash verifies, in their order.
FoundBlocks(all) ==
    LET ok == {i \in DOMAIN all : Verify(all[i], all[i].level)}
    IN  {[k \in DOMAIN order |-> all[order[k]]] :
            order \in {o \in SetToSeqs(ok) : \A i, j \in DOMAIN o : i < j => o[i] < o[j]}}

\* Run: a nonce whose hash has this level is enough for the least target.  A hash
\* that is not the one the search has found has a level of its own, other.
Run(level, other) ==
    LET done(b) == [b EXCEPT !.level = IF HashOf(b) = PoweredStruct THEN level ELSE other]
        all == [i \in DOMAIN batch |-> done(batch[i])]
    IN  /\ pc = "run"
        /\ ~Changed
        /\ level >= MinTarget
        /\ batch' \in FoundBlocks(all)
        /\ pc' = "publish"
        /\ UNCHANGED <<chain, forks>>

Block(b) == [time |-> b.time, target |-> b.target, level |-> b.level]

\* Mutant: the height is enough.
FollowsHeight(b, c) == Height(b.prev) = Height(c)

\* GossipBlock: the next height, and the hash of the last block.
Follows(b, c) == Height(b.prev) = Height(c) /\ b.prev = c

\* CallSelfBlock for one block after the other; one that does not follow changes
\* nothing here (ChainSync shows what it may start).
CallSelfBlock ==
    /\ pc = "publish"
    /\ IF batch = <<>>
       THEN pc' = "idle" /\ UNCHANGED <<chain, batch>>
       ELSE LET b == Head(batch)
            IN  /\ chain' = IF Follows(b, chain[b.group])
                            THEN [chain EXCEPT ![b.group] = Append(@, Block(b))]
                            ELSE chain
                /\ batch' = Tail(batch)
                /\ UNCHANGED pc
    /\ UNCHANGED forks

-----------------------------------------------------------------------------
(* Other miners *)

\* Their blocks keep to the same rules.
Extended(c, gap) ==
    Append(c, [time |-> Last(c).time + gap, target |-> NextTarget(c),
               level |-> Difficulty(NextTarget(c))])

OtherBlock(g, gap) ==
    /\ Height(chain[g]) < MaxHeight
    /\ Difficulty(NextTarget(chain[g])) > 0
    /\ chain' = [chain EXCEPT ![g] = Extended(@, gap)]
    /\ UNCHANGED <<pc, batch, forks>>

\* A synchronisation takes the last block back.  It appends the two others one by
\* one: OtherBlock follows, and may for a while leave a chain as high as before.
Fork(g) ==
    /\ forks < MaxForks
    /\ Height(chain[g]) > 0
    /\ chain' = [chain EXCEPT ![g] = Front(@)]
    /\ forks' = forks + 1
    /\ UNCHANGED <<pc, batch>>

Init ==
    /\ chain = [g \in Group |-> <<[time |-> 0, target |-> <<1, 1>>, level |-> 1]>>]
    /\ pc = "idle"
    /\ batch = <<>>
    /\ forks = 0

Mine == {(GroupBase + i) % MaxGroupNum : i \in 0..BatchSize - 1}

Next ==
    \/ Start
    \/ \E gap \in Gap : BuildBlock(gap)
    \/ NewPOW
    \/ BlockchainChange
    \/ \E level, other \in Level : Run(level, other)
    \/ CallSelfBlock
    \/ \E g \in Mine, gap \in Gap : OtherBlock(g, gap)
    \/ \E g \in Mine : Fork(g)

Spec == Init /\ [][Next]_vars

-----------------------------------------------------------------------------
(* Properties *)

\* A block of a chain: a target is a fraction of natural numbers.
BlockType == [time : Nat, target : Nat \X (Nat \ {0}), level : Nat]

\* Chains and batches hold blocks with proper targets, and no more blocks are in
\* work than the miner has groups.
TypeOK ==
    /\ chain \in [Group -> Seq(BlockType)]
    /\ pc \in {"idle", "build", "pow", "run", "publish", "panicked"}
    /\ batch \in Seq([group : Group, prev : Seq(BlockType),
                      target : Nat \X (Nat \ {0}), time : Nat, level : Nat])
    /\ Len(batch) <= BatchSize
    /\ forks \in 0..MaxForks

\* The hash that the search tries is the hash of every block of the batch: header,
\* tree, path and the way along the path fit together, also where the groups go
\* around the last one.  (Checked for two blocks; for three and more FindPath
\* errs.)
SharedWork ==
    pc = "run" => \A i \in DOMAIN batch : HashOf(batch[i]) = PoweredStruct

\* The difficulty is that of the chain: every block has the target that the blocks
\* before it prescribe, although it was worked out when the miner began and the
\* chain may have been replaced by another one of the same height since.
TargetFollows ==
    \A g \in Group : \A i \in 2..Len(chain[g]) :
        chain[g][i].target = NextTarget(SubSeq(chain[g], 1, i - 1))

\* Every block in a chain has the work of its own difficulty, although the search
\* stops at the least one of its batch.
WorkDone ==
    \A g \in Group : \A i \in DOMAIN chain[g] :
        chain[g][i].level >= Difficulty(chain[g][i].target)

=============================================================================
