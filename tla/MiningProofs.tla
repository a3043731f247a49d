---------------------------- MODULE MiningProofs ----------------------------
(***************************************************************************)
(* Difficulty and work of every block in a chain, for any number of        *)
(* groups, size of the batch, interval and times between blocks.  A block  *)
(* is judged by the chain it was made for, so the invariant speaks of the  *)
(* chains that the blocks in work follow as well: each is a good chain,    *)
(* and the block's target is the one that it prescribes.  That times grow  *)
(* along a chain is what keeps the divisor of a new target from being 0.   *)
(*                                                                         *)
(* And one proof of work for the blocks of two groups: a block's number in *)
(* the batch, counted around the last group, is its place, and the paths   *)
(* of a tree with one or two leaves lead to the root.                      *)
(***************************************************************************)
EXTENDS Mining, FiniteSetTheorems, SequenceTheorems, TLAPS

Target == Nat \X (Nat \ {0})

Item == [group : Group, prev : Seq(BlockType), target : Target, time : Nat, level : Nat]

\* A chain in which every block has grown from those before it.
GoodChain(c) ==
    /\ c \in Seq(BlockType) /\ c # <<>>
    /\ \A i, j \in DOMAIN c : i < j => c[i].time < c[j].time
    /\ \A i \in 2..Len(c) : c[i].target = NextTarget(SubSeq(c, 1, i - 1))
    /\ \A i \in DOMAIN c : c[i].level >= Difficulty(c[i].target)

\* A block in work: what it was made for, and from when on its work is done.
GoodItem(b) ==
    /\ GoodChain(b.prev)
    /\ b.target = NextTarget(b.prev)
    /\ b.time > Last(b.prev).time

IInv ==
    /\ TypeOK
    /\ \A g \in Group : GoodChain(chain[g])
    /\ \A i \in DOMAIN batch : GoodItem(batch[i])
    /\ pc = "build" => Len(batch) < BatchSize
    /\ pc = "publish" =>
          \A i \in DOMAIN batch : batch[i].level >= Difficulty(batch[i].target)

-----------------------------------------------------------------------------
(* Difficulty *)

LEMMA Positive ==
    /\ \A a, b \in Nat : a * b \in Nat
    /\ \A a, b \in Nat \ {0} : a * b \in Nat \ {0}
    /\ \A a \in Nat, b \in Nat \ {0} : a \div b \in Nat
OBVIOUS

LEMMA DifficultyType == \A t \in Target : Difficulty(t) \in Nat
BY Positive DEF Target, Difficulty

\* The last block of a chain.
LEMMA LastFacts ==
    ASSUME NEW c \in Seq(BlockType), c # <<>>
    PROVE  /\ Len(c) \in Nat \ {0} /\ Len(c) \in DOMAIN c
           /\ Last(c) = c[Len(c)] /\ Last(c) \in BlockType
           /\ Last(c).time \in Nat /\ Last(c).target \in Target
<1>1. Len(c) \in Nat \ {0} /\ Len(c) \in DOMAIN c /\ Last(c) = c[Len(c)] /\ c[Len(c)] \in BlockType
  BY DEF Last
<1> QED BY <1>1 DEF BlockType, Target

\* The target of the next block is a fraction: the interval ends with a later time
\* than it began.
LEMMA NextTargetType == ASSUME NEW c, GoodChain(c) PROVE NextTarget(c) \in Target
<1>0. Interval \in Nat \ {0, 1} /\ Spacing \in Nat \ {0}
  BY MiningAssumption
<1>1. c \in Seq(BlockType) /\ c # <<>>
  BY DEF GoodChain
<1>2. /\ Len(c) \in Nat \ {0} /\ Len(c) \in DOMAIN c /\ Last(c) = c[Len(c)]
      /\ Last(c).time \in Nat /\ Last(c).target \in Target
  BY <1>1, LastFacts
<1> DEFINE prev == Height(c) - (Interval - 1)
<1>3. CASE Height(c) % Interval = 0 /\ prev >= 0
  <2>1. prev + 1 \in DOMAIN c /\ prev + 1 < Len(c)
    BY <1>0, <1>1, <1>2, <1>3 DEF Height
  <2>2. c[prev + 1] \in BlockType
    BY <1>1, <2>1
  <2>3. c[prev + 1].time \in Nat /\ c[prev + 1].time < Last(c).time
    BY <1>2, <2>1, <2>2 DEF GoodChain, BlockType
  <2> HIDE DEF prev
  <2>4. Last(c).target[1] \in Nat /\ Last(c).target[2] \in Nat \ {0}
    BY <1>2 DEF Target
  <2>5. Interval - 1 \in Nat /\ Last(c).time - c[prev + 1].time \in Nat \ {0}
    BY <1>0, <1>2, <2>3
  <2>6. /\ Last(c).target[1] * (Interval - 1) * Spacing \in Nat
        /\ Last(c).target[2] * (Last(c).time - c[prev + 1].time) \in Nat \ {0}
    BY <1>0, <2>4, <2>5, Positive
  <2>7. NextTarget(c) = <<Last(c).target[1] * (Interval - 1) * Spacing,
                          Last(c).target[2] * (Last(c).time - c[prev + 1].time)>>
    BY <1>3 DEF NextTarget, prev
  <2> QED BY <2>6, <2>7 DEF Target
<1>4. CASE ~(Height(c) % Interval = 0 /\ prev >= 0)
  <2>1. NextTarget(c) = Last(c).target
    BY <1>4 DEF NextTarget
  <2> QED BY <1>2, <2>1
<1> QED BY <1>3, <1>4

-----------------------------------------------------------------------------
(* Chains *)

\* An initial part of a sequence, as a function.
LEMMA Initial ==
    ASSUME NEW c \in Seq(BlockType), NEW i \in Nat, i <= Len(c)
    PROVE  /\ SubSeq(c, 1, i) = [k \in 1..i |-> c[k]]
           /\ SubSeq(c, 1, i) \in Seq(BlockType) /\ Len(SubSeq(c, 1, i)) = i
<1> DEFINE d == SubSeq(c, 1, i)
<1>1. d \in Seq(BlockType) /\ Len(d) = i /\ \A k \in 1..i : d[k] = c[k]
  BY SubSeqProperties
<1>2. d = [k \in 1..Len(d) |-> d[k]]
  BY <1>1
<1> HIDE DEF d
<1>3. d = [k \in 1..i |-> c[k]]
  BY <1>1, <1>2
<1> QED BY <1>1, <1>3 DEF d

\* A new block on a good chain, with the target the chain prescribes and the work
\* of that target, gives a good chain.
LEMMA AppendGood ==
    ASSUME NEW c, GoodChain(c), NEW b \in BlockType, b.time > Last(c).time,
           b.target = NextTarget(c), b.level >= Difficulty(b.target)
    PROVE  GoodChain(Append(c, b))
<1> DEFINE d == Append(c, b)
           n == Len(c)
<1>1. c \in Seq(BlockType) /\ c # <<>> /\ n \in Nat \ {0} /\ Last(c) = c[n] /\ n \in DOMAIN c
  BY LastFacts DEF GoodChain
<1>2. d \in Seq(BlockType) /\ d # <<>> /\ Len(d) = n + 1 /\ d[n + 1] = b
      /\ DOMAIN d = 1..n + 1 /\ DOMAIN c = 1..n /\ \A i \in 1..n : d[i] = c[i]
  BY <1>1
<1>3. \A i \in 0..n : SubSeq(d, 1, i) = SubSeq(c, 1, i)
  <2> SUFFICES ASSUME NEW i \in 0..n PROVE SubSeq(d, 1, i) = SubSeq(c, 1, i)
    OBVIOUS
  <2> HIDE DEF d, n
  <2>1. Len(d) \in Nat /\ i <= Len(d) /\ Len(c) = n /\ i \in Nat /\ i <= n
    BY <1>1, <1>2 DEF n
  <2>2. /\ SubSeq(d, 1, i) = [k \in 1..i |-> d[k]]
        /\ SubSeq(c, 1, i) = [k \in 1..i |-> c[k]]
    BY <1>1, <1>2, <2>1, Initial
  <2>3. \A k \in 1..i : d[k] = c[k]
    BY <1>1, <1>2, <2>1
  <2> QED BY <2>2, <2>3
<1>4. SubSeq(c, 1, n) = c
  BY <1>1, SubSeqFull
<1> HIDE DEF d, n
<1>5. \A i \in DOMAIN c : c[i] \in BlockType /\ c[i].time \in Nat
  <2>1. \A i \in DOMAIN c : c[i] \in BlockType
    BY <1>1
  <2> QED BY <2>1 DEF BlockType
<1>6. ASSUME NEW i \in DOMAIN d, NEW j \in DOMAIN d, i < j
      PROVE  d[i].time < d[j].time
  <2>1. i \in 1..n
    BY <1>1, <1>2, <1>6
  <2>2. CASE j = n + 1
    <3>1. c[i].time <= c[n].time
      BY <1>1, <1>2, <1>5, <2>1 DEF GoodChain
    <3>2. b.time \in Nat
      BY DEF BlockType
    <3> QED BY <1>1, <1>2, <1>5, <2>1, <2>2, <3>1, <3>2
  <2>3. CASE j \in 1..n
    BY <1>2, <1>6, <2>1, <2>3 DEF GoodChain
  <2> QED BY <1>1, <1>2, <2>2, <2>3
<1>7. ASSUME NEW i \in 2..Len(d)
      PROVE  d[i].target = NextTarget(SubSeq(d, 1, i - 1))
  <2>1. CASE i = n + 1
    <3>1. SubSeq(d, 1, i - 1) = c
      BY <1>1, <1>3, <1>4, <2>1
    <3> QED BY <1>2, <2>1, <3>1
  <2>2. CASE i \in 2..n
    <3>1. SubSeq(d, 1, i - 1) = SubSeq(c, 1, i - 1)
      BY <1>1, <1>3, <2>2
    <3>2. d[i] = c[i] /\ c[i].target = NextTarget(SubSeq(c, 1, i - 1))
      BY <1>1, <1>2, <2>2 DEF GoodChain, n
    <3> QED BY <3>1, <3>2
  <2> QED BY <1>1, <1>2, <2>1, <2>2
<1>8. ASSUME NEW i \in DOMAIN d
      PROVE  d[i].level >= Difficulty(d[i].target)
  <2>1. CASE i = n + 1
    BY <1>2, <2>1
  <2>2. CASE i \in 1..n
    BY <1>2, <2>2 DEF GoodChain
  <2> QED BY <1>1, <1>2, <2>1, <2>2
<1>9. GoodChain(d)
  BY <1>2, <1>6, <1>7, <1>8 DEF GoodChain
<1> QED BY <1>9 DEF d

\* What a reorganisation leaves of a good chain is a good chain.
LEMMA FrontGood ==
    ASSUME NEW c, GoodChain(c), Height(c) > 0
    PROVE  GoodChain(Front(c))
<1> DEFINE d == SubSeq(c, 1, Len(c) - 1)
           n == Len(c)
<1>1. c \in Seq(BlockType) /\ n = Len(c) /\ n \in Nat /\ n > 1 /\ DOMAIN c = 1..n
  BY LastFacts DEF GoodChain, Height
<1>2. d \in Seq(BlockType) /\ Len(d) = n - 1 /\ d # <<>> /\ DOMAIN d = 1..n - 1
      /\ \A i \in 1..n - 1 : d[i] = c[i]
  <2>1. n - 1 \in Nat \ {0} /\ \A i \in 1..n - 1 : c[i] \in BlockType
    <3> HIDE DEF n
    <3>1. n - 1 \in Nat \ {0} /\ \A i \in 1..n - 1 : i \in DOMAIN c
      BY <1>1
    <3>2. \A i \in DOMAIN c : c[i] \in BlockType
      BY <1>1
    <3> QED BY <3>1, <3>2
  <2>2. /\ d \in Seq(BlockType) /\ Len(d) = n - 1
        /\ d = [k \in 1..n - 1 |-> c[k]]
    BY <1>1, <2>1, Initial
  <2> HIDE DEF d, n
  <2> QED BY <2>1, <2>2
<1>3. \A i \in 0..n - 1 : SubSeq(d, 1, i) = SubSeq(c, 1, i)
  <2> SUFFICES ASSUME NEW i \in 0..n - 1 PROVE SubSeq(d, 1, i) = SubSeq(c, 1, i)
    OBVIOUS
  <2> HIDE DEF d, n
  <2>1. Len(d) \in Nat /\ i <= Len(d) /\ Len(c) = n /\ i \in Nat /\ i <= n
    BY <1>1, <1>2 DEF n
  <2>2. /\ SubSeq(d, 1, i) = [k \in 1..i |-> d[k]]
        /\ SubSeq(c, 1, i) = [k \in 1..i |-> c[k]]
    BY <1>1, <1>2, <2>1, Initial
  <2>3. \A k \in 1..i : d[k] = c[k]
    BY <1>1, <1>2, <2>1
  <2> QED BY <2>2, <2>3
<1>4. ASSUME NEW i \in 2..n - 1
      PROVE  d[i].target = NextTarget(SubSeq(d, 1, i - 1))
  <2>1. i - 1 \in 0..n - 1 /\ i \in 1..n - 1 /\ i \in 2..Len(c)
    BY <1>1
  <2> QED BY <1>2, <1>3, <2>1 DEF GoodChain
<1> HIDE DEF d, n
<1>5. \A i, j \in DOMAIN d : i < j => d[i].time < d[j].time
  BY <1>1, <1>2 DEF GoodChain
<1>6. \A i \in DOMAIN d : d[i].level >= Difficulty(d[i].target)
  BY <1>1, <1>2 DEF GoodChain
<1>7. GoodChain(d)
  BY <1>2, <1>4, <1>5, <1>6 DEF GoodChain
<1> QED BY <1>7 DEF d, Front

-----------------------------------------------------------------------------
(* Steps *)

LEMMA InitIInv == Init => IInv
<1> SUFFICES ASSUME Init PROVE IInv
  OBVIOUS
<1> DEFINE b == [time |-> 0, target |-> <<1, 1>>, level |-> 1]
<1>1. b \in BlockType /\ b.level >= Difficulty(b.target)
  BY DEF BlockType, Difficulty
<1> HIDE DEF b
<1>2. <<b>> \in Seq(BlockType) /\ <<b>> # <<>> /\ DOMAIN <<b>> = 1..1 /\ <<b>>[1] = b /\ Len(<<b>>) = 1
  BY <1>1
<1>3. GoodChain(<<b>>)
  BY <1>1, <1>2 DEF GoodChain
<1>4. chain = [g \in Group |-> <<b>>] /\ batch = <<>> /\ pc = "idle" /\ forks = 0
  BY DEF Init, b
<1>5. 0 <= BatchSize /\ 0 \in 0..MaxForks
  BY MiningAssumption
<1>6. TypeOK
  BY <1>2, <1>4, <1>5 DEF TypeOK
<1> QED BY <1>3, <1>4, <1>6 DEF IInv

\* The types, in the words of this module.
LEMMA Types ==
    ASSUME TypeOK
    PROVE  /\ batch \in Seq(Item) /\ Len(batch) \in Nat /\ Len(batch) <= BatchSize
           /\ chain \in [Group -> Seq(BlockType)]
           /\ MaxGroupNum \in Nat \ {0} /\ BatchSize \in Nat \ {0}
           /\ GroupBase \in Nat /\ MaxForks \in Nat /\ forks \in 0..MaxForks
BY MiningAssumption DEF TypeOK, Item, Target

LEMMA BuildBlockStep == ASSUME IInv, NEW gap \in Gap, BuildBlock(gap) PROVE IInv'
<1> DEFINE g == (GroupBase + Len(batch)) % MaxGroupNum
           r == [group |-> g, prev |-> chain[g], target |-> NextTarget(chain[g]),
                 time |-> Last(chain[g]).time + gap, level |-> 0]
<1>1. /\ pc = "build" /\ batch' = Append(batch, r) /\ chain' = chain /\ forks' = forks
      /\ pc' = IF Enough(Len(batch')) THEN "pow" ELSE "build"
  BY DEF BuildBlock
<1>2. TypeOK /\ Len(batch) < BatchSize
  BY <1>1 DEF IInv
<1>3. gap \in Nat \ {0}
  BY MiningAssumption
<1>4. g \in Group
  BY <1>2, Types DEF Group
<1> HIDE DEF g
<1>5. GoodChain(chain[g]) /\ chain[g] \in Seq(BlockType) /\ chain[g] # <<>>
  BY <1>4 DEF IInv, GoodChain
<1>6. Last(chain[g]).time \in Nat /\ NextTarget(chain[g]) \in Target
  BY <1>5, LastFacts, NextTargetType
<1>7. r \in Item
  BY <1>3, <1>4, <1>5, <1>6 DEF Item
<1>8. r.prev = chain[g] /\ r.target = NextTarget(chain[g]) /\ r.time = Last(chain[g]).time + gap
  OBVIOUS
<1>9. GoodItem(r)
  BY <1>3, <1>5, <1>6, <1>8 DEF GoodItem
<1> HIDE DEF r
<1>10. /\ batch' \in Seq(Item) /\ Len(batch') = Len(batch) + 1 /\ Len(batch') <= BatchSize
       /\ \A i \in DOMAIN batch' : batch'[i] = r \/ (i \in DOMAIN batch /\ batch'[i] = batch[i])
  BY <1>1, <1>2, <1>7, Types
<1>11. pc' = "build" => Len(batch') < BatchSize
  BY <1>1, <1>2, <1>10, Types DEF Enough
<1>12. TypeOK'
  BY <1>1, <1>2, <1>10 DEF TypeOK, Item, Target
<1>13. \A i \in DOMAIN batch' : GoodItem(batch'[i])
  BY <1>9, <1>10 DEF IInv
<1> QED BY <1>1, <1>11, <1>12, <1>13 DEF IInv

\* One block of the batch with the level of its own hash.
LEMMA RunStep == ASSUME IInv, NEW level \in Level, NEW other \in Level, Run(level, other) PROVE IInv'
<1> DEFINE done(b) == [b EXCEPT !.level = IF HashOf(b) = PoweredStruct THEN level ELSE other]
           all == [i \in DOMAIN batch |-> done(batch[i])]
           ok == {i \in DOMAIN all : Verify(all[i], all[i].level)}
<1>1. /\ batch' \in FoundBlocks(all) /\ pc' = "publish"
      /\ chain' = chain /\ forks' = forks
  BY DEF Run
<1>2. TypeOK /\ level \in Nat /\ other \in Nat
  BY MiningAssumption DEF IInv
<1>3. ASSUME NEW i \in DOMAIN batch
      PROVE  all[i] \in Item /\ GoodItem(all[i])
  <2>1. batch[i] \in Item /\ GoodItem(batch[i])
    BY <1>2, Types DEF IInv
  <2> DEFINE l == IF HashOf(batch[i]) = PoweredStruct THEN level ELSE other
  <2>2. l \in Nat /\ all[i] = [batch[i] EXCEPT !.level = l]
    BY <1>2
  <2> HIDE DEF l, all
  <2>3. /\ all[i] \in Item /\ all[i].prev = batch[i].prev
        /\ all[i].target = batch[i].target /\ all[i].time = batch[i].time
    BY <2>1, <2>2 DEF Item
  <2> QED BY <2>1, <2>3 DEF GoodItem
<1>4. DOMAIN all = DOMAIN batch /\ DOMAIN batch = 1..Len(batch)
  BY <1>2, Types
<1>5. PICK order \in SetToSeqs(ok) : batch' = [k \in DOMAIN order |-> all[order[k]]]
  BY <1>1 DEF FoundBlocks
<1> HIDE DEF all
<1>6. IsFiniteSet(ok) /\ Cardinality(ok) \in Nat /\ Cardinality(ok) <= Len(batch)
  <2>1. IsFiniteSet(1..Len(batch)) /\ Cardinality(1..Len(batch)) = Len(batch)
    <3>1. Len(batch) \in Nat /\ 1 \in Int /\ Len(batch) \in Int /\ Len(batch) - 1 + 1 = Len(batch)
      BY <1>2, Types
    <3>2. Cardinality(1..Len(batch)) = IF 1 > Len(batch) THEN 0 ELSE Len(batch) - 1 + 1
      BY <3>1, FS_Interval, Zenon
    <3>3. IsFiniteSet(1..Len(batch))
      BY <3>1, FS_Interval, Zenon
    <3> QED BY <3>1, <3>2, <3>3
  <2>2. ok \subseteq 1..Len(batch)
    BY <1>4
  <2> QED BY <2>1, <2>2, FS_Subset, FS_CardinalityType
<1>7. order \in [1..Cardinality(ok) -> ok]
  BY <1>5 DEF SetToSeqs
<1>8. /\ DOMAIN batch' = 1..Cardinality(ok)
      /\ \A k \in DOMAIN batch' : order[k] \in ok /\ batch'[k] = all[order[k]]
  BY <1>5, <1>7
<1>9. \A k \in DOMAIN batch' : /\ batch'[k] \in Item /\ GoodItem(batch'[k])
                               /\ batch'[k].level >= Difficulty(batch'[k].target)
  BY <1>3, <1>4, <1>8 DEF Verify
<1>10. batch' \in Seq(Item) /\ Len(batch') = Cardinality(ok)
  <2>1. batch' = [k \in 1..Cardinality(ok) |-> all[order[k]]]
    BY <1>5, <1>7
  <2>2. \A k \in 1..Cardinality(ok) : all[order[k]] \in Item
    BY <1>8, <1>9
  <2> HIDE DEF ok
  <2> QED BY <1>6, <2>1, <2>2
<1>11. Len(batch') <= BatchSize
  BY <1>2, <1>6, <1>10, Types
<1>12. TypeOK'
  BY <1>1, <1>2, <1>10, <1>11 DEF TypeOK, Item, Target
<1> QED BY <1>1, <1>9, <1>12 DEF IInv

LEMMA CallSelfBlockStep == ASSUME IInv, CallSelfBlock PROVE IInv'
<1>1. TypeOK /\ pc = "publish" /\ forks' = forks
  BY DEF IInv, CallSelfBlock
<1>2. CASE batch = <<>>
  <2>1. pc' = "idle" /\ chain' = chain /\ batch' = batch
    BY <1>2 DEF CallSelfBlock
  <2> QED BY <1>1, <2>1 DEF IInv, TypeOK
<1>3. CASE batch # <<>>
  <2> DEFINE b == Head(batch)
  <2>1. /\ batch' = Tail(batch) /\ pc' = pc
        /\ chain' = IF Follows(b, chain[b.group])
                    THEN [chain EXCEPT ![b.group] = Append(@, Block(b))] ELSE chain
    BY <1>3 DEF CallSelfBlock
  <2>2. b = batch[1] /\ 1 \in DOMAIN batch /\ b \in Item
    BY <1>1, <1>3, Types
  <2>3. /\ batch' \in Seq(Item) /\ Len(batch') <= BatchSize
        /\ \A i \in DOMAIN batch' : i + 1 \in DOMAIN batch /\ batch'[i] = batch[i + 1]
    BY <1>1, <1>3, <2>1, Types
  <2>4. GoodItem(b) /\ b.level >= Difficulty(b.target)
    BY <1>1, <2>2 DEF IInv
  <2> HIDE DEF b
  <2>5. b.group \in Group /\ Block(b) \in BlockType
        /\ Block(b).time = b.time /\ Block(b).target = b.target /\ Block(b).level = b.level
    BY <2>2 DEF Block, BlockType, Item, Target
  <2>6. Follows(b, chain[b.group]) => GoodChain(Append(chain[b.group], Block(b)))
    BY <2>4, <2>5, AppendGood DEF Follows, GoodItem
  <2>7. \A g \in Group : GoodChain(chain'[g])
    <3> SUFFICES ASSUME NEW g \in Group PROVE GoodChain(chain'[g])
      OBVIOUS
    <3>1. chain'[g] = chain[g] \/ (g = b.group /\ Follows(b, chain[b.group])
                                   /\ chain'[g] = Append(chain[b.group], Block(b)))
      BY <1>1, <2>1, <2>5, Types
    <3> QED BY <2>6, <3>1 DEF IInv
  <2>8. chain' \in [Group -> Seq(BlockType)]
    <3>1. Follows(b, chain[b.group]) => Append(chain[b.group], Block(b)) \in Seq(BlockType)
      BY <2>6 DEF GoodChain
    <3> QED BY <1>1, <2>1, <3>1, Types
  <2>9. TypeOK'
    BY <1>1, <2>1, <2>3, <2>8 DEF TypeOK, Item, Target
  <2>10. \A i \in DOMAIN batch' : /\ GoodItem(batch'[i])
                                  /\ batch'[i].level >= Difficulty(batch'[i].target)
    BY <1>1, <2>3 DEF IInv
  <2> QED BY <1>1, <2>1, <2>7, <2>9, <2>10 DEF IInv
<1> QED BY <1>2, <1>3

LEMMA OtherBlockStep ==
    ASSUME IInv, NEW g \in Group, NEW gap \in Gap, OtherBlock(g, gap) PROVE IInv'
<1> DEFINE c == chain[g]
           b == [time |-> Last(c).time + gap, target |-> NextTarget(c),
                 level |-> Difficulty(NextTarget(c))]
<1>1. /\ chain' = [chain EXCEPT ![g] = Append(c, b)]
      /\ pc' = pc /\ batch' = batch /\ forks' = forks
  BY DEF OtherBlock, Extended
<1>2. TypeOK /\ GoodChain(c) /\ c \in Seq(BlockType) /\ c # <<>> /\ gap \in Nat \ {0}
  BY MiningAssumption DEF IInv, GoodChain
<1> HIDE DEF c
<1>3. Last(c).time \in Nat /\ NextTarget(c) \in Target /\ Difficulty(NextTarget(c)) \in Nat
  BY <1>2, LastFacts, NextTargetType, DifficultyType
<1>4. b \in BlockType /\ b.time > Last(c).time /\ b.target = NextTarget(c)
      /\ b.level >= Difficulty(b.target)
  <2>1. /\ b.time = Last(c).time + gap /\ b.target = NextTarget(c)
        /\ b.level = Difficulty(NextTarget(c))
    OBVIOUS
  <2>2. b \in BlockType
    BY <1>2, <1>3 DEF BlockType, Target
  <2> HIDE DEF b
  <2> QED BY <1>2, <1>3, <2>1, <2>2
<1> HIDE DEF b
<1>5. GoodChain(Append(c, b)) /\ Append(c, b) \in Seq(BlockType)
  BY <1>2, <1>4, AppendGood
<1>6. chain' \in [Group -> Seq(BlockType)] /\ \A h \in Group : GoodChain(chain'[h])
  BY <1>1, <1>2, <1>5, Types DEF IInv
<1>7. TypeOK'
  BY <1>1, <1>2, <1>6 DEF TypeOK
<1> QED BY <1>1, <1>6, <1>7 DEF IInv

LEMMA ForkStep == ASSUME IInv, NEW g \in Group, Fork(g) PROVE IInv'
<1>1. /\ chain' = [chain EXCEPT ![g] = Front(chain[g])] /\ Height(chain[g]) > 0
      /\ pc' = pc /\ batch' = batch /\ forks' = forks + 1 /\ forks < MaxForks
  BY DEF Fork
<1>2. TypeOK /\ GoodChain(chain[g])
  BY DEF IInv
<1>3. GoodChain(Front(chain[g])) /\ Front(chain[g]) \in Seq(BlockType)
  <2>1. GoodChain(Front(chain[g]))
    BY <1>1, <1>2, FrontGood
  <2> QED BY <2>1 DEF GoodChain
<1>4. chain' \in [Group -> Seq(BlockType)] /\ \A h \in Group : GoodChain(chain'[h])
  BY <1>1, <1>2, <1>3, Types DEF IInv
<1>5. forks' \in 0..MaxForks
  BY <1>1, <1>2, Types
<1>6. TypeOK'
  BY <1>1, <1>2, <1>4, <1>5 DEF TypeOK
<1> QED BY <1>1, <1>4, <1>6 DEF IInv

LEMMA MineInGroup == Mine \subseteq Group
<1> SUFFICES ASSUME NEW i \in 0..BatchSize - 1 PROVE (GroupBase + i) % MaxGroupNum \in Group
  BY DEF Mine
<1>1. MaxGroupNum \in Nat \ {0} /\ GroupBase \in Nat /\ i \in Nat
  BY MiningAssumption
<1> QED BY <1>1 DEF Group

LEMMA NextIInv == IInv /\ [Next]_vars => IInv'
<1> SUFFICES ASSUME IInv, [Next]_vars PROVE IInv'
  OBVIOUS
<1>0. TypeOK /\ BatchSize \in Nat \ {0}
  BY Types DEF IInv
<1>1. CASE Start
  BY <1>0, <1>1 DEF Start, IInv, TypeOK
<1>2. CASE \E gap \in Gap : BuildBlock(gap)
  BY <1>2, BuildBlockStep
<1>3. CASE NewPOW
  BY <1>0, <1>3 DEF NewPOW, IInv, TypeOK
<1>4. CASE BlockchainChange
  BY <1>0, <1>4 DEF BlockchainChange, IInv, TypeOK
<1>5. CASE \E level, other \in Level : Run(level, other)
  BY <1>5, RunStep
<1>6. CASE CallSelfBlock
  BY <1>6, CallSelfBlockStep
<1>7. CASE \E g \in Mine, gap \in Gap : OtherBlock(g, gap)
  BY <1>7, MineInGroup, OtherBlockStep
<1>8. CASE \E g \in Mine : Fork(g)
  BY <1>8, MineInGroup, ForkStep
<1>9. CASE UNCHANGED vars
  BY <1>9 DEF vars, IInv, TypeOK
<1> QED BY <1>1, <1>2, <1>3, <1>4, <1>5, <1>6, <1>7, <1>8, <1>9 DEF Next

-----------------------------------------------------------------------------
(* Theorems *)

\* The chains grow from good blocks on good blocks, and so do the blocks in work.
THEOREM Invariance == Spec => []IInv
<1>1. Init => IInv
  BY InitIInv
<1>2. IInv /\ [Next]_vars => IInv'
  BY NextIInv
<1> QED BY <1>1, <1>2, PTL DEF Spec

\* Blocks, targets and batches have their types: no target divides by 0, and a batch
\* never has more blocks than MineBlocks has groups.
THEOREM TypeCorrect == Spec => []TypeOK
<1>1. IInv => TypeOK
  BY DEF IInv
<1> QED BY <1>1, Invariance, PTL

\* Every block of a chain has the target that MineBlocks works out from the
\* blocks before it, whatever chains did while the miner searched.
THEOREM AlwaysTargetFollows == Spec => []TargetFollows
<1>1. IInv => TargetFollows
  BY DEF IInv, TargetFollows, GoodChain
<1> QED BY <1>1, Invariance, PTL

\* Every block of a chain has the work of its own difficulty: MineBlocks hands on
\* only the blocks of its batch that verify.
THEOREM AlwaysWorkDone == Spec => []WorkDone
<1>1. IInv => WorkDone
  BY DEF IInv, WorkDone, GoodChain
<1> QED BY <1>1, Invariance, PTL

-----------------------------------------------------------------------------
(* One proof of work for two blocks *)

\* The recursive functions of Merkle, a few steps deep.
LEMMA TreeOne == ASSUME NEW d, Len(d) = 1 PROVE NewMerkleTree(d) = Higher(<<Even(Leaves(d))>>)
<1> DEFINE a == <<Even(Leaves(d))>>
           Fix(f) == [n \in 0..1 |-> IF n = 0 THEN a ELSE Higher(f[n - 1])]
           tree == CHOOSE f : f = Fix(f)
<1>1. NewMerkleTree(d) = tree[1]
  BY Zenon DEF NewMerkleTree
<1> HIDE DEF a
<1>2. \E f : f = Fix(f)
  <2> DEFINE f == [n \in 0..1 |-> IF n = 0 THEN a ELSE Higher(a)]
  <2>1. f = Fix(f)
    OBVIOUS
  <2> QED BY <2>1, Zenon
<1>3. tree = Fix(tree)
  <2> HIDE DEF Fix
  <2> QED BY <1>2, Zenon
<1> HIDE DEF tree
<1>4. tree[0] = a /\ tree[1] = Higher(tree[0])
  BY <1>3
<1> QED BY <1>1, <1>4 DEF a

LEMMA TreeTwo ==
    ASSUME NEW d, Len(d) = 2
    PROVE  NewMerkleTree(d) = Higher(Higher(<<Even(Leaves(d))>>))
<1> DEFINE a == <<Even(Leaves(d))>>
           Fix(f) == [n \in 0..2 |-> IF n = 0 THEN a ELSE Higher(f[n - 1])]
           tree == CHOOSE f : f = Fix(f)
<1>1. NewMerkleTree(d) = tree[2]
  BY Zenon DEF NewMerkleTree
<1> HIDE DEF a
<1>2. \E f : f = Fix(f)
  <2> DEFINE f == [n \in 0..2 |-> IF n = 0 THEN a ELSE IF n = 1 THEN Higher(a) ELSE Higher(Higher(a))]
  <2>1. f = Fix(f)
    OBVIOUS
  <2> QED BY <2>1, Zenon
<1>3. tree = Fix(tree)
  <2> HIDE DEF Fix
  <2> QED BY <1>2, Zenon
<1> HIDE DEF tree
<1>4. tree[0] = a /\ tree[1] = Higher(tree[0]) /\ tree[2] = Higher(tree[1])
  BY <1>3
<1> QED BY <1>1, <1>4 DEF a

LEMMA VisitOne ==
    ASSUME NEW tree, NEW index, Len(tree) = 1
    PROVE  Visit(tree, index) = Deeper(tree, index, <<1>>)
<1> DEFINE a == <<1>>
           Fix(f) == [n \in 0..1 |-> IF n = 0 THEN a ELSE Deeper(tree, index, f[n - 1])]
           way == CHOOSE f : f = Fix(f)
<1>1. Visit(tree, index) = way[1]
  BY Zenon DEF Visit
<1> HIDE DEF a
<1>2. \E f : f = Fix(f)
  <2> DEFINE f == [n \in 0..1 |-> IF n = 0 THEN a ELSE Deeper(tree, index, a)]
  <2>1. f = Fix(f)
    OBVIOUS
  <2> QED BY <2>1, Zenon
<1>3. way = Fix(way)
  <2> HIDE DEF Fix
  <2> QED BY <1>2, Zenon
<1> HIDE DEF way
<1>4. way[0] = a /\ way[1] = Deeper(tree, index, way[0])
  BY <1>3
<1> QED BY <1>1, <1>4 DEF a

LEMMA VisitTwo ==
    ASSUME NEW tree, NEW index, Len(tree) = 2
    PROVE  Visit(tree, index) = Deeper(tree, index, Deeper(tree, index, <<1>>))
<1> DEFINE a == <<1>>
           D(w) == Deeper(tree, index, w)
           Fix(f) == [n \in 0..2 |-> IF n = 0 THEN a ELSE D(f[n - 1])]
           way == CHOOSE f : f = Fix(f)
<1>1. Visit(tree, index) = way[2]
  BY Zenon DEF Visit
<1> HIDE DEF a, D
<1>2. \E f : f = Fix(f)
  <2> DEFINE f == [n \in 0..2 |-> IF n = 0 THEN a ELSE IF n = 1 THEN D(a) ELSE D(D(a))]
  <2>1. f = Fix(f)
    OBVIOUS
  <2> QED BY <2>1, Zenon
<1>3. way = Fix(way)
  <2> HIDE DEF Fix
  <2> QED BY <1>2, Zenon
<1> HIDE DEF way
<1>4. way[0] = a /\ way[1] = D(way[0]) /\ way[2] = D(way[1])
  BY <1>3
<1> QED BY <1>1, <1>4 DEF a, D

LEMMA WalkNone == \A h : Walk(h, <<>>) = h
<1> SUFFICES ASSUME NEW h PROVE Walk(h, <<>>) = h
  BY Zenon
<1> DEFINE Fix(f) == [n \in 0..0 |-> IF n = 0 THEN h ELSE Step(f[n - 1], <<>>[n])]
           w == CHOOSE f : f = Fix(f)
<1>1. Walk(h, <<>>) = w[0]
  <2>1. Len(<<>>) = 0
    OBVIOUS
  <2> QED BY <2>1, Zenon DEF Walk
<1>2. \E f : f = Fix(f)
  <2> DEFINE f == [n \in 0..0 |-> h]
  <2>1. f = Fix(f)
    OBVIOUS
  <2> QED BY <2>1, Zenon
<1>3. w = Fix(w)
  <2> HIDE DEF Fix
  <2> QED BY <1>2, Zenon
<1> HIDE DEF w
<1>4. w[0] = h
  BY <1>3
<1> QED BY <1>1, <1>4

LEMMA WalkOne == \A h, p : Walk(h, <<p>>) = Step(h, p)
<1> SUFFICES ASSUME NEW h, NEW p PROVE Walk(h, <<p>>) = Step(h, p)
  BY Zenon
<1> DEFINE path == <<p>>
           Fix(f) == [n \in 0..1 |-> IF n = 0 THEN h ELSE Step(f[n - 1], path[n])]
           w == CHOOSE f : f = Fix(f)
<1>1. Len(path) = 1 /\ path[1] = p
  OBVIOUS
<1> HIDE DEF path
<1>2. Walk(h, path) = w[1]
  BY <1>1, Zenon DEF Walk
<1>3. \E f : f = Fix(f)
  <2> DEFINE f == [n \in 0..1 |-> IF n = 0 THEN h ELSE Step(h, path[1])]
  <2>1. f = Fix(f)
    OBVIOUS
  <2> QED BY <2>1, Zenon
<1>4. w = Fix(w)
  <2> HIDE DEF Fix
  <2> QED BY <1>3, Zenon
<1> HIDE DEF w
<1>5. w[0] = h /\ w[1] = Step(w[0], path[1])
  BY <1>4
<1> QED BY <1>1, <1>2, <1>5 DEF path

LEMMA FlattenOne == \A s : FlattenSeq(<<s>>) = s
<1> SUFFICES ASSUME NEW s PROVE FlattenSeq(<<s>>) = s
  BY Zenon
<1> DEFINE L == <<s>>
           Fix(f) == [i \in 1..1 |-> IF i = 1 THEN L[i] ELSE f[i - 1] \o L[i]]
           flatten == CHOOSE f : f = Fix(f)
<1>1. Len(L) = 1 /\ L[1] = s /\ 1 # 0
  OBVIOUS
<1> HIDE DEF L
<1>2. FlattenSeq(L) = flatten[1]
  BY <1>1, Zenon DEF FlattenSeq
<1>3. \E f : f = Fix(f)
  <2> DEFINE f == [i \in 1..1 |-> L[i]]
  <2>1. f = Fix(f)
    OBVIOUS
  <2> QED BY <2>1, Zenon
<1>4. flatten = Fix(flatten)
  <2> HIDE DEF Fix
  <2> QED BY <1>3, Zenon
<1> HIDE DEF flatten
<1>5. flatten[1] = L[1]
  BY <1>4
<1> QED BY <1>1, <1>2, <1>5 DEF L

LEMMA AppendOne == \A a, b : Append(<<a>>, b) = <<a, b>>
<1> SUFFICES ASSUME NEW a, NEW b PROVE Append(<<a>>, b) = <<a, b>>
  BY Zenon
<1> DEFINE S == {a, b}
           A == Append(<<a>>, b)
<1>1. <<a>> \in Seq(S) /\ <<a, b>> \in Seq(S) /\ Len(<<a>>) = 1 /\ <<a>>[1] = a
  OBVIOUS
<1>2. A \in Seq(S) /\ Len(A) = 2 /\ A[1] = a /\ A[2] = b
  BY <1>1
<1>3. Len(<<a, b>>) = 2 /\ <<a, b>>[1] = a /\ <<a, b>>[2] = b
  OBVIOUS
<1> DEFINE B == <<a, b>>
<1> HIDE DEF A, B, S
<1>4. Len(B) = 2 /\ B[1] = a /\ B[2] = b /\ B \in Seq(S)
  BY <1>1, <1>3 DEF B
<1>5. \A n \in 1..2 : A[n] = B[n]
  BY <1>2, <1>4
<1>6. A = B
  BY <1>2, <1>4, <1>5, SeqEqual
<1> QED BY <1>6 DEF A, B

\* The only leaf is the root, and its path is empty.
LEMMA PathOfOne ==
    ASSUME NEW S, NEW d \in Seq(S), Len(d) = 1
    PROVE  Walk(Hash(d[1]), FindPath(NewMerkleTree(d), 0)) = Root(NewMerkleTree(d))
<1> DEFINE leaf == [l |-> 0, r |-> 0, data |-> Hash(d[1])]
           L == <<leaf>>
           T == <<L>>
<1>1. leaf.l = 0 /\ leaf.r = 0 /\ leaf.data = Hash(d[1])
  OBVIOUS
<1>2. Leaves(d) = L
  <2>1. Leaves(d) = [i \in {1} |-> [l |-> i - 1, r |-> i - 1, data |-> Hash(d[i])]]
    BY DEF Leaves
  <2>2. Leaves(d) = [i \in {1} |-> leaf]
    BY <2>1
  <2> HIDE DEF leaf
  <2>3. L = [i \in {1} |-> leaf]
    OBVIOUS
  <2> QED BY <2>2, <2>3
<1> HIDE DEF leaf
<1>3. Len(L) = 1 /\ L[1] = leaf
  OBVIOUS
<1> HIDE DEF L
<1>4. Even(L) = L
  BY <1>3 DEF Even
<1>5. Len(T) = 1 /\ T[1] = L
  OBVIOUS
<1> HIDE DEF T
<1>6. Last(T) = L
  BY <1>5 DEF Last
<1>7. NewMerkleTree(d) = T
  <2>1. Higher(T) = T
    BY <1>3, <1>6 DEF Higher
  <2> QED BY <1>2, <1>4, <2>1, TreeOne DEF T
<1>8. Visit(T, 0) = <<1>>
  <2>1. Len(<<1>>) = 1 /\ Last(<<1>>) = 1
    BY DEF Last
  <2>2. Deeper(T, 0, <<1>>) = <<1>>
    BY <1>1, <1>3, <1>5, <2>1 DEF Deeper
  <2> QED BY <1>5, <2>2, VisitOne
<1>9. FindPath(T, 0) = <<>>
  <2> DEFINE way == Visit(T, 0)
             k(n) == Len(T) - n + 1
             l(n) == T[k(n) - 1][Left(T, k(n), way[n])]
             r(n) == T[k(n) - 1][Right(T, k(n), way[n])]
             beside(n) ==
                 (IF 0 > l(n).r THEN <<[hash |-> l(n).data, left |-> TRUE]>> ELSE <<>>)
                 \o (IF 0 < r(n).l THEN <<[hash |-> r(n).data, left |-> FALSE]>> ELSE <<>>)
             s == [n \in 1..Len(way) - 1 |-> beside(n)]
  <2>1. FindPath(T, 0) = FlattenSeq(Reverse(s))
    BY DEF FindPath
  <2> HIDE DEF beside, k, l, r
  <2>2. 1..Len(way) - 1 = {}
    <3>1. Len(way) = 1
      BY <1>8
    <3> HIDE DEF way
    <3> QED BY <3>1
  <2>3. s = <<>>
    <3> HIDE DEF way
    <3>1. s = [n \in {} |-> beside(n)]
      BY <2>2, Zenon
    <3> HIDE DEF s
    <3>2. 1..0 = {}
      OBVIOUS
    <3>3. s \in Seq({}) /\ Len(s) = 0
      BY <3>1, <3>2
    <3> QED BY <3>3
  <2> HIDE DEF s
  <2>4. Reverse(<<>>) = <<>>
    BY DEF Reverse
  <2>5. FlattenSeq(<<>>) = <<>>
    BY DEF FlattenSeq
  <2> QED BY <2>1, <2>3, <2>4, <2>5
<1>10. Root(T) = Hash(d[1])
  BY <1>1, <1>3, <1>6 DEF Root
<1> QED BY <1>7, <1>9, <1>10, WalkNone

\* Beside one of two leaves lies the other one.
LEMMA PathOfTwo ==
    ASSUME NEW S, NEW d \in Seq(S), Len(d) = 2, NEW i \in 1..2
    PROVE  Walk(Hash(d[i]), FindPath(NewMerkleTree(d), i - 1)) = Root(NewMerkleTree(d))
<1> DEFINE x == Hash(d[1])
           y == Hash(d[2])
           a == [l |-> 0, r |-> 0, data |-> x]
           b == [l |-> 1, r |-> 1, data |-> y]
           c == [l |-> 0, r |-> 1, data |-> Pair(x, y)]
           L == <<a, b>>
           U == <<c>>
           T == <<L, U>>
<1>1. /\ a.l = 0 /\ a.r = 0 /\ a.data = x
      /\ b.l = 1 /\ b.r = 1 /\ b.data = y
      /\ c.l = 0 /\ c.r = 1 /\ c.data = Pair(x, y)
  OBVIOUS
<1>2. Leaves(d) = L
  <2>1. Leaves(d) = [k \in 1..2 |-> [l |-> k - 1, r |-> k - 1, data |-> Hash(d[k])]]
    BY DEF Leaves
  <2> DEFINE e(k) == [l |-> k - 1, r |-> k - 1, data |-> Hash(d[k])]
  <2>2. e(1) = a /\ e(2) = b
    OBVIOUS
  <2> HIDE DEF e, a, b
  <2>3. Leaves(d) = [k \in 1..2 |-> e(k)]
    BY <2>1 DEF e
  <2>4. L = [k \in 1..2 |-> IF k = 1 THEN a ELSE b]
    OBVIOUS
  <2>5. \A k \in 1..2 : e(k) = IF k = 1 THEN a ELSE b
    BY <2>2
  <2> QED BY <2>3, <2>4, <2>5
<1> HIDE DEF x, y
<1>3. NewLevel(L) = U
  <2> HIDE DEF a, b
  <2>1. Len(L) = 2 /\ L[1] = a /\ L[2] = b
    OBVIOUS
  <2> HIDE DEF L
  <2> DEFINE e(j) == [l |-> L[2 * j - 1].l, r |-> L[2 * j].r,
                      data |-> Pair(L[2 * j - 1].data, L[2 * j].data)]
  <2>2. NewLevel(L) = [j \in 1..1 |-> e(j)]
    BY <2>1 DEF NewLevel
  <2>3. e(1) = c
    BY <1>1, <2>1
  <2> HIDE DEF e, c
  <2>4. NewLevel(L) = [j \in 1..1 |-> c]
    BY <2>2, <2>3
  <2>5. U = [j \in 1..1 |-> c]
    OBVIOUS
  <2> QED BY <2>4, <2>5
<1> HIDE DEF a, b, c
<1>4. Len(L) = 2 /\ L[1] = a /\ L[2] = b /\ Len(U) = 1 /\ U[1] = c
  OBVIOUS
<1> HIDE DEF L, U
<1>5. Even(L) = L /\ Even(U) = U
  BY <1>4 DEF Even
<1>6. Len(T) = 2 /\ T[1] = L /\ T[2] = U /\ Last(T) = U
  BY DEF Last
<1>7. NewMerkleTree(d) = T
  <2>1. Len(<<L>>) = 1 /\ Last(<<L>>) = L /\ Append(<<L>>, U) = T
    BY AppendOne DEF Last
  <2>2. Higher(<<L>>) = T
    BY <1>3, <1>4, <1>5, <2>1 DEF Higher
  <2> HIDE DEF T
  <2>3. Higher(T) = T
    BY <1>4, <1>6 DEF Higher
  <2> QED BY <1>2, <1>5, <2>2, <2>3, TreeTwo
<1> HIDE DEF T
<1>8. Right(T, 2, 1) = 2 /\ Left(T, 2, 1) = 1
  BY <1>4, <1>6 DEF Left, Right
<1>9. Len(<<1>>) = 1 /\ Last(<<1>>) = 1 /\ Len(<<1, 2>>) = 2 /\ Last(<<1, 2>>) = 2
      /\ Append(<<1>>, 2) = <<1, 2>> /\ Len(<<1, 1>>) = 2 /\ Last(<<1, 1>>) = 1
      /\ Append(<<1>>, 1) = <<1, 1>>
  BY AppendOne DEF Last
<1>10. PICK q : Visit(T, i - 1) = <<1, q>>
  <2>1. Deeper(T, i - 1, <<1>>) \in {<<1, 2>>, <<1, 1>>}
    BY <1>1, <1>4, <1>6, <1>8, <1>9 DEF Deeper
  <2>2. Deeper(T, i - 1, <<1, 2>>) = <<1, 2>>
    BY <1>1, <1>4, <1>6, <1>9 DEF Deeper
  <2>3. Deeper(T, i - 1, <<1, 1>>) = <<1, 1>>
    BY <1>1, <1>4, <1>6, <1>9 DEF Deeper
  <2> QED BY <1>6, <2>1, <2>2, <2>3, VisitTwo
<1> DEFINE left == [hash |-> x, left |-> TRUE]
           right == [hash |-> y, left |-> FALSE]
<1>11. FindPath(T, i - 1) = IF i = 1 THEN <<right>> ELSE <<left>>
  <2> DEFINE index == i - 1
             way == Visit(T, index)
             k(n) == Len(T) - n + 1
             l(n) == T[k(n) - 1][Left(T, k(n), way[n])]
             r(n) == T[k(n) - 1][Right(T, k(n), way[n])]
             one(n) == IF index > l(n).r THEN <<[hash |-> l(n).data, left |-> TRUE]>> ELSE <<>>
             two(n) == IF index < r(n).l THEN <<[hash |-> r(n).data, left |-> FALSE]>> ELSE <<>>
             beside(n) == one(n) \o two(n)
             s == [n \in 1..Len(way) - 1 |-> beside(n)]
  <2>1. FindPath(T, index) = FlattenSeq(Reverse(s))
    BY DEF FindPath
  <2>2. Len(way) - 1 = 1 /\ way[1] = 1
    BY <1>10
  <2> HIDE DEF way
  <2>3. k(1) = 2
    BY <1>6
  <2>4. l(1) = a /\ r(1) = b
    BY <1>4, <1>6, <1>8, <2>2, <2>3
  <2> HIDE DEF k, l, r
  <2>a. l(1).r = 0 /\ l(1).data = x /\ r(1).l = 1 /\ r(1).data = y
    BY <1>1, <2>4
  <2>b. (index > 0 <=> i # 1) /\ (index < 1 <=> i = 1)
    OBVIOUS
  <2> HIDE DEF index
  <2>5. one(1) = IF i = 1 THEN <<>> ELSE <<left>>
    BY <2>a, <2>b, Zenon
  <2>6. two(1) = IF i = 1 THEN <<right>> ELSE <<>>
    BY <2>a, <2>b, Zenon
  <2> HIDE DEF one, two, left, right
  <2>7. beside(1) = IF i = 1 THEN <<right>> ELSE <<left>>
    <3>1. <<>> \o <<right>> = <<right>> /\ <<left>> \o <<>> = <<left>>
      OBVIOUS
    <3> QED BY <2>5, <2>6, <3>1
  <2> HIDE DEF beside
  <2>8. s = <<beside(1)>>
    <3>1. s = [n \in 1..1 |-> beside(n)]
      BY <2>2
    <3>2. <<beside(1)>> = [n \in 1..1 |-> beside(1)]
      OBVIOUS
    <3> QED BY <3>1, <3>2
  <2> HIDE DEF s
  <2>9. Reverse(<<beside(1)>>) = <<beside(1)>>
    BY DEF Reverse
  <2>10. FindPath(T, index) = beside(1)
    BY <2>1, <2>7, <2>8, <2>9, FlattenOne, Zenon
  <2> QED BY <2>7, <2>10, Zenon DEF index
<1>12. left.hash = x /\ left.left = TRUE /\ right.hash = y /\ right.left = FALSE
  OBVIOUS
<1> HIDE DEF left, right
<1>13. Step(y, left) = Pair(x, y) /\ Step(x, right) = Pair(x, y)
  BY <1>12 DEF Step
<1>14. Root(T) = Pair(x, y)
  BY <1>1, <1>4, <1>6 DEF Root
<1>15. CASE i = 1
  BY <1>7, <1>11, <1>13, <1>14, <1>15, WalkOne DEF x
<1>16. CASE i = 2
  BY <1>7, <1>11, <1>13, <1>14, <1>16, WalkOne DEF y
<1> QED BY <1>15, <1>16

-----------------------------------------------------------------------------
(* The batch in its order *)

\* Until the search ends, the blocks of the batch are those of consecutive groups.
OrderInv ==
    pc \in {"build", "pow", "run"} =>
        \A i \in DOMAIN batch : batch[i].group = (GroupBase + i - 1) % MaxGroupNum

LEMMA Remainder ==
    ASSUME NEW m \in Nat \ {0}, NEW x \in 0..m - 1
    PROVE  x % m = x /\ (x + m) % m = x
OBVIOUS

\* Counted from the miner's first group, around the last one, a block has the number
\* of its place in the batch.
LEMMA LeafOfPlace ==
    ASSUME NEW b, NEW j \in 0..BatchSize - 1, b.group = (GroupBase + j) % MaxGroupNum
    PROVE  Leaf(b) = j
<1>1. /\ MaxGroupNum \in Nat \ {0} /\ GroupBase \in 0..MaxGroupNum - 1
      /\ j \in 0..MaxGroupNum - 1
  BY MiningAssumption
<1>2. CASE GroupBase + j < MaxGroupNum
  <2>1. GroupBase + j \in 0..MaxGroupNum - 1
    BY <1>1, <1>2
  <2>2. b.group = GroupBase + j
    BY <1>1, <2>1, Remainder
  <2>3. b.group + MaxGroupNum - GroupBase = j + MaxGroupNum
    BY <1>1, <2>2
  <2> QED BY <1>1, <2>3, Remainder DEF Leaf
<1>3. CASE GroupBase + j >= MaxGroupNum
  <2> DEFINE x == GroupBase + j - MaxGroupNum
  <2>1. x \in 0..MaxGroupNum - 1 /\ GroupBase + j = x + MaxGroupNum
    BY <1>1, <1>3
  <2>2. b.group = x
    <3> HIDE DEF x
    <3> QED BY <1>1, <2>1, Remainder
  <2>3. b.group + MaxGroupNum - GroupBase = j
    BY <1>1, <2>2
  <2> QED BY <1>1, <2>3, Remainder DEF Leaf
<1> QED BY <1>1, <1>2, <1>3

LEMMA NextOrderInv == TypeOK /\ OrderInv /\ [Next]_vars => OrderInv'
<1> SUFFICES ASSUME TypeOK, OrderInv, [Next]_vars PROVE OrderInv'
  OBVIOUS
<1>1. CASE Start
  BY <1>1 DEF Start, OrderInv
<1>2. ASSUME NEW gap \in Gap, BuildBlock(gap) PROVE OrderInv'
  <2> DEFINE g == (GroupBase + Len(batch)) % MaxGroupNum
             r == [group |-> g, prev |-> chain[g], target |-> NextTarget(chain[g]),
                   time |-> Last(chain[g]).time + gap, level |-> 0]
  <2>1. pc = "build" /\ batch' = Append(batch, r)
    BY <1>2 DEF BuildBlock
  <2>2. r.group = (GroupBase + Len(batch)) % MaxGroupNum
    OBVIOUS
  <2> HIDE DEF r
  <2>3. /\ DOMAIN batch' = 1..Len(batch) + 1 /\ batch'[Len(batch) + 1] = r
        /\ Len(batch) \in Nat
        /\ \A i \in 1..Len(batch) : i \in DOMAIN batch /\ batch'[i] = batch[i]
    BY <2>1, Types
  <2>4. GroupBase + (Len(batch) + 1) - 1 = GroupBase + Len(batch)
    BY <2>3, MiningAssumption
  <2>5. batch'[Len(batch) + 1].group = (GroupBase + (Len(batch) + 1) - 1) % MaxGroupNum
    BY <2>2, <2>3, <2>4
  <2>6. \A i \in 1..Len(batch) : batch'[i].group = (GroupBase + i - 1) % MaxGroupNum
    BY <2>1, <2>3 DEF OrderInv
  <2>7. \A i \in DOMAIN batch' : i \in 1..Len(batch) \/ i = Len(batch) + 1
    BY <2>3
  <2> QED BY <2>5, <2>6, <2>7 DEF OrderInv
<1>3. CASE NewPOW
  BY <1>3 DEF NewPOW, OrderInv
<1>4. CASE BlockchainChange
  BY <1>4 DEF BlockchainChange, OrderInv
<1>5. CASE \E level, other \in Level : Run(level, other)
  BY <1>5 DEF Run, OrderInv
<1>6. CASE CallSelfBlock
  BY <1>6 DEF CallSelfBlock, OrderInv
<1>7. CASE \E g \in Mine, gap \in Gap : OtherBlock(g, gap)
  BY <1>7 DEF OtherBlock, OrderInv
<1>8. CASE \E g \in Mine : Fork(g)
  BY <1>8 DEF Fork, OrderInv
<1>9. CASE UNCHANGED vars
  BY <1>9 DEF vars, OrderInv
<1> QED BY <1>1, <1>2, <1>3, <1>4, <1>5, <1>6, <1>7, <1>8, <1>9 DEF Next

\* The search of MineBlocks with at most two groups (Run of proof_of_work.go) hashes
\* what Block.Hash makes of each block of the batch: leaf, path and root belong
\* together whichever group the miner begins with, also where its groups go around
\* the last one.
THEOREM AlwaysSharedWork == ASSUME BatchSize <= 2 PROVE Spec => []SharedWork
<1>1. TypeOK /\ OrderInv => SharedWork
  <2> SUFFICES ASSUME TypeOK, OrderInv, pc = "run", NEW i \in DOMAIN batch
               PROVE  HashOf(batch[i]) = PoweredStruct
    BY DEF SharedWork
  <2> DEFINE d == [k \in DOMAIN batch |-> Header(batch[k])]
             S == {Header(batch[k]) : k \in DOMAIN batch}
  <2>1. /\ Len(batch) \in Nat /\ Len(batch) <= 2 /\ Len(batch) <= BatchSize
        /\ DOMAIN batch = 1..Len(batch) /\ BatchSize \in Nat
    BY Types
  <2>2. d \in Seq(S) /\ Len(d) = Len(batch) /\ d[i] = Header(batch[i])
    BY <2>1
  <2>3. BatchMerkleTree = NewMerkleTree(d)
    BY DEF BatchMerkleTree
  <2> HIDE DEF d, S
  <2>4. Leaf(batch[i]) = i - 1
    <3>1. i - 1 \in 0..BatchSize - 1 /\ GroupBase + i - 1 = GroupBase + (i - 1)
      BY <2>1, MiningAssumption
    <3>2. batch[i].group = (GroupBase + (i - 1)) % MaxGroupNum
      BY <3>1 DEF OrderInv
    <3> QED BY <3>1, <3>2, LeafOfPlace
  <2>5. Walk(Hash(d[i]), FindPath(NewMerkleTree(d), i - 1)) = Root(NewMerkleTree(d))
    <3>1. CASE Len(d) = 1
      <4>1. i = 1 /\ i - 1 = 0
        BY <2>1, <2>2, <3>1
      <4> QED BY <2>2, <3>1, <4>1, PathOfOne
    <3>2. CASE Len(d) = 2
      <4>1. i \in 1..2
        BY <2>1, <2>2, <3>2
      <4> QED BY <2>2, <3>2, <4>1, PathOfTwo
    <3> QED BY <2>1, <2>2, <3>1, <3>2
  <2> QED BY <2>2, <2>3, <2>4, <2>5 DEF HashOf, PoweredStruct
<1>2. Init => OrderInv
  BY DEF Init, OrderInv
<1>3. TypeOK /\ OrderInv /\ [Next]_vars => OrderInv'
  BY NextOrderInv
<1> QED BY <1>1, <1>2, <1>3, TypeCorrect, PTL DEF Spec

=============================================================================
