-------------------------- MODULE MembershipProofs --------------------------
(***************************************************************************)
(* What nodes believe of each other is true, for every set of nodes and    *)
(* every assignment of groups.  GroupsTrue alone is not inductive: that an *)
(* answer does not replace the guess about the seed takes that every       *)
(* running node has the seed in its map (SeedKnown).                       *)
(***************************************************************************)
EXTENDS Membership, FiniteSetTheorems, TLAPS

Info == [base : 0..MaxGroupNum - 1, number : 1..MaxGroupNum]

\* The maps a node can have.
Map == UNION {[S -> Info] : S \in SUBSET Node}

\* A node that runs has the seed in its map.
SeedKnown == \A n \in up : Seed \in DOMAIN known[n]

\* What node n believes, if its map is f.
TrueMap(n, f) ==
    \A m \in DOMAIN f : f[m] = IF m = Seed THEN Guess(n) ELSE Truth(m)

IInv == TypeOK /\ GroupsTrue /\ SeedKnown

-----------------------------------------------------------------------------
(* Maps *)

\* Maps are functions on sets of nodes.
LEMMA MapFacts ==
    /\ \A f \in Map : DOMAIN f \subseteq Node /\ \A m \in DOMAIN f : f[m] \in Info
    /\ \A f : /\ f = [m \in DOMAIN f |-> f[m]] /\ DOMAIN f \subseteq Node
              /\ \A m \in DOMAIN f : f[m] \in Info
              => f \in Map
<1>1. ASSUME NEW f \in Map
      PROVE  DOMAIN f \subseteq Node /\ \A m \in DOMAIN f : f[m] \in Info
  <2>1. PICK S \in SUBSET Node : f \in [S -> Info]
    BY DEF Map
  <2> QED BY <2>1
<1>2. ASSUME NEW f, f = [m \in DOMAIN f |-> f[m]], DOMAIN f \subseteq Node,
             \A m \in DOMAIN f : f[m] \in Info
      PROVE  f \in Map
  <2>1. f \in [DOMAIN f -> Info] /\ DOMAIN f \in SUBSET Node
    BY <1>2
  <2> QED BY <2>1 DEF Map
<1> QED BY <1>1, <1>2

\* What a node says of itself, and what another one guesses, are ranges of groups.
LEMMA InfoFacts == \A n \in Node : Truth(n) \in Info /\ Guess(n) \in Info
BY MembershipAssumption DEF Truth, Guess, Info

\* AddNode adds what is new and keeps what is known.
LEMMA AddNodesFacts ==
    ASSUME NEW f \in Map, NEW g \in Map
    PROVE  /\ AddNodes(f, g) \in Map
           /\ DOMAIN AddNodes(f, g) = DOMAIN f \cup DOMAIN g
           /\ \A m \in DOMAIN f : AddNodes(f, g)[m] = f[m]
           /\ \A m \in DOMAIN g \ DOMAIN f : AddNodes(f, g)[m] = g[m]
<1> DEFINE h == AddNodes(f, g)
<1>1. /\ DOMAIN h = DOMAIN f \cup DOMAIN g /\ h = [m \in DOMAIN h |-> h[m]]
      /\ \A m \in DOMAIN f : h[m] = f[m]
      /\ \A m \in DOMAIN g \ DOMAIN f : h[m] = g[m]
  BY DEF AddNodes
<1> HIDE DEF h
<1>2. DOMAIN h \subseteq Node /\ \A m \in DOMAIN h : h[m] \in Info
  BY <1>1, MapFacts
<1> QED BY <1>1, <1>2, MapFacts DEF h

\* One node, or nobody.
LEMMA SmallMaps ==
    /\ Nobody \in Map /\ DOMAIN Nobody = {}
    /\ \A n \in Node : \A i \in Info :
          Only(n, i) \in Map /\ DOMAIN Only(n, i) = {n} /\ Only(n, i)[n] = i
<1>1. DOMAIN Nobody = {} /\ Nobody = [m \in DOMAIN Nobody |-> Nobody[m]]
  BY DEF Nobody
<1>2. ASSUME NEW n \in Node, NEW i \in Info
      PROVE  Only(n, i) \in Map /\ DOMAIN Only(n, i) = {n} /\ Only(n, i)[n] = i
  <2>1. DOMAIN Only(n, i) = {n} /\ Only(n, i)[n] = i
        /\ Only(n, i) = [m \in DOMAIN Only(n, i) |-> Only(n, i)[m]]
    BY DEF Only
  <2> QED BY <2>1, MapFacts
<1> QED BY <1>1, <1>2, MapFacts

\* A list without repetition is a sequence of nodes.
LEMMA ListsFacts == Lists \subseteq Seq(Node)
<1> SUFFICES ASSUME NEW S \in SUBSET Node, NEW list \in SetToSeqs(S)
             PROVE  list \in Seq(Node)
  BY DEF Lists
<1>1. Cardinality(S) \in Nat
  BY MembershipAssumption, FS_Subset, FS_CardinalityType
<1>2. list \in [1..Cardinality(S) -> S]
  BY DEF SetToSeqs
<1> QED BY <1>1, <1>2

\* The groups that InGroup finds are those that one reaches by counting from base
\* around the last group: the two comparisons of utils are exact.
LEMMA InGroupCounts ==
    ASSUME NEW max \in Nat \ {0}, NEW group \in 0..max - 1, NEW base \in 0..max - 1,
           NEW number \in 1..max
    PROVE  InGroup(group, base, number, max)
             <=> \E k \in 0..number - 1 : group = (base + k) % max
<1>1. \A k \in 0..number - 1 :
          (base + k) % max = IF base + k < max THEN base + k ELSE base + k - max
  <2> SUFFICES ASSUME NEW k \in 0..number - 1
               PROVE  (base + k) % max = IF base + k < max THEN base + k ELSE base + k - max
    OBVIOUS
  <2>1. CASE base + k < max
    BY <2>1
  <2>2. CASE base + k >= max
    BY <2>2
  <2> QED BY <2>1, <2>2
<1>2. ASSUME InGroup(group, base, number, max)
      PROVE  \E k \in 0..number - 1 : group = (base + k) % max
  <2>1. CASE base <= group
    <3>1. group - base \in 0..number - 1
      BY <1>2, <2>1 DEF InGroup
    <3> QED BY <1>1, <3>1
  <2>2. CASE group < base
    <3>1. group + max - base \in 0..number - 1
      BY <1>2, <2>2 DEF InGroup
    <3> QED BY <1>1, <2>2, <3>1
  <2> QED BY <2>1, <2>2
<1>3. ASSUME NEW k \in 0..number - 1, group = (base + k) % max
      PROVE  InGroup(group, base, number, max)
  BY <1>1, <1>3 DEF InGroup
<1> QED BY <1>2, <1>3

-----------------------------------------------------------------------------
(* The invariant *)

\* The invariant, node by node.
LEMMA IInvMaps ==
    IInv <=> /\ up \subseteq Node
             /\ known \in [Node -> Map] /\ sorted \in [Node -> Seq(Node)]
             /\ stops \in 0..MaxStops /\ races \in 0..MaxRaces
             /\ \A n \in Node : /\ ToSet(sorted[n]) \subseteq DOMAIN known[n]
                                /\ TrueMap(n, known[n])
                                /\ n \in up => Seed \in DOMAIN known[n]
BY DEF IInv, TypeOK, GroupsTrue, SeedKnown, TrueMap, Map, Info

LEMMA InitInv == Init => IInv
<1> SUFFICES ASSUME Init PROVE IInv
  OBVIOUS
<1>1. \A n \in Node : known[n] = Nobody /\ sorted[n] = <<>>
  BY DEF Init
<1>2. 0 \in 0..MaxStops /\ 0 \in 0..MaxRaces
  BY MembershipAssumption
<1>3. known \in [Node -> Map] /\ sorted \in [Node -> Seq(Node)]
  BY SmallMaps DEF Init
<1>4. ToSet(<<>>) = {}
  BY DEF ToSet
<1> QED BY <1>1, <1>2, <1>3, <1>4, SmallMaps, IInvMaps DEF Init, TrueMap

LEMMA StartInv == ASSUME IInv, NEW n \in Node, Start(n) PROVE IInv'
<1> DEFINE new == Only(Seed, Guess(n))
<1>0. Seed \in Node
  BY MembershipAssumption
<1>1. new \in Map /\ DOMAIN new = {Seed} /\ new[Seed] = Guess(n)
  BY <1>0, SmallMaps, InfoFacts
<1>2. known' = [known EXCEPT ![n] = new] /\ sorted' = [sorted EXCEPT ![n] = <<Seed>>]
      /\ up' = up \cup {n} /\ UNCHANGED <<stops, races>>
  BY DEF Start
<1> HIDE DEF new
<1>3. ToSet(<<Seed>>) = {Seed} /\ <<Seed>> \in Seq(Node)
  BY <1>0 DEF ToSet
<1>4. TrueMap(n, new)
  BY <1>1 DEF TrueMap
<1>5. known' \in [Node -> Map] /\ sorted' \in [Node -> Seq(Node)]
  BY <1>1, <1>2, <1>3, IInvMaps
<1>6. ASSUME NEW o \in Node
      PROVE  /\ ToSet(sorted'[o]) \subseteq DOMAIN known'[o]
             /\ \A m \in DOMAIN known'[o] :
                   known'[o][m] = IF m = Seed THEN Guess(o) ELSE Truth(m)
             /\ o \in up' => Seed \in DOMAIN known'[o]
  <2>1. CASE o = n
    BY <1>1, <1>2, <1>3, <1>4, <2>1, IInvMaps DEF TrueMap
  <2>2. CASE o # n
    BY <1>2, <2>2, IInvMaps DEF TrueMap
  <2> QED BY <2>1, <2>2
<1> QED BY <1>2, <1>5, <1>6 DEF IInv, TypeOK, GroupsTrue, SeedKnown, Map, Info

LEMMA StopInv == ASSUME IInv, NEW n \in Node, Stop(n) PROVE IInv'
<1>1. known' = [known EXCEPT ![n] = Nobody] /\ sorted' = [sorted EXCEPT ![n] = <<>>]
      /\ up' = up \ {n} /\ stops' = stops + 1 /\ races' = races /\ stops < MaxStops
  BY DEF Stop
<1>2. stops' \in 0..MaxStops
  BY <1>1, MembershipAssumption, IInvMaps
<1>3. ToSet(<<>>) = {}
  BY DEF ToSet
<1>4. known' \in [Node -> Map] /\ sorted' \in [Node -> Seq(Node)]
  BY <1>1, SmallMaps, IInvMaps
<1>5. ASSUME NEW o \in Node
      PROVE  /\ ToSet(sorted'[o]) \subseteq DOMAIN known'[o]
             /\ \A m \in DOMAIN known'[o] :
                   known'[o][m] = IF m = Seed THEN Guess(o) ELSE Truth(m)
             /\ o \in up' => Seed \in DOMAIN known'[o]
  <2>1. CASE o = n
    BY <1>1, <1>3, <2>1, SmallMaps, IInvMaps
  <2>2. CASE o # n
    BY <1>1, <2>2, IInvMaps DEF TrueMap
  <2> QED BY <2>1, <2>2
<1>6. up' \subseteq Node
  BY <1>1, IInvMaps
<1> QED BY <1>1, <1>2, <1>4, <1>5, <1>6, IInvMaps
        DEF IInv, TypeOK, GroupsTrue, SeedKnown, Map, Info

\* The answer of m holds the truth about the one that asks, and m's own beliefs;
\* of these the guess about the seed is not taken over.
LEMMA GetKnownNodesInv == ASSUME IInv, NEW n \in Node, GetKnownNodes(n) PROVE IInv'
<1>1. PICK i \in DOMAIN sorted[n] :
        /\ FirstToAnswer(n, i)
        /\ known' = [known EXCEPT ![sorted[n][i]] = Serve(sorted[n][i], n),
                                  ![n] = AddNodes(known[n], Serve(sorted[n][i], n))]
  BY DEF GetKnownNodes
<1> DEFINE m == sorted[n][i]
           answer == Serve(m, n)
<1>2. m \in Node /\ m \in up /\ n \in up
  BY <1>1, IInvMaps DEF FirstToAnswer, GetKnownNodes
<1>3. /\ sorted' = [sorted EXCEPT ![n] = <<>>] /\ UNCHANGED <<up, stops, races>>
      /\ known' = [known EXCEPT ![m] = answer, ![n] = AddNodes(known[n], answer)]
  BY <1>1 DEF GetKnownNodes
<1> HIDE DEF m
<1>4. Only(n, Truth(n)) \in Map /\ DOMAIN Only(n, Truth(n)) = {n}
      /\ Only(n, Truth(n))[n] = Truth(n)
  BY SmallMaps, InfoFacts
<1>5. known[m] \in Map /\ known[n] \in Map /\ Seed \in DOMAIN known[m] /\ Seed \in DOMAIN known[n]
  BY <1>2, IInvMaps
<1>6. /\ answer \in Map /\ DOMAIN answer = DOMAIN known[m] \cup {n}
      /\ \A o \in DOMAIN known[m] : answer[o] = known[m][o]
      /\ n \notin DOMAIN known[m] => answer[n] = Truth(n)
  <2> DEFINE one == Only(n, Truth(n))
  <2>1. one \in Map /\ DOMAIN one = {n} /\ one[n] = Truth(n) /\ answer = AddNodes(known[m], one)
    BY <1>4 DEF Serve
  <2> HIDE DEF one, answer
  <2>2. /\ AddNodes(known[m], one) \in Map
        /\ DOMAIN AddNodes(known[m], one) = DOMAIN known[m] \cup DOMAIN one
        /\ \A o \in DOMAIN known[m] : AddNodes(known[m], one)[o] = known[m][o]
        /\ \A o \in DOMAIN one \ DOMAIN known[m] : AddNodes(known[m], one)[o] = one[o]
    BY <1>5, <2>1, AddNodesFacts
  <2> QED BY <2>1, <2>2
<1> HIDE DEF answer
<1>7. TrueMap(m, answer)
  <2>1. TrueMap(m, known[m])
    BY <1>2, IInvMaps
  <2> QED BY <1>5, <1>6, <2>1 DEF TrueMap
<1> DEFINE both == AddNodes(known[n], answer)
<1>8. /\ both \in Map /\ DOMAIN both = DOMAIN known[n] \cup DOMAIN answer
      /\ \A o \in DOMAIN known[n] : both[o] = known[n][o]
      /\ \A o \in DOMAIN answer \ DOMAIN known[n] : both[o] = answer[o]
  BY <1>5, <1>6, AddNodesFacts
<1> HIDE DEF both
<1>9. TrueMap(n, both)
  <2>1. TrueMap(n, known[n])
    BY <1>2, IInvMaps
  <2> QED BY <1>5, <1>7, <1>8, <2>1 DEF TrueMap
<1>10. known' = [known EXCEPT ![m] = answer, ![n] = both]
  BY <1>3 DEF both
<1>11. known' \in [Node -> Map] /\ sorted' \in [Node -> Seq(Node)]
  <2>1. known \in [Node -> Map] /\ sorted \in [Node -> Seq(Node)] /\ <<>> \in Seq(Node)
    BY IInvMaps
  <2> HIDE DEF Map
  <2>2. known' \in [Node -> Map]
    BY <1>2, <1>6, <1>8, <1>10, <2>1
  <2> QED BY <1>3, <2>1, <2>2
<1>12. ASSUME NEW o \in Node
       PROVE  /\ ToSet(sorted'[o]) \subseteq DOMAIN known'[o]
              /\ TrueMap(o, known'[o])
              /\ o \in up' => Seed \in DOMAIN known'[o]
  <2>1. CASE o = n
    <3>1. sorted'[o] = <<>> /\ ToSet(<<>>) = {}
      BY <1>3, <2>1, IInvMaps DEF ToSet
    <3>2. known'[o] = both
      BY <1>10, <2>1, IInvMaps
    <3> QED BY <1>5, <1>8, <1>9, <2>1, <3>1, <3>2
  <2>2. CASE o = m /\ m # n
    <3>1. sorted'[o] = sorted[m] /\ known'[o] = answer
      BY <1>2, <1>3, <1>10, <2>2, IInvMaps
    <3>2. ToSet(sorted[m]) \subseteq DOMAIN known[m]
      BY <1>2, IInvMaps
    <3> QED BY <1>5, <1>6, <1>7, <2>2, <3>1, <3>2
  <2>3. CASE o # m /\ o # n
    <3>1. sorted'[o] = sorted[o] /\ known'[o] = known[o] /\ up' = up
      BY <1>3, <1>10, <2>3, IInvMaps
    <3> QED BY <3>1, IInvMaps
  <2> QED BY <2>1, <2>2, <2>3
<1> QED BY <1>3, <1>11, <1>12, IInvMaps
        DEF IInv, TypeOK, GroupsTrue, SeedKnown, TrueMap, Map, Info

LEMMA NoAnswerInv == ASSUME IInv, NEW n \in Node, NoAnswer(n) PROVE IInv'
<1>1. sorted' = [sorted EXCEPT ![n] = <<>>] /\ UNCHANGED <<up, known, stops, races>>
  BY DEF NoAnswer
<1>2. sorted' \in [Node -> Seq(Node)] /\ ToSet(<<>>) = {}
  BY <1>1, IInvMaps DEF ToSet
<1>3. \A o \in Node : ToSet(sorted'[o]) \subseteq DOMAIN known'[o]
  BY <1>1, <1>2, IInvMaps
<1> QED BY <1>1, <1>2, <1>3, IInvMaps DEF IInv, TypeOK, GroupsTrue, SeedKnown, TrueMap, Map, Info

LEMMA UpdateSortedNodesInv ==
    ASSUME IInv, NEW n \in Node, NEW list \in Lists, UpdateSortedNodes(n, list)
    PROVE  IInv'
<1>1. /\ sorted' = [sorted EXCEPT ![n] = list] /\ UNCHANGED <<up, known, stops, races>>
      /\ ToSet(list) = DOMAIN known[n]
  BY DEF UpdateSortedNodes
<1>2. sorted' \in [Node -> Seq(Node)]
  BY <1>1, ListsFacts, IInvMaps
<1>3. \A o \in Node : ToSet(sorted'[o]) \subseteq DOMAIN known'[o]
  BY <1>1, IInvMaps
<1> QED BY <1>1, <1>2, <1>3, IInvMaps DEF IInv, TypeOK, GroupsTrue, SeedKnown, TrueMap, Map, Info

\* A race copies an element of the list and leaves its length alone.
LEMMA GossipRaceInv == ASSUME IInv, NEW n \in Node, GossipRace(n) PROVE IInv'
<1>1. PICK i, j \in DOMAIN sorted[n] : sorted' = [sorted EXCEPT ![n][i] = sorted[n][j]]
  BY DEF GossipRace
<1>2. races' = races + 1 /\ races < MaxRaces /\ UNCHANGED <<up, known, stops>>
  BY DEF GossipRace
<1>3. races' \in 0..MaxRaces
  <2>1. races \in 0..MaxRaces /\ MaxRaces \in Nat
    BY MembershipAssumption, IInvMaps
  <2> QED BY <1>2, <2>1
<1> DEFINE list == [sorted[n] EXCEPT ![i] = sorted[n][j]]
<1>4. sorted[n] \in Seq(Node) /\ sorted' = [sorted EXCEPT ![n] = list]
  BY <1>1, IInvMaps
<1>5. list \in Seq(Node) /\ ToSet(list) \subseteq ToSet(sorted[n])
  BY <1>4 DEF ToSet
<1> HIDE DEF list
<1>6. sorted' \in [Node -> Seq(Node)]
  BY <1>4, <1>5, IInvMaps
<1>7. \A o \in Node : ToSet(sorted'[o]) \subseteq DOMAIN known'[o]
  BY <1>2, <1>4, <1>5, IInvMaps
<1> QED BY <1>2, <1>3, <1>6, <1>7, IInvMaps
        DEF IInv, TypeOK, GroupsTrue, SeedKnown, TrueMap, Map, Info

\* The invariant is kept by every step of every node.
THEOREM Invariance == Spec => []IInv
<1>1. IInv /\ [Next]_vars => IInv'
  <2> SUFFICES ASSUME IInv, [Next]_vars PROVE IInv'
    OBVIOUS
  <2>1. CASE UNCHANGED vars
    BY <2>1 DEF vars, IInv, TypeOK, GroupsTrue, SeedKnown
  <2>2. CASE Next
    BY <2>2, StartInv, StopInv, GetKnownNodesInv, NoAnswerInv, UpdateSortedNodesInv,
       GossipRaceInv DEF Next
  <2> QED BY <2>1, <2>2
<1> QED BY <1>1, InitInv, PTL DEF Spec

\* Maps hold ranges of groups, and lists hold known nodes only, races included.
THEOREM TypeCorrect == Spec => []TypeOK
<1>1. IInv => TypeOK
  BY DEF IInv
<1> QED BY <1>1, Invariance, PTL

\* However many nodes there are and whichever stop and start: what a node believes
\* of another one, the seed excepted, is what that one says of itself.
THEOREM AlwaysGroupsTrue == Spec => []GroupsTrue
<1>1. IInv => GroupsTrue
  BY DEF IInv
<1> QED BY <1>1, Invariance, PTL

\* The nodes to which a node sends the blocks and transactions of its own group
\* (CallInnerGroup) are, the seed excepted, exactly those that it knows and that
\* serve the group.
NeighboursServe ==
    \A n \in Node : InnerGroup(n) \ {Seed} =
        {m \in DOMAIN known[n] \ {Seed} : \E k \in 0..GroupNum[m] - 1 :
            Group[n] = (Group[m] + k) % MaxGroupNum}

\* No node is asked about a group that it does not serve, and none that is known to
\* serve it is left out, ranges that go around the last group included.
THEOREM AlwaysNeighboursServe == Spec => []NeighboursServe
<1>1. IInv => NeighboursServe
  <2> SUFFICES ASSUME IInv, NEW n \in Node, NEW m \in DOMAIN known[n] \ {Seed}
               PROVE  InGroup(Group[n], known[n][m].base, known[n][m].number, MaxGroupNum)
                        <=> \E k \in 0..GroupNum[m] - 1 :
                               Group[n] = (Group[m] + k) % MaxGroupNum
    BY DEF NeighboursServe, InnerGroup
  <2>1. known[n] \in Map /\ known[n][m] = Truth(m)
    BY IInvMaps DEF TrueMap
  <2>2. m \in Node
    BY <2>1, MapFacts
  <2>3. known[n][m].base = Group[m] /\ known[n][m].number = GroupNum[m]
    BY <2>1 DEF Truth
  <2>4. /\ MaxGroupNum \in Nat \ {0} /\ Group[n] \in 0..MaxGroupNum - 1
        /\ Group[m] \in 0..MaxGroupNum - 1 /\ GroupNum[m] \in 1..MaxGroupNum
    BY <2>2, MembershipAssumption
  <2> QED BY <2>3, <2>4, InGroupCounts
<1> QED BY <1>1, Invariance, PTL

=============================================================================
