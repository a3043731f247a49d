----------------------------- MODULE Membership -----------------------------
(***************************************************************************)
(* How nodes come to know each other: global/known_nodes.go, the package   *)
(* network and the handlers of api/net.go.  Every node starts from one     *)
(* address, keeps a map of the nodes it has heard of and a list of them in *)
(* random order, and asks the first one on the list that answers for the   *)
(* nodes that that one knows.  Nothing of this is kept on disk.            *)
(*                                                                         *)
(* A heartbeat only measures a reaction time, which ReactTimes models.     *)
(***************************************************************************)
EXTENDS Integers, Sequences, FiniteSets, SequencesExt

CONSTANTS
    Node,       \* addresses
    Seed,       \* 127.0.0.1:1111
    Group,      \* Group[n]: the group of n's own address
    GroupNum,   \* GroupNum[n]: how many groups from there on it serves
    MaxGroupNum,\* how many groups there are
    MaxStops,   \* how often nodes are stopped
    MaxRaces    \* how often two gossips disturb each other

ASSUME MembershipAssumption ==
    /\ Seed \in Node /\ IsFiniteSet(Node)
    /\ MaxGroupNum \in Nat \ {0}
    /\ Group \in [Node -> 0..MaxGroupNum - 1]
    /\ GroupNum \in [Node -> 1..MaxGroupNum]
    /\ MaxStops \in Nat /\ MaxRaces \in Nat

VARIABLES
    up,         \* the nodes that run
    known,      \* known[n]: the nodes that n knows, with the groups they serve
    sorted,     \* sorted[n]: sortedNodes, <<>> from its use by the loop until the
                \* loop makes it anew
    stops,      \* number of nodes stopped
    races       \* number of races

vars == <<up, known, sorted, stops, races>>

-----------------------------------------------------------------------------
(* Groups *)

\* Mutant: a range that goes around the end has only its first part.
InGroupCut(group, base, number, max) ==
    base <= group /\ group < max /\ group < base + number

\* Is the group among the number groups from base on, counted around max?
InGroup(group, base, number, max) ==
    IF base + number > max
    THEN (base <= group /\ group < max) \/ (0 <= group /\ group < base + number - max)
    ELSE base <= group /\ group < base + number

\* What a node says of itself.
Truth(n) == [base |-> Group[n], number |-> GroupNum[n]]

\* The nodes that n would ask about its own group: CallInnerGroup, and send.
InnerGroup(n) ==
    {m \in DOMAIN known[n] :
        InGroup(Group[n], known[n][m].base, known[n][m].number, MaxGroupNum)}

-----------------------------------------------------------------------------
(* The map and the list of a node *)

\* AddNode for each of them: what is known stays as it is.
AddNodes(map, more) ==
    [m \in DOMAIN map \cup DOMAIN more |-> IF m \in DOMAIN map THEN map[m] ELSE more[m]]

Nobody == [m \in {} |-> Truth(m)]

Only(n, info) == [m \in {n} |-> info]

\* Mutant: the number of groups is not known yet.
GuessNone(n) == [base |-> 0, number |-> 0]

\* Register: of the seed a node knows the address only; it takes it to serve
\* the first groups, as many as itself.
Guess(n) == [base |-> 0, number |-> GroupNum[n]]

Start(n) ==
    /\ n \notin up
    /\ up' = up \cup {n}
    /\ known' = [known EXCEPT ![n] = Only(Seed, Guess(n))]
    /\ sorted' = [sorted EXCEPT ![n] = <<Seed>>]
    /\ UNCHANGED <<stops, races>>

\* The process ends, and with it what it knew.
Stop(n) ==
    /\ n \in up /\ stops < MaxStops
    /\ up' = up \ {n}
    /\ known' = [known EXCEPT ![n] = Nobody]
    /\ sorted' = [sorted EXCEPT ![n] = <<>>]
    /\ stops' = stops + 1
    /\ UNCHANGED races

\* CallInterGroup reaches the i-th node of the list: those before it do not run.
FirstToAnswer(n, i) ==
    /\ i \in DOMAIN sorted[n] /\ sorted[n][i] \in up
    /\ \A j \in 1..i - 1 : sorted[n][j] \notin up

\* Mutant: who asks is not noted.
ServeUnnoted(m, n) == known[m]

\* Mutant: the one that asks is taken to serve what the seed is taken to serve.
ServeGuessed(m, n) == AddNodes(known[m], Only(n, Guess(n)))

\* The handler of m: it learns who asks, with its groups, and answers with all it
\* knows.
Serve(m, n) == AddNodes(known[m], Only(n, Truth(n)))

\* GetKnownNodes, the first step of the loop.
GetKnownNodes(n) ==
    /\ n \in up /\ sorted[n] # <<>>
    /\ \E i \in DOMAIN sorted[n] :
          LET m == sorted[n][i]
              answer == Serve(m, n)
          IN  /\ FirstToAnswer(n, i)
              /\ known' = [known EXCEPT ![m] = answer, ![n] = AddNodes(known[n], answer)]
    /\ sorted' = [sorted EXCEPT ![n] = <<>>]
    /\ UNCHANGED <<up, stops, races>>

\* None of the nodes responded.
NoAnswer(n) ==
    /\ n \in up /\ sorted[n] # <<>>
    /\ \A i \in DOMAIN sorted[n] : sorted[n][i] \notin up
    /\ sorted' = [sorted EXCEPT ![n] = <<>>]
    /\ UNCHANGED <<up, known, stops, races>>

\* All lists of nodes without repetition.
Lists == UNION {SetToSeqs(S) : S \in SUBSET Node}

\* UpdateSortedNodes at the end of the loop: all known nodes in random order.
UpdateSortedNodes(n, list) ==
    /\ n \in up /\ sorted[n] = <<>>
    /\ ToSet(list) = DOMAIN known[n]
    /\ sorted' = [sorted EXCEPT ![n] = list]
    /\ UNCHANGED <<up, known, stops, races>>

\* Two gossips exchange elements of the list at the same time, without a lock: a
\* node may be in it twice and another not at all.
GossipRace(n) ==
    /\ n \in up /\ races < MaxRaces
    /\ \E i, j \in DOMAIN sorted[n] :
          i # j /\ sorted' = [sorted EXCEPT ![n][i] = sorted[n][j]]
    /\ races' = races + 1
    /\ UNCHANGED <<up, known, stops>>

Init ==
    /\ up = {}
    /\ known = [n \in Node |-> Nobody]
    /\ sorted = [n \in Node |-> <<>>]
    /\ stops = 0 /\ races = 0

Next ==
    \E n \in Node :
        \/ Start(n) \/ Stop(n) \/ GetKnownNodes(n) \/ NoAnswer(n) \/ GossipRace(n)
        \/ \E list \in Lists : UpdateSortedNodes(n, list)

Spec == Init /\ [][Next]_vars

\* The order of the list is random, so each node comes first again and again.
SeedFirst(n) ==
    \E list \in Lists : UpdateSortedNodes(n, list) /\ list[1] = Seed

\* Nodes that stop are started again; the loop of a running node goes on, since
\* every call returns.
Fairness ==
    \A n \in Node :
        /\ WF_vars(Start(n))
        /\ WF_vars(GetKnownNodes(n) \/ NoAnswer(n))
        /\ SF_vars(SeedFirst(n))

FairSpec == Spec /\ Fairness

-----------------------------------------------------------------------------
(* Properties *)

\* What is known of a node is a range of groups, and only known nodes are on the
\* list, whatever two gossips have done to it.
TypeOK ==
    /\ up \subseteq Node
    /\ known \in [Node -> UNION {[S -> [base : 0..MaxGroupNum - 1,
                                      number : 1..MaxGroupNum]] : S \in SUBSET Node}]
    /\ sorted \in [Node -> Seq(Node)]
    /\ \A n \in Node : ToSet(sorted[n]) \subseteq DOMAIN known[n]
    /\ stops \in 0..MaxStops /\ races \in 0..MaxRaces

\* Whatever way the news about a node took, through however many others, each
\* node believes of it what it serves; of the seed it keeps its own guess, which
\* no news replaces.
GroupsTrue ==
    \A n \in Node : \A m \in DOMAIN known[n] :
        known[n][m] = IF m = Seed THEN Guess(n) ELSE Truth(m)

\* All nodes come to know all nodes, for good: whichever stop and start again,
\* the seed among them, and whatever gossips do to the lists.
AllKnown == <>[](\A n \in Node : DOMAIN known[n] = Node)

\* And each node then has for its own group all nodes that serve it, the seed
\* excepted, and nobody that does not.
NeighboursFound ==
    <>[](\A n \in Node : InnerGroup(n) \ {Seed} =
            {m \in Node \ {Seed} : \E k \in 0..GroupNum[m] - 1 :
                 Group[n] = (Group[m] + k) % MaxGroupNum})

=============================================================================
