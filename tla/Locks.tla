------------------------------- MODULE Locks -------------------------------
(***************************************************************************)
(* Goroutines of several nodes run the paths of LockPaths at the same      *)
(* time: background loops, and handlers of requests from other nodes and   *)
(* from the user.                                                          *)
(***************************************************************************)
EXTENDS LockPaths, SequencesExt

CONSTANTS
    Node,       \* nodes that call each other
    Goroutine,  \* goroutines that are under way at the same time
    Home,       \* Home[g]: the nodes of which g is a goroutine
    Runs,       \* the names of the paths that they run
    Nobody      \* path and place of an idle goroutine

ASSUME LocksAssumption ==
    /\ Home \in [Goroutine -> SUBSET Node]
    /\ Runs \subseteq DOMAIN Path
    /\ Nobody \notin Runs \cup Node

VARIABLES
    run,        \* run[g]: the path that g is running
    here,       \* here[g]: the node on which it runs
    there,      \* there[g]: the node that it calls
    want        \* want[g]: the nesting it enters when its call of Lock returns,
                \* <<>> if it is idle

vars == <<run, here, there, want>>

\* Follow[p][w]: where a goroutine on path p that has got all of w can come to its
\* next Lock, with the Unlocks on the way.
Follow ==
    [p \in Runs |-> [w \in Path[p] |-> {s \in Path[p] : IsPrefix(Front(s), w)}]]

\* The paths on which another node is called.
Calls == {p \in Runs : \E s \in Path[p] : Last(s).at = "there"}

\* What a goroutine holds while it waits in Lock.
Held(g) == IF want[g] = <<>> THEN <<>> ELSE Front(want[g])

\* The mutex itself: one of the node on which the step is taken.
Place(g, s) == <<IF s.at = "here" THEN here[g] ELSE there[g], s.mutex>>

Holds(g, x) == \E i \in DOMAIN Held(g) : Place(g, Held(g)[i]) = x

Waits(g, h) == want[g] # <<>> /\ Holds(h, Place(g, Last(want[g])))

Init ==
    /\ run = [g \in Goroutine |-> Nobody]
    /\ here = [g \in Goroutine |-> Nobody]
    /\ there = [g \in Goroutine |-> Nobody]
    /\ want = [g \in Goroutine |-> <<>>]

\* A request arrives at node n, or a loop begins its next round there, and
\* comes to its first Lock.  The node that is called may be the same one: a
\* node knows its own address too.
Begin(g, p, n, o, s) ==
    /\ run[g] = Nobody
    /\ n \in Home[g]
    /\ o = n \/ p \in Calls
    /\ Len(s) = 1
    /\ run' = [run EXCEPT ![g] = p]
    /\ here' = [here EXCEPT ![g] = n]
    /\ there' = [there EXCEPT ![g] = o]
    /\ want' = [want EXCEPT ![g] = s]

\* Lock returns when nobody holds the mutex, not even the goroutine itself.
CanLock(g) == want[g] # <<>> /\ \A h \in Goroutine : ~Waits(g, h)

\* Lock returns, and the goroutine goes on to its next Lock.  (An Unlock waits
\* for nobody and keeps nobody waiting.)
GoOn(g, s) ==
    /\ CanLock(g)
    /\ want' = [want EXCEPT ![g] = s]
    /\ UNCHANGED <<run, here, there>>

\* Mutant: an early return without Unlock.
ReturnHolding(g) ==
    /\ CanLock(g)
    /\ run' = [run EXCEPT ![g] = Nobody]
    /\ here' = [here EXCEPT ![g] = Nobody]
    /\ there' = [there EXCEPT ![g] = Nobody]
    /\ UNCHANGED want

\* Lock returns, and only Unlocks remain.
Return(g) ==
    /\ CanLock(g)
    /\ run' = [run EXCEPT ![g] = Nobody]
    /\ here' = [here EXCEPT ![g] = Nobody]
    /\ there' = [there EXCEPT ![g] = Nobody]
    /\ want' = [want EXCEPT ![g] = <<>>]

Next ==
    \E g \in Goroutine :
        \/ \E p \in Runs : \E s \in Path[p], n, o \in Node : Begin(g, p, n, o, s)
        \/ run[g] # Nobody /\ \E s \in Follow[run[g]][want[g]] : GoOn(g, s)
        \/ Return(g)

Spec == Init /\ [][Next]_vars

\* Nobody is obliged to begin.  A goroutine whose calls of Lock return comes to
\* its end, since all loops of the code are bounded and a remote call returns;
\* a mutex is handed to a waiter that has starved (Go's mutexes).
Fairness == \A g \in Goroutine : SF_vars(Return(g))

FairSpec == Spec /\ Fairness

-----------------------------------------------------------------------------
(* Properties *)

\* A goroutine is idle, or in a nesting of the path that it runs.
TypeOK ==
    /\ run \in [Goroutine -> Runs \cup {Nobody}]
    /\ here \in [Goroutine -> Node \cup {Nobody}]
    /\ there \in [Goroutine -> Node \cup {Nobody}]
    /\ want \in [Goroutine -> Seq([mutex : Mutex, at : {"here", "there"}])]
    /\ \A g \in Goroutine :
          \/ /\ run[g] = Nobody /\ here[g] = Nobody /\ there[g] = Nobody
             /\ want[g] = <<>>
          \/ /\ run[g] \in Runs /\ here[g] \in Home[g] /\ there[g] \in Node
             /\ want[g] \in Path[run[g]]

\* An order of the mutexes: handlers first, then synchronisation, the UTXO set,
\* the pool and the cached heights, the database, and last what is only taken
\* for a moment.
Rank ==
    [m \in Mutex |->
        CASE m \in {"gossipBlock", "gossipBlockHead", "gossipTxn", "gossipRelayTxn"} -> 1
          [] m = "syncMutex" -> 2
          [] m = "updateMutex" -> 3
          [] m \in {"mempool", "onceGetHeight", "onceHead"} -> 4
          [] m = "bolt" -> 5
          [] m \in {"boltMap", "decode", "height", "headHeight", "knownNodes", "level"} -> 6
          [] m = "prefix" -> 7]

\* Every goroutine takes its mutexes in that order, whichever nodes they belong
\* to.  Kept by every path, it excludes a circular wait among any number of
\* goroutines and nodes.
Ordered ==
    \A g \in Goroutine : \A i, j \in DOMAIN want[g] :
        i < j => Rank[want[g][i].mutex] < Rank[want[g][j].mutex]

\* No set of goroutines, of one node or of several that synchronise with each
\* other, is such that each waits in Lock for a mutex that one of them holds.
\* (A single goroutine would wait for itself: Go's mutexes are not reentrant.)
NoCircularWait ==
    \A S \in (SUBSET Goroutine) \ {{}} : \E g \in S : \A h \in S : ~Waits(g, h)

\* Every request and every round of a loop ends, whoever else is under way:
\* "periodic synchronisation" (network/server.go) never stops.
EveryRunEnds == \A g \in Goroutine : run[g] # Nobody ~> run[g] = Nobody

=============================================================================
