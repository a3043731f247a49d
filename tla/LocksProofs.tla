---------------------------- MODULE LocksProofs ----------------------------
(***************************************************************************)
(* No circular wait among any number of goroutines on any number of nodes. *)
(* The argument has two halves.  Every path of LockPaths takes its mutexes *)
(* in the order Rank: shown path by path, from the bottom up.  And         *)
(* goroutines that each hold what the other wants would need mutexes of    *)
(* ever higher rank, but there are only seven ranks.                       *)
(***************************************************************************)
EXTENDS Locks, TLAPS

Step == [mutex : Mutex, at : {"here", "there"}]

Climbs(s) ==
    \A i, j \in DOMAIN s : i < j => Rank[s[i].mutex] < Rank[s[j].mutex]

\* The nestings of P take their mutexes in order, and only mutexes above rank k.
Above(P, k) ==
    \A s \in P :
        /\ s \in Seq(Step) /\ s # <<>>
        /\ \A i \in DOMAIN s : Rank[s[i].mutex] > k
        /\ Climbs(s)

-----------------------------------------------------------------------------
(* Ranks, and how paths are put together *)

\* The rank of every mutex the code has: handlers, synchronisation, UTXO set, pool
\* and cached heights, database, and what is only taken for a moment.
LEMMA Ranks ==
    /\ Rank["gossipBlock"] = 1 /\ Rank["gossipBlockHead"] = 1
    /\ Rank["gossipTxn"] = 1 /\ Rank["gossipRelayTxn"] = 1
    /\ Rank["syncMutex"] = 2 /\ Rank["updateMutex"] = 3
    /\ Rank["mempool"] = 4 /\ Rank["onceGetHeight"] = 4 /\ Rank["onceHead"] = 4
    /\ Rank["bolt"] = 5
    /\ Rank["boltMap"] = 6 /\ Rank["decode"] = 6 /\ Rank["height"] = 6
    /\ Rank["headHeight"] = 6 /\ Rank["knownNodes"] = 6 /\ Rank["level"] = 6
    /\ Rank["prefix"] = 7
BY DEF Rank, Mutex

\* There are seven ranks.
LEMMA RankType == \A m \in Mutex : Rank[m] \in 1..7
BY Ranks DEF Mutex

\* Every element of a nesting names a mutex.
LEMMA StepMutex ==
    ASSUME NEW s \in Seq(Step), NEW i \in DOMAIN s
    PROVE  /\ s[i] \in Step /\ s[i].mutex \in Mutex
           /\ s[i] = [mutex |-> s[i].mutex, at |-> s[i].at]
           /\ Rank[s[i].mutex] \in 1..7
<1>1. s[i] \in Step
  OBVIOUS
<1>2. s[i].mutex \in Mutex /\ s[i] = [mutex |-> s[i].mutex, at |-> s[i].at]
  BY <1>1 DEF Step
<1> QED BY <1>1, <1>2, RankType

\* Lock, body, Unlock keeps the order if the body only takes higher mutexes.
LEMMA HoldingAbove ==
    ASSUME NEW m \in Mutex, NEW k \in Nat, k < Rank[m],
           NEW body, Above(body, Rank[m])
    PROVE  Above(Holding(m, body), k)
<1>1. Lock(m) \in Step /\ Lock(m).mutex = m
  BY DEF Lock, Step
<1>2. Rank[m] \in 1..7 /\ \A n \in Mutex : Rank[n] \in 1..7
  BY RankType
<1> SUFFICES ASSUME NEW t \in Holding(m, body)
             PROVE  /\ t \in Seq(Step) /\ t # <<>>
                    /\ \A i \in DOMAIN t : Rank[t[i].mutex] > k
                    /\ Climbs(t)
  BY DEF Above
<1>3. CASE t = <<Lock(m)>>
  BY <1>1, <1>2, <1>3 DEF Climbs
<1>4. ASSUME NEW s \in body, t = <<Lock(m)>> \o s
      PROVE  /\ t \in Seq(Step) /\ t # <<>>
             /\ \A i \in DOMAIN t : Rank[t[i].mutex] > k
             /\ Climbs(t)
  <2>1. /\ s \in Seq(Step)
        /\ \A i \in DOMAIN s : Rank[s[i].mutex] > Rank[m]
        /\ Climbs(s)
    BY DEF Above
  <2>2. t \in Seq(Step) /\ Len(t) = Len(s) + 1 /\ t[1] = Lock(m)
        /\ \A i \in 2..Len(t) : t[i] = s[i - 1] /\ i - 1 \in DOMAIN s
    BY <1>1, <1>4, <2>1
  <2>3. \A i \in DOMAIN t : i = 1 \/ i \in 2..Len(t)
    BY <2>2
  <2>4. \A i \in DOMAIN s : Rank[s[i].mutex] \in 1..7
    BY <2>1, StepMutex
  <2>5. \A i \in DOMAIN t : Rank[t[i].mutex] > k /\ Rank[t[i].mutex] \in 1..7
    <3>1. SUFFICES ASSUME NEW i \in DOMAIN t
                   PROVE  Rank[t[i].mutex] > k /\ Rank[t[i].mutex] \in 1..7
      OBVIOUS
    <3>2. CASE i = 1
      BY <1>1, <1>2, <2>2, <3>2
    <3>3. CASE i \in 2..Len(t)
      BY <1>2, <2>1, <2>2, <2>4, <3>3
    <3> QED BY <2>3, <3>2, <3>3
  <2>6. ASSUME NEW i \in DOMAIN t, NEW j \in DOMAIN t, i < j
        PROVE  Rank[t[i].mutex] < Rank[t[j].mutex]
    <3>1. j \in 2..Len(t)
      BY <2>2, <2>6
    <3>2. CASE i = 1
      BY <1>1, <2>1, <2>2, <3>1, <3>2
    <3>3. CASE i \in 2..Len(t)
      BY <2>1, <2>2, <2>6, <3>1, <3>3 DEF Climbs
    <3> QED BY <2>3, <3>2, <3>3
  <2> QED BY <2>2, <2>5, <2>6 DEF Climbs
<1> QED BY <1>3, <1>4 DEF Holding

\* What comes one after the other.
LEMMA UnionAbove ==
    ASSUME NEW P, NEW Q, NEW k, Above(P, k), Above(Q, k)
    PROVE  Above(P \cup Q, k)
BY DEF Above

\* A weaker bound.
LEMMA AboveLess ==
    ASSUME NEW P, NEW k \in Nat, NEW n \in Nat, n <= k, Above(P, k)
    PROVE  Above(P, n)
<1> SUFFICES ASSUME NEW s \in P, NEW i \in DOMAIN s PROVE Rank[s[i].mutex] > n
  BY DEF Above
<1>1. s[i].mutex \in Mutex /\ Rank[s[i].mutex] > k
  BY StepMutex DEF Above
<1> QED BY <1>1, RankType

\* A handler of another node takes mutexes of the same ranks there.
LEMMA RemoteAbove ==
    ASSUME NEW P, NEW k \in Nat, Above(P, k)
    PROVE  Above(Remote(P), k)
<1> SUFFICES ASSUME NEW s \in P,
                    NEW t, t = [i \in DOMAIN s |-> [s[i] EXCEPT !.at = "there"]]
             PROVE  /\ t \in Seq(Step) /\ t # <<>>
                    /\ \A i \in DOMAIN t : Rank[t[i].mutex] > k
                    /\ Climbs(t)
  BY DEF Above, Remote
<1>1. s \in Seq(Step) /\ s # <<>> /\ Climbs(s) /\ \A i \in DOMAIN s : Rank[s[i].mutex] > k
  BY DEF Above
<1>2. DOMAIN t = DOMAIN s /\ \A i \in DOMAIN s : t[i] \in Step /\ t[i].mutex = s[i].mutex
  <2> SUFFICES ASSUME NEW i \in DOMAIN s
               PROVE  t[i] \in Step /\ t[i].mutex = s[i].mutex
    OBVIOUS
  <2>1. s[i].mutex \in Mutex /\ s[i] = [mutex |-> s[i].mutex, at |-> s[i].at]
    BY <1>1, StepMutex
  <2>2. t[i] = [mutex |-> s[i].mutex, at |-> "there"]
    BY <2>1
  <2> QED BY <2>1, <2>2 DEF Step
<1>3. t \in Seq(Step) /\ t # <<>>
  BY <1>1, <1>2
<1> QED BY <1>1, <1>2, <1>3 DEF Climbs

\* Lock and Unlock, nothing in between.
LEMMA UseAbove ==
    ASSUME NEW m \in Mutex, NEW k \in Nat, k < Rank[m]
    PROVE  Above(Use(m), k)
<1>1. Above({}, Rank[m])
  BY DEF Above
<1> QED BY <1>1, HoldingAbove DEF Use

-----------------------------------------------------------------------------
(* The paths, from the bottom up *)

\* log, utils and the database: nothing but short critical sections below bolt.
LEMMA StoragePaths ==
    /\ Above(Log, 6) /\ Above(LogAt, 5) /\ Above(Decode, 5)
    /\ Above(GetDatabase, 5) /\ Above(DB, 4) /\ Above(Foreach(Decode), 4)
    /\ Above(GetBlock, 4)
<1>m. {"prefix", "level", "decode", "boltMap", "bolt"} \subseteq Mutex
  BY DEF Mutex
<1>1. Above(Log, 6)
  BY <1>m, Ranks, UseAbove DEF Log
<1>2. Above(LogAt, 5)
  BY <1>m, <1>1, Ranks, HoldingAbove DEF LogAt
<1>3. Above(Decode, 5) /\ Above(GetDatabase, 5)
  BY <1>m, Ranks, UseAbove DEF Decode, GetDatabase
<1>4. Above(GetDatabase \cup LogAt, 5)
  BY <1>2, <1>3, UnionAbove
<1>5. Above(DB, 4)
  BY <1>m, <1>4, Ranks, HoldingAbove DEF DB
<1>6. Above(LogAt \cup GetDatabase \cup Decode, 5)
  BY <1>2, <1>3, UnionAbove
<1>7. Above(Foreach(Decode), 4)
  BY <1>m, <1>6, Ranks, HoldingAbove DEF Foreach
<1>8. Above(GetBlock, 4)
  BY <1>3, <1>5, UnionAbove, AboveLess DEF GetBlock
<1> QED BY <1>1, <1>2, <1>3, <1>5, <1>7, <1>8

\* core, the block store: the cached heights and the pool come before the database.
LEMMA StorePaths ==
    /\ Above(GetHeight, 3) /\ Above(SetLastest, 3) /\ Above(AddBlockhead, 3)
    /\ Above(AddBlock, 3) /\ Above(TxnReindex, 3) /\ Above(GetMempool({}), 3)
    /\ Above(FindParents, 3) /\ Above(GetBlock, 3)
<1>m. {"onceGetHeight", "onceHead", "height", "headHeight", "mempool"} \subseteq Mutex
  BY DEF Mutex
<1>1. Above(Use("height"), 4) /\ Above(Use("headHeight"), 4)
  BY <1>m, Ranks, UseAbove
<1>2. Above(Use("height"), 3) /\ Above(Use("headHeight"), 3)
  BY <1>m, Ranks, UseAbove
<1>3. Above(GetBlock, 3) /\ Above(DB, 3)
  BY StoragePaths, AboveLess
<1>4. Above(GetHeight, 3)
  <2>1. Above(GetBlock \cup Use("height"), 4)
    BY <1>1, StoragePaths, UnionAbove
  <2>2. Above(Holding("onceGetHeight", GetBlock \cup Use("height")), 3)
    BY <1>m, <2>1, Ranks, HoldingAbove
  <2> QED BY <1>2, <2>2, UnionAbove DEF GetHeight
<1>5. Above(SetLastest, 3) /\ Above(TxnReindex, 3)
  BY <1>2, <1>3, UnionAbove DEF SetLastest, TxnReindex
<1>6. Above(AddBlockhead, 3)
  <2>1. Above(GetBlock \cup Use("headHeight"), 4)
    BY <1>1, StoragePaths, UnionAbove
  <2>2. Above(Holding("onceHead", GetBlock \cup Use("headHeight")), 3)
    BY <1>m, <2>1, Ranks, HoldingAbove
  <2> QED BY <1>2, <1>3, <2>2, UnionAbove DEF AddBlockhead
<1>7. Above(GetMempool(LogAt \cup GetBlock), 3)
  <2>1. Above(LogAt \cup GetBlock, 4)
    BY StoragePaths, AboveLess, UnionAbove
  <2> QED BY <1>m, <2>1, Ranks, HoldingAbove DEF GetMempool
<1>8. Above(GetMempool({}), 3)
  BY <1>m, Ranks, UseAbove DEF GetMempool, Use
<1>9. Above(AddBlock, 3)
  BY <1>4, <1>5, <1>6, <1>7, UnionAbove DEF AddBlock
<1>10. Above(FindParents, 3)
  BY <1>3, <1>8, UnionAbove DEF FindParents
<1> QED BY <1>3, <1>4, <1>5, <1>6, <1>8, <1>9, <1>10

\* core, the UTXO set: updateMutex comes before all of the store.
LEMMA UTXOPaths ==
    /\ Above(Reindex, 2) /\ Above(Update, 2) /\ Above(ReverseUTXO, 2)
    /\ Above(FindUTXOByHash, 2) /\ Above(UTXOMemVerifyTransaction, 1)
<1>m. {"updateMutex", "syncMutex"} \subseteq Mutex
  BY DEF Mutex
<1>1. Above(GetBlock, 3) /\ Above(DB, 3) /\ Above(Log, 3) /\ Above(Foreach(Decode), 3)
  BY StoragePaths, AboveLess
<1>2. Above(Reindex, 2)
  <2>1. Above(GetBlock \cup DB, 3)
    BY <1>1, UnionAbove
  <2> QED BY <1>m, <2>1, Ranks, HoldingAbove DEF Reindex
<1>3. Above(ReverseUTXO, 2) /\ Above(FindUTXOByHash, 2)
  BY <1>m, <1>1, Ranks, HoldingAbove DEF ReverseUTXO, FindUTXOByHash
<1>4. Above(Update, 2)
  <2>1. Above(TxnReindex, 2)
    BY StorePaths, AboveLess
  <2> QED BY <1>2, <1>3, <2>1, UnionAbove DEF Update, ReverseUTXO
<1>5. Above(UTXOMemVerifyTransaction, 1)
  <2>1. Above(GetMempool({}) \cup GetBlock \cup Log, 3)
    BY <1>1, StorePaths, UnionAbove
  <2>2. Above(Holding("updateMutex", GetMempool({}) \cup GetBlock \cup Log), 2)
    BY <1>m, <2>1, Ranks, HoldingAbove
  <2> QED BY <1>m, <2>2, Ranks, HoldingAbove DEF UTXOMemVerifyTransaction
<1> QED BY <1>2, <1>3, <1>4, <1>5

\* A call logs and runs a handler elsewhere, whose mutexes count as well.
LEMMA CallAbove ==
    ASSUME NEW P, NEW k \in 0..5, Above(P, k)
    PROVE  Above(Call(P), k)
<1>1. Above(LogAt, k) /\ Above(Log, k) /\ Above(Remote(P), k)
  BY StoragePaths, AboveLess, RemoteAbove
<1> QED BY <1>1, UnionAbove DEF Call

\* The handlers that are called across nodes take no mutex above the database.
LEMMA HandlerPaths ==
    /\ Above(ParseParameter, 4)
    /\ Above(Call(GetHash), 4) /\ Above(Call(GetBlocks), 4)
    /\ Above(Call(SendVersion), 4) /\ Above(Call(GetGenesis), 4)
    /\ Above(Call(ServeKnownNodes), 4) /\ Above(Use("knownNodes"), 4)
<1>1. Above(ParseParameter, 4)
  BY StoragePaths, AboveLess, UnionAbove DEF ParseParameter
<1>2. Above(Use("knownNodes"), 4)
  BY Ranks, UseAbove DEF Mutex
<1>3. Above(GetHash, 4) /\ Above(GetBlocks, 4) /\ Above(SendVersion, 4)
      /\ Above(GetGenesis, 4) /\ Above(ServeKnownNodes, 4)
  BY <1>1, <1>2, StoragePaths, UnionAbove
  DEF GetHash, GetBlocks, SendVersion, GetGenesis, ServeKnownNodes
<1> QED BY <1>1, <1>2, <1>3, CallAbove

\* syncBlocks holds syncMutex over its calls and over all it does to the store.
LEMMA SyncPaths == Above(SyncBlocks, 1) /\ Above(Sync, 1)
<1>m. "syncMutex" \in Mutex
  BY DEF Mutex
<1>1. /\ Above(GetHeight, 2) /\ Above(GetBlock, 2) /\ Above(SetLastest, 2)
      /\ Above(AddBlock, 2) /\ Above(Call(GetHash), 2) /\ Above(Call(GetBlocks), 2)
  BY StorePaths, HandlerPaths, AboveLess
<1>2. Above(GetHeight \cup Call(GetHash) \cup GetBlock \cup SetLastest
              \cup Call(GetBlocks) \cup ReverseUTXO \cup AddBlock \cup Update, 2)
  BY <1>1, UTXOPaths, UnionAbove
<1>3. Above(SyncBlocks, 1)
  BY <1>m, <1>2, Ranks, HoldingAbove DEF SyncBlocks
<1>4. /\ Above(Use("knownNodes"), 1) /\ Above(GetHeight, 1) /\ Above(Call(GetGenesis), 1)
      /\ Above(AddBlock, 1) /\ Above(Reindex, 1) /\ Above(TxnReindex, 1)
      /\ Above(Call(SendVersion), 1)
  BY StorePaths, HandlerPaths, UTXOPaths, AboveLess
<1>5. Above(Sync, 1)
  BY <1>3, <1>4, UnionAbove DEF Sync
<1> QED BY <1>3, <1>5

\* Every path that a goroutine runs takes its mutexes in order, with the exception
\* of SendCMD, whose FindUTXOs takes the mutex of the pool inside Foreach.
LEMMA PathsOrdered == \A p \in DOMAIN Path \ {"SendCMD"} : Above(Path[p], 0)
<1>m. {"gossipBlock", "gossipBlockHead", "gossipTxn", "gossipRelayTxn", "syncMutex"}
        \subseteq Mutex
  BY DEF Mutex
<1>1. /\ Above(ParseParameter, 0) /\ Above(GetMempool({}), 0) /\ Above(GetBlock, 0)
      /\ Above(GetHeight, 0) /\ Above(LogAt, 0) /\ Above(FindUTXOByHash, 0)
      /\ Above(Call(ServeKnownNodes), 0) /\ Above(Use("knownNodes"), 0)
  BY StoragePaths, StorePaths, UTXOPaths, HandlerPaths, AboveLess
<1>2. /\ Above(Log, 1) /\ Above(GetBlock, 1) /\ Above(GetMempool({}), 1)
      /\ Above(FindParents, 1) /\ Above(AddBlockhead, 1)
  BY StoragePaths, StorePaths, AboveLess
<1>3. Above(Sync, 0)
  BY SyncPaths, AboveLess
<1>4. Above(GossipBlock, 0)
  <2>1. Above(AddBlock \cup Update, 2)
    BY StorePaths, UTXOPaths, AboveLess, UnionAbove
  <2>2. Above(Holding("syncMutex", AddBlock \cup Update), 1)
    BY <1>m, <2>1, Ranks, HoldingAbove
  <2>3. Above(Log \cup GetBlock \cup Holding("syncMutex", AddBlock \cup Update)
                \cup Sync \cup SyncBlocks, 1)
    BY <1>2, <2>2, SyncPaths, UnionAbove
  <2>4. Above(Holding("gossipBlock",
                 Log \cup GetBlock \cup Holding("syncMutex", AddBlock \cup Update)
                   \cup Sync \cup SyncBlocks), 0)
    BY <1>m, <2>3, Ranks, HoldingAbove
  <2> QED BY <1>1, <2>4, UnionAbove DEF GossipBlock
<1>5. Above(GossipTxn, 0)
  <2>1. Above(GetMempool({}) \cup FindParents \cup UTXOMemVerifyTransaction \cup Log, 1)
    BY <1>2, UTXOPaths, UnionAbove
  <2>2. Above(Holding("gossipTxn",
            GetMempool({}) \cup FindParents \cup UTXOMemVerifyTransaction \cup Log), 0)
    BY <1>m, <2>1, Ranks, HoldingAbove
  <2> QED BY <1>1, <2>2, UnionAbove DEF GossipTxn
<1>6. Above(GossipRelayTxn, 0)
  <2>1. Above(GetMempool({}) \cup GetBlock \cup UTXOMemVerifyTransaction \cup Log, 1)
    BY <1>2, UTXOPaths, UnionAbove
  <2>2. Above(Holding("gossipRelayTxn",
            GetMempool({}) \cup GetBlock \cup UTXOMemVerifyTransaction \cup Log), 0)
    BY <1>m, <2>1, Ranks, HoldingAbove
  <2> QED BY <1>1, <2>2, UnionAbove DEF GossipRelayTxn
<1>7. Above(GossipBlockHead, 0)
  <2>1. Above(AddBlockhead \cup Log, 1)
    BY <1>2, UnionAbove
  <2>2. Above(Holding("gossipBlockHead", AddBlockhead \cup Log), 0)
    BY <1>m, <2>1, Ranks, HoldingAbove
  <2> QED BY <1>1, <2>2, UnionAbove DEF GossipBlockHead
<1>8. Above(GetBalance, 0) /\ Above(Mine, 0) /\ Above(HeartBeat, 0)
  BY <1>1, UnionAbove DEF GetBalance, Mine, HeartBeat
<1> HIDE DEF Above
<1> QED BY <1>3, <1>4, <1>5, <1>6, <1>7, <1>8 DEF Path

-----------------------------------------------------------------------------
(* The specification *)

\* Every goroutine stays on its path (types of all variables).
THEOREM TypeCorrect == ASSUME "SendCMD" \notin Runs PROVE Spec => []TypeOK
<1> USE LocksAssumption
<1>p. \A p \in Runs : \A s \in Path[p] : s \in Seq(Step) /\ s # <<>>
  BY PathsOrdered DEF Above
<1>1. Init => TypeOK
  BY DEF Init, TypeOK
<1>2. TypeOK /\ [Next]_vars => TypeOK'
  <2> SUFFICES ASSUME TypeOK, [Next]_vars PROVE TypeOK'
    OBVIOUS
  <2> DEFINE Fine(g) ==
        \/ /\ run[g] = Nobody /\ here[g] = Nobody /\ there[g] = Nobody
           /\ want[g] = <<>>
        \/ /\ run[g] \in Runs /\ here[g] \in Home[g] /\ there[g] \in Node
           /\ want[g] \in Path[run[g]]
  <2> DEFINE Typed ==
        /\ run \in [Goroutine -> Runs \cup {Nobody}]
        /\ here \in [Goroutine -> Node \cup {Nobody}]
        /\ there \in [Goroutine -> Node \cup {Nobody}]
        /\ want \in [Goroutine -> Seq(Step)]
        /\ \A g \in Goroutine : Fine(g)
  <2>0. Typed
    BY DEF TypeOK, Step
  <2>1. ASSUME NEW g \in Goroutine, NEW p \in Runs, NEW s \in Path[p],
               NEW n \in Node, NEW o \in Node, Begin(g, p, n, o, s)
        PROVE  Typed'
    <3>1. s \in Seq(Step) /\ n \in Home[g]
      BY <1>p, <2>1 DEF Begin
    <3> QED BY <2>0, <2>1, <3>1 DEF Begin
  <2>2. ASSUME NEW g \in Goroutine, run[g] # Nobody,
               NEW s \in Follow[run[g]][want[g]], GoOn(g, s)
        PROVE  Typed'
    <3>1. run[g] \in Runs /\ want[g] \in Path[run[g]]
      BY <2>0, <2>2
    <3>2. s \in Path[run[g]]
      BY <2>2, <3>1 DEF Follow
    <3>3. s \in Seq(Step)
      BY <1>p, <3>1, <3>2
    <3> QED BY <2>0, <2>2, <3>1, <3>2, <3>3 DEF GoOn
  <2>3. ASSUME NEW g \in Goroutine, Return(g)
        PROVE  Typed'
    <3>1. <<>> \in Seq(Step)
      OBVIOUS
    <3> QED BY <2>0, <2>3, <3>1 DEF Return
  <2>4. ASSUME UNCHANGED vars
        PROVE  Typed'
    <3>1. run' = run /\ here' = here /\ there' = there /\ want' = want
      BY <2>4 DEF vars
    <3> QED BY <2>0, <3>1
  <2>5. Typed'
    <3> HIDE DEF Typed
    <3>1. CASE Next
      BY <2>1, <2>2, <2>3, <3>1 DEF Next
    <3> QED BY <2>4, <3>1
  <2> QED BY <2>5 DEF TypeOK, Step
<1> QED BY <1>1, <1>2, PTL DEF Spec

\* Whatever goroutines run, each has taken its mutexes in the order Rank.
THEOREM AlwaysOrdered == ASSUME "SendCMD" \notin Runs PROVE Spec => []Ordered
<1>1. TypeOK => Ordered
  <2> SUFFICES ASSUME TypeOK, NEW g \in Goroutine PROVE Climbs(want[g])
    BY DEF Ordered, Climbs
  <2>1. CASE want[g] = <<>>
    BY <2>1 DEF Climbs
  <2>2. CASE run[g] \in Runs /\ want[g] \in Path[run[g]]
    <3>1. run[g] \in DOMAIN Path \ {"SendCMD"}
      BY <2>2, LocksAssumption
    <3> QED BY <2>2, <3>1, PathsOrdered DEF Above
  <2> QED BY <2>1, <2>2 DEF TypeOK
<1> QED BY <1>1, TypeCorrect, PTL

\* Who waits for another goroutine wants a mutex of lower rank than the other one.
LEMMA WaitsForHigher ==
    ASSUME TypeOK, Ordered, NEW g \in Goroutine, NEW h \in Goroutine, Waits(g, h)
    PROVE  Rank[Last(want[g]).mutex] < Rank[Last(want[h]).mutex]
<1>1. want[g] \in Seq(Step) /\ want[h] \in Seq(Step)
  BY DEF TypeOK, Step
<1>2. PICK i \in DOMAIN Held(h) : Place(h, Held(h)[i]) = Place(g, Last(want[g]))
  BY DEF Waits, Holds
<1>3. Held(h)[i].mutex = Last(want[g]).mutex
  BY <1>2 DEF Place
<1>4. want[h] # <<>>
  BY <1>2 DEF Held
<1>5. Held(h) = SubSeq(want[h], 1, Len(want[h]) - 1)
  BY <1>4 DEF Held, Front
<1>6. /\ i \in DOMAIN want[h] /\ Len(want[h]) \in DOMAIN want[h] /\ i < Len(want[h])
      /\ Held(h)[i] = want[h][i]
  BY <1>1, <1>2, <1>4, <1>5
<1> QED BY <1>3, <1>6 DEF Ordered, Last

\* No set of goroutines waits in a circle, whatever their number and that of the
\* nodes: each would wait for one that wants a mutex of higher rank.
THEOREM NeverCircularWait ==
    ASSUME "SendCMD" \notin Runs PROVE Spec => []NoCircularWait
<1>1. TypeOK /\ Ordered => NoCircularWait
  <2> SUFFICES ASSUME TypeOK, Ordered, NEW S \in SUBSET Goroutine, S # {},
                      \A g \in S : \E h \in S : Waits(g, h)
               PROVE  FALSE
    BY DEF NoCircularWait
  <2> DEFINE R(g) == Rank[Last(want[g]).mutex]
  <2>1. \A g \in S : R(g) \in 1..7
    <3> SUFFICES ASSUME NEW g \in S PROVE R(g) \in 1..7
      OBVIOUS
    <3>1. want[g] \in Seq(Step) /\ want[g] # <<>>
      BY DEF TypeOK, Step, Waits
    <3>2. Len(want[g]) \in DOMAIN want[g]
      BY <3>1
    <3> QED BY <3>1, <3>2, StepMutex DEF Last
  <2>2. \A g \in S : \E h \in S : R(g) < R(h)
    <3> TAKE g \in S
    <3>1. PICK h \in S : Waits(g, h)
      OBVIOUS
    <3>2. g \in Goroutine /\ h \in Goroutine
      OBVIOUS
    <3>3. R(g) < R(h)
      BY <3>1, <3>2, WaitsForHigher
    <3> QED BY <3>3
  <2> HIDE DEF R
  <2>3. \A g \in S : R(g) \in 1..6
    BY <2>1, <2>2
  <2>4. \A g \in S : R(g) \in 1..5
    BY <2>2, <2>3
  <2>5. \A g \in S : R(g) \in 1..4
    BY <2>2, <2>4
  <2>6. \A g \in S : R(g) \in 1..3
    BY <2>2, <2>5
  <2>7. \A g \in S : R(g) \in 1..2
    BY <2>2, <2>6
  <2>8. \A g \in S : R(g) \in 1..1
    BY <2>2, <2>7
  <2> QED BY <2>2, <2>8
<1> QED BY <1>1, TypeCorrect, AlwaysOrdered, PTL

\* While any goroutine is under way, the call of Lock of one of them returns.
SomeoneGoesOn ==
    (\E g \in Goroutine : want[g] # <<>>) => \E g \in Goroutine : CanLock(g)

\* The nodes never come to a standstill, each handler waiting in Lock: of the
\* goroutines under way one waits for none of the others, and idle ones hold
\* nothing.
THEOREM NeverStandstill ==
    ASSUME "SendCMD" \notin Runs PROVE Spec => []SomeoneGoesOn
<1>1. NoCircularWait => SomeoneGoesOn
  <2> DEFINE S == {g \in Goroutine : want[g] # <<>>}
  <2> SUFFICES ASSUME NoCircularWait, S # {} PROVE \E g \in Goroutine : CanLock(g)
    BY DEF SomeoneGoesOn
  <2>1. PICK g \in S : \A h \in S : ~Waits(g, h)
    <3> S \in (SUBSET Goroutine) \ {{}}
      OBVIOUS
    <3> QED BY DEF NoCircularWait
  <2>2. ASSUME NEW h \in Goroutine, want[h] = <<>>
        PROVE  ~Waits(g, h)
    BY <2>2 DEF Waits, Holds, Held
  <2>3. CanLock(g)
    BY <2>1, <2>2 DEF CanLock
  <2> QED BY <2>1, <2>3
<1> QED BY <1>1, NeverCircularWait, PTL

=============================================================================
