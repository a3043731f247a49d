----------------------------- MODULE LockPaths -----------------------------
(***************************************************************************)
(* Which mutexes the code of a node takes while it holds which others.     *)
(*                                                                         *)
(* A nesting is the sequence of mutexes that a goroutine holds at some     *)
(* moment, in the order in which it has taken them.  A path, that is a     *)
(* function, handler or loop, is given by the set of its nestings: what    *)
(* comes one after the other is a union, what happens between Lock and     *)
(* Unlock is put behind the mutex.  Order and repetition on one level do   *)
(* not matter for who can wait for whom.                                   *)
(*                                                                         *)
(* A remote call runs a handler of another node while the caller waits     *)
(* with all it holds, so the handler's mutexes, taken "there", are part of *)
(* the caller's nesting.                                                   *)
(***************************************************************************)
EXTENDS Naturals, Sequences

Mutex == {"gossipBlock", "gossipBlockHead", "gossipTxn", "gossipRelayTxn",
          "syncMutex", "updateMutex", "mempool", "onceGetHeight", "onceHead",
          "height", "headHeight", "knownNodes", "bolt", "boltMap", "decode",
          "level", "prefix"}

Lock(m) == [mutex |-> m, at |-> "here"]

\* Lock, body, Unlock.
Holding(m, body) == {<<Lock(m)>>} \cup {<<Lock(m)>> \o s : s \in body}
Use(m) == Holding(m, {})

Remote(path) == {[i \in DOMAIN s |-> [s[i] EXCEPT !.at = "there"]] : s \in path}

-----------------------------------------------------------------------------
(* log, utils, global *)

\* Debugln, Infof, Warnln and the like: setPrefix locks, the caller unlocks.
Log == Use("prefix")

\* The same between SetCallerLevel(n) and SetCallerLevel(0).
LogAt == Holding("level", Log)

Decode == Use("decode")

GetDatabase == Use("boltMap")

\* Get, Set, Delete, Clear.
DB == Holding("bolt", GetDatabase \cup LogAt)

\* Foreach calls its function with the database mutex held.
Foreach(body) == Holding("bolt", LogAt \cup GetDatabase \cup body)

GetMempool(body) == Holding("mempool", body)

-----------------------------------------------------------------------------
(* core *)

GetBlock == DB \cup Decode

GetHeight == Holding("onceGetHeight", GetBlock \cup Use("height")) \cup Use("height")

SetLastest == DB \cup Use("height")

AddBlockhead ==
    DB \cup Holding("onceHead", GetBlock \cup Use("headHeight")) \cup Use("headHeight")

\* The clean-up of the pool looks for parents in the database.
AddBlock ==
    GetHeight \cup SetLastest \cup AddBlockhead \cup GetMempool(LogAt \cup GetBlock)

TxnReindex == GetBlock \cup DB

Reindex == Holding("updateMutex", GetBlock \cup DB)

\* Mutant: Reindex is called before UpdateUnlock.
UpdateUnreleased ==
    Holding("updateMutex", GetBlock \cup Reindex) \cup TxnReindex

Update == Holding("updateMutex", GetBlock) \cup Reindex \cup TxnReindex

ReverseUTXO == Holding("updateMutex", GetBlock)

FindUTXOByHash == Holding("updateMutex", Foreach(Decode))

\* ExpandTxnOutput takes the mutex of the pool inside Foreach.
FindUTXOs == Holding("updateMutex", Foreach(Decode \cup GetMempool({})))

UTXOMemVerifyTransaction ==
    Holding("syncMutex", Holding("updateMutex", GetMempool({}) \cup GetBlock \cup Log))

\* VerifyTransaction and SignTransaction look up the parents.
FindParents == GetBlock \cup GetMempool({})

-----------------------------------------------------------------------------
(* network, and the handlers other nodes call while they hold mutexes *)

\* CallBack, CallSelf, CallInnerGroup and CallInterGroup log, then call.
Call(handler) == LogAt \cup Log \cup Remote(handler)

ParseParameter == Log \cup Decode

GetHash == ParseParameter \cup GetBlock

\* Mutant: a reader that waits until no synchronisation is under way.
GetBlocksLocked == ParseParameter \cup Holding("syncMutex", GetBlock)

GetBlocks == ParseParameter \cup GetBlock

SendVersion == ParseParameter \cup GetBlock

GetGenesis == ParseParameter \cup GetBlock

ServeKnownNodes == ParseParameter \cup Use("knownNodes")

-----------------------------------------------------------------------------
(* api, network, commands: what goroutines run *)

SyncBlocks ==
    Holding("syncMutex",
        GetHeight \cup Call(GetHash) \cup GetBlock \cup SetLastest
          \cup Call(GetBlocks) \cup ReverseUTXO \cup AddBlock \cup Update)

Sync ==
    Use("knownNodes") \cup GetHeight \cup Call(GetGenesis) \cup AddBlock
      \cup Reindex \cup TxnReindex \cup Call(SendVersion) \cup SyncBlocks

GossipBlock ==
    ParseParameter
      \cup Holding("gossipBlock",
               Log \cup GetBlock \cup Holding("syncMutex", AddBlock \cup Update)
                 \cup Sync \cup SyncBlocks)

GossipTxn ==
    ParseParameter
      \cup Holding("gossipTxn",
               GetMempool({}) \cup FindParents \cup UTXOMemVerifyTransaction \cup Log)

GossipRelayTxn ==
    ParseParameter
      \cup Holding("gossipRelayTxn",
               GetMempool({}) \cup GetBlock \cup UTXOMemVerifyTransaction \cup Log)

GossipBlockHead == ParseParameter \cup Holding("gossipBlockHead", AddBlockhead \cup Log)

GetBalance == ParseParameter \cup FindUTXOByHash

SendCMD ==
    ParseParameter \cup FindUTXOs \cup FindParents \cup Call(ServeKnownNodes)
      \cup Use("knownNodes")

\* One round of the mining loop: pool, last blocks, search.  It gives the block
\* to the node's own GossipBlock handler while it holds nothing.
Mine == GetMempool({}) \cup GetBlock \cup GetHeight \cup LogAt

\* One round of the loop that keeps the network together.
HeartBeat == Call(ServeKnownNodes) \cup Use("knownNodes")

Path ==
    [Sync |-> Sync, GossipBlock |-> GossipBlock, GossipTxn |-> GossipTxn,
     GossipRelayTxn |-> GossipRelayTxn, GossipBlockHead |-> GossipBlockHead,
     GetBalance |-> GetBalance, SendCMD |-> SendCMD, Mine |-> Mine,
     HeartBeat |-> HeartBeat]

=============================================================================
