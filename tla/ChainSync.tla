----------------------------- MODULE ChainSync -----------------------------
(***************************************************************************)
(* How one node keeps the chain of one group: the block store of           *)
(* core/blockchain.go, the handler of gossiped blocks (api/db.go) and the  *)
(* synchronisation with a peer (api/sync.go), which share the store and    *)
(* global.syncMutex.  Two goroutines run this code: the gossip handler,    *)
(* serialised by mutexGossipBlock, and the periodic synchroniser started   *)
(* by network.StartServer.  The peers are the environment; each is a node  *)
(* that keeps the promise of module LongestChain.                          *)
(*                                                                         *)
(* A block holds its coinbase transaction only, so the transaction index   *)
(* and the UTXO set are sets of blocks: those whose coinbase they hold.    *)
(* Blocks that spend outputs are the subject of module Ledger.             *)
(***************************************************************************)
EXTENDS BlockTree, FiniteSets

CONSTANTS
    Peer,           \* addresses of the other nodes of the group
    Free,           \* value of syncMutex when it is not held
    Starts,         \* chains the node may find in its store when it starts
    HeadGossip,     \* blocks whose head other groups' nodes may gossip
    MaxFailures,    \* how many remote calls of a synchronisation may fail
    TornReplies     \* may a peer change its chain while it answers GetBlocks?

Thread == {"gossip", "periodic"}

ASSUME SyncAssumption ==
    /\ Starts \subseteq Block \cup {Nil}
    /\ HeadGossip \subseteq Block
    /\ Free \notin Thread
    /\ MaxFailures \in Nat
    /\ TornReplies \in BOOLEAN

VARIABLES
    (* The block store of the group. *)
    lastest,        \* the "lastest" key: a block or Nil
    blocks,         \* blocks stored under their hash
    byHeight,       \* height -> block, the index of main-chain heights
    heads,          \* height -> block whose head is stored
    headHeight,     \* cacheBlockheadHeight
    txns,           \* blocks whose coinbase is in the transaction index
    utxo,           \* blocks whose coinbase output is in the UTXO set
    (* The synchronisation that holds the lock. *)
    syncMutex,      \* the thread that holds it, or Free
    l, r,           \* bounds of the binary search
    lastestHeight,  \* height of the chain when the lock was taken
    originHash,     \* its last block
    lastestHash,    \* block that the next appended block must follow
    reply,          \* blocks received from the peer and not yet appended
    moved,          \* history: has the peer changed its chain meanwhile?
    (* The two goroutines. *)
    pc,             \* where each thread is
    newHeight,      \* per thread: height to synchronise up to
    address,        \* per thread: peer to synchronise with
    arg,            \* block that the gossip handler is about to add, or Nil
    (* The environment. *)
    peer,           \* last block of each peer's chain
    failures        \* number of remote calls that have failed

store == <<lastest, blocks, byHeight, heads, headHeight, txns>>
job == <<l, r, lastestHeight, originHash, lastestHash, reply, moved>>
threads == <<newHeight, address, arg>>
env == <<peer, failures>>

vars == <<store, utxo, syncMutex, job, pc, threads, env>>

Heights == 0..MaxHeight

Steps == {"idle", "apply", "sync", "genesis", "reindex", "txnReindex",
          "version", "lock", "search", "fetch", "serve", "revert", "append"}

-----------------------------------------------------------------------------
(* The block store *)

HeightOf(b) == IF b = Nil THEN -1 ELSE Height(b)

\* The cached height follows every SetLastest (see the height cache).
GetHeight == HeightOf(lastest)

\* What a store holds that has exactly the chain of b, for b = Nil none.
BlocksOf(b) == IF b = Nil THEN {} ELSE ChainOf(b)
IndexOf(b) == [h \in Heights |-> IF h <= HeightOf(b) THEN At(b, h) ELSE Nil]

BlockAt(h) == IF h \in Heights THEN byHeight[h] ELSE Nil

\* What Blockchain.Begin and Next visit: from lastest down, through the
\* blocks stored by hash.
Iterated ==
    {b \in ChainOf(lastest) :
        \A h \in Height(b)..Height(lastest) : At(lastest, h) \in blocks}

\* Mutant: the cached height runs ahead of the stored heads.
AddBlockheadAhead(b) ==
    IF heads[Height(b)] = Nil /\ headHeight + 1 = Height(b)
      THEN /\ heads' = [heads EXCEPT ![Height(b)] = b]
           /\ headHeight' = Height(b) + 1
      ELSE UNCHANGED <<heads, headHeight>>

AddBlockhead(b) ==
    IF heads[Height(b)] = Nil /\ headHeight + 1 = Height(b)
      THEN /\ heads' = [heads EXCEPT ![Height(b)] = b]
           /\ headHeight' = Height(b)
      ELSE UNCHANGED <<heads, headHeight>>

\* What AddBlock writes.  (Mutant of AddBlock: a block of any height is taken.)
StoreBlock(b) ==
    /\ lastest' = b
    /\ blocks' = blocks \cup {b}
    /\ byHeight' = [byHeight EXCEPT ![Height(b)] = b]
    /\ AddBlockhead(b)
    /\ txns' = txns \cup {b}

AddBlock(b) ==
    IF GetHeight + 1 = Height(b) THEN StoreBlock(b) ELSE UNCHANGED store

\* Mutant: Update runs before AddBlock and believes only stored blocks.
UpdateStored(b) == utxo' = utxo \cup ({b} \cap blocks)

Update(b) == utxo' = utxo \cup {b}

\* Reverse gives back what the ordinary transactions of a block spent and
\* leaves the outputs of its coinbase where they are.
Reverse(bs) == utxo' = utxo

\* Mutant: the blocks stay under their hashes.
KeepByHash(bs) == UNCHANGED blocks

DeleteByHash(bs) == blocks' = blocks \ bs

\* Mutant: the transactions stay in the index.
KeepTxns(bs) == UNCHANGED txns

DeleteTxns(bs) == txns' = txns \ bs

\* DeleteBlock does not touch lastest, nor the cached head height.
DeleteBlocks(bs) ==
    /\ DeleteByHash(bs)
    /\ byHeight' = [h \in Heights |->
                      IF \E b \in bs : Height(b) = h THEN Nil ELSE byHeight[h]]
    /\ heads' = [h \in Heights |->
                      IF \E b \in bs : Height(b) = h THEN Nil ELSE heads[h]]
    /\ DeleteTxns(bs)

-----------------------------------------------------------------------------
(* Threads *)

\* Where a thread waits between two runs: the handler for a request, the
\* synchroniser at the beginning of Sync.
Rest(t) == IF t = "gossip" THEN "idle" ELSE "sync"

Goto(t, where) == pc' = [pc EXCEPT ![t] = where]

\* The end of a handler or of Sync.
Return(t) ==
    /\ Goto(t, Rest(t))
    /\ newHeight' = [newHeight EXCEPT ![t] = 0]
    /\ address' = [address EXCEPT ![t] = Nil]
    /\ arg' = IF t = "gossip" THEN Nil ELSE arg

\* The deferred SyncUnlock of syncBlocks; its locals go out of scope.
UnlockAndReturn(t) ==
    /\ syncMutex' = Free
    /\ l' = 0 /\ r' = 0 /\ lastestHeight' = 0
    /\ originHash' = Nil /\ lastestHash' = Nil
    /\ reply' = <<>>
    /\ moved' = FALSE
    /\ Return(t)

-----------------------------------------------------------------------------
(* Gossip of blocks and of block heads *)

\* A gossiped block arrives: late, twice, out of order or from a fork.  The
\* handler reads lastest without the lock.  A lower block is only answered
\* by sending lastest back, which changes nothing here.
GossipBlock(b, a) ==
    /\ pc["gossip"] = "idle"
    /\ Height(b) > GetHeight
    /\ \/ /\ lastest = Nil
          /\ Goto("gossip", "sync")
          /\ UNCHANGED threads
       \/ /\ lastest # Nil
          /\ PrevHash(b) = lastest
          /\ Goto("gossip", "apply")
          /\ arg' = b
          /\ UNCHANGED <<newHeight, address>>
       \/ /\ lastest # Nil
          /\ PrevHash(b) # lastest
          /\ Goto("gossip", "lock")
          /\ newHeight' = [newHeight EXCEPT !["gossip"] = Height(b)]
          /\ address' = [address EXCEPT !["gossip"] = a]
          /\ UNCHANGED arg
    /\ UNCHANGED <<store, utxo, syncMutex, job, env>>

\* The handler gets the lock.  AddBlock checks the height again, not the
\* predecessor, and Update runs whatever AddBlock did.
GossipApply ==
    /\ pc["gossip"] = "apply"
    /\ syncMutex = Free
    /\ AddBlock(arg)
    /\ Update(arg)
    /\ Return("gossip")
    /\ UNCHANGED <<syncMutex, job, env>>

GossipBlockHead(b) ==
    /\ heads[Height(b)] = Nil
    /\ headHeight + 1 = Height(b)
    /\ AddBlockhead(b)
    /\ UNCHANGED <<lastest, blocks, byHeight, txns, utxo, syncMutex, job, pc,
                   threads, env>>

-----------------------------------------------------------------------------
(* Sync: bootstrap and negotiation, without the lock *)

\* Mutant: Sync does not look whether there is a chain.
SyncWithoutGenesis(t) ==
    /\ pc[t] = "sync"
    /\ Goto(t, "version")
    /\ UNCHANGED <<store, utxo, syncMutex, job, threads, env>>

Sync(t) ==
    /\ pc[t] = "sync"
    /\ Goto(t, IF GetHeight < 0 THEN "genesis" ELSE "version")
    /\ UNCHANGED <<store, utxo, syncMutex, job, threads, env>>

GetGenesis(t) ==
    /\ pc[t] = "genesis"
    /\ AddBlock(Genesis)
    /\ Goto(t, "reindex")
    /\ UNCHANGED <<utxo, syncMutex, job, threads, env>>

Reindex(t) ==
    /\ pc[t] = "reindex"
    /\ utxo' = Iterated
    /\ Goto(t, "txnReindex")
    /\ UNCHANGED <<store, syncMutex, job, threads, env>>

TxnReindex(t) ==
    /\ pc[t] = "txnReindex"
    /\ txns' = Iterated
    /\ Goto(t, "version")
    /\ UNCHANGED <<lastest, blocks, byHeight, heads, headHeight, utxo,
                   syncMutex, job, threads, env>>

\* The first peer that answers tells its height.  A call that fails is
\* repeated after five seconds and changes nothing.
SendVersion(t, a) ==
    /\ pc[t] = "version"
    /\ newHeight' = [newHeight EXCEPT ![t] = Height(peer[a])]
    /\ address' = [address EXCEPT ![t] = a]
    /\ Goto(t, "lock")
    /\ UNCHANGED <<store, utxo, syncMutex, job, arg, env>>

-----------------------------------------------------------------------------
(* syncBlocks, with the lock *)

\* Mutants: a chain of the same height is good enough; one block is not worth it.
NeedsSyncSameHeight(t) == newHeight[t] >= GetHeight /\ GetHeight # -1
NeedsSyncTwoHigher(t) == newHeight[t] > GetHeight + 1 /\ GetHeight # -1

\* Neither of the early returns of syncBlocks is taken.
NeedsSync(t) == newHeight[t] > GetHeight /\ GetHeight # -1

SyncNotNeeded(t) ==
    /\ pc[t] = "lock"
    /\ syncMutex = Free
    /\ ~NeedsSync(t)
    /\ Return(t)
    /\ UNCHANGED <<store, utxo, syncMutex, job, env>>

SyncStart(t) ==
    /\ pc[t] = "lock"
    /\ syncMutex = Free
    /\ NeedsSync(t)
    /\ syncMutex' = t
    /\ lastestHeight' = GetHeight
    /\ originHash' = lastest
    /\ l' = 0
    /\ r' = GetHeight
    /\ Goto(t, "search")
    /\ UNCHANGED <<store, utxo, lastestHash, reply, moved, threads, env>>

\* The peer of the synchronisation, and the block it has at a height.
PeerBlock(t, h) ==
    IF h \in 0..Height(peer[address[t]]) THEN At(peer[address[t]], h) ELSE Nil

\* Mutant: the search skips a height.
NarrowTooFar(m, same) ==
    IF same THEN l' = m + 1 /\ UNCHANGED r ELSE r' = m - 2 /\ UNCHANGED l

Narrow(m, same) ==
    IF same THEN l' = m + 1 /\ UNCHANGED r ELSE r' = m - 1 /\ UNCHANGED l

\* One round of the binary search for the last common block.
Search(t) ==
    /\ pc[t] = "search"
    /\ l <= r
    /\ LET m == l + (r - l) \div 2
       IN  /\ PeerBlock(t, m) # Nil
           /\ Narrow(m, PeerBlock(t, m) = BlockAt(m))
    /\ UNCHANGED <<store, utxo, syncMutex, lastestHeight, originHash,
                   lastestHash, reply, moved, pc, threads, env>>

\* A remote call fails by chance (a bounded number of times) or because the
\* peer cannot answer.
CallFails(cannot) ==
    \/ cannot /\ UNCHANGED failures
    \/ failures < MaxFailures /\ failures' = failures + 1

SearchFail(t) ==
    /\ pc[t] = "search"
    /\ l <= r
    /\ CallFails(PeerBlock(t, l + (r - l) \div 2) = Nil)
    /\ UnlockAndReturn(t)
    /\ UNCHANGED <<store, utxo, peer>>

\* lastest is moved to the last common block before the peer is asked for
\* its blocks; everybody who does not take the lock sees it there.
Rewind(t) ==
    /\ pc[t] = "search"
    /\ r < l
    /\ lastest' = BlockAt(r)
    /\ lastestHash' = BlockAt(r)
    /\ Goto(t, "fetch")
    /\ UNCHANGED <<blocks, byHeight, heads, headHeight, txns, utxo, syncMutex,
                   l, r, lastestHeight, originHash, reply, moved, threads, env>>

\* The peer's GetBlocks handler accepts the request.
CanServe(t) ==
    /\ l # 0
    /\ PeerBlock(t, l) # Nil
    /\ PrevHash(PeerBlock(t, l)) = lastestHash

GetBlocks(t) ==
    /\ pc[t] = "fetch"
    /\ CanServe(t)
    /\ Goto(t, "serve")
    /\ UNCHANGED <<store, utxo, syncMutex, job, threads, env>>

\* Mutant: the loop begins one block too high.
SkipFirst == l + Len(reply) + 1

NextServed == l + Len(reply)

\* ... and collects the blocks of its index, height by height, without a lock.
ServeBlock(t) ==
    /\ pc[t] = "serve"
    /\ PeerBlock(t, NextServed) # Nil
    /\ reply' = Append(reply, PeerBlock(t, NextServed))
    /\ Goto(t, IF NextServed = newHeight[t] THEN "revert" ELSE "serve")
    /\ UNCHANGED <<store, utxo, syncMutex, l, r, lastestHeight, originHash,
                   lastestHash, moved, threads, env>>

\* Mutant: an error path that forgets to put lastest back.
LeaveRewound == UNCHANGED lastest

\* The reply is an error: lastest is put back.
RestoreOrigin == lastest' = IF originHash \in blocks THEN originHash ELSE Nil

FetchFail(t) ==
    /\ \/ /\ pc[t] = "fetch"
          /\ CallFails(~CanServe(t))
       \/ /\ pc[t] = "serve"
          /\ CallFails(PeerBlock(t, NextServed) = Nil)
    /\ RestoreOrigin
    /\ UnlockAndReturn(t)
    /\ UNCHANGED <<blocks, byHeight, heads, headHeight, txns, utxo, peer>>

\* The blocks above the common one leave the store.
Revert(t) ==
    /\ pc[t] = "revert"
    /\ LET gone == {byHeight[h] : h \in r + 1 .. lastestHeight} \ {Nil}
       IN  Reverse(gone) /\ DeleteBlocks(gone)
    /\ Goto(t, "append")
    /\ UNCHANGED <<lastest, headHeight, syncMutex, job, threads, env>>

AppendBlock(t) ==
    /\ pc[t] = "append"
    /\ reply # <<>>
    /\ PrevHash(Head(reply)) = lastestHash
    /\ AddBlock(Head(reply))
    /\ Update(Head(reply))
    /\ lastestHash' = Head(reply)
    /\ reply' = Tail(reply)
    /\ UNCHANGED <<syncMutex, l, r, lastestHeight, originHash, moved, pc,
                   threads, env>>

AppendDone(t) ==
    /\ pc[t] = "append"
    /\ reply # <<>> => PrevHash(Head(reply)) # lastestHash
    /\ UnlockAndReturn(t)
    /\ UNCHANGED <<store, utxo, env>>

-----------------------------------------------------------------------------
(* The peers, and the whole *)

\* A peer replaces its chain by a higher one, as every node does.
PeerMoves(p) ==
    /\ \E b \in Block : Height(b) > Height(peer[p]) /\ peer' = [peer EXCEPT ![p] = b]
    /\ TornReplies \/ \A t \in Thread : pc[t] = "serve" => address[t] # p
    /\ moved' = (moved \/ (syncMutex # Free /\ address[syncMutex] = p))
    /\ UNCHANGED <<store, utxo, syncMutex, l, r, lastestHeight, originHash,
                   lastestHash, reply, pc, threads, failures>>

Init ==
    /\ lastest \in Starts
    /\ blocks = BlocksOf(lastest)
    /\ byHeight = IndexOf(lastest)
    /\ heads = byHeight
    /\ headHeight = GetHeight
    /\ txns = blocks
    /\ utxo = blocks
    /\ syncMutex = Free
    /\ l = 0 /\ r = 0 /\ lastestHeight = 0
    /\ originHash = Nil /\ lastestHash = Nil
    /\ reply = <<>>
    /\ moved = FALSE
    /\ pc = [t \in Thread |-> Rest(t)]
    /\ newHeight = [t \in Thread |-> 0]
    /\ address = [t \in Thread |-> Nil]
    /\ arg = Nil
    /\ peer \in [Peer -> Block]
    /\ failures = 0

\* The steps of a thread inside Sync and syncBlocks that need no other
\* thread to get out of the way.
SyncStep(t) ==
    \/ Sync(t) \/ GetGenesis(t) \/ Reindex(t) \/ TxnReindex(t)
    \/ \E a \in Peer : SendVersion(t, a)
    \/ Search(t) \/ SearchFail(t) \/ Rewind(t)
    \/ GetBlocks(t) \/ ServeBlock(t) \/ FetchFail(t)
    \/ Revert(t) \/ AppendBlock(t) \/ AppendDone(t)

\* The steps that take the lock.
LockStep(t) == SyncNotNeeded(t) \/ SyncStart(t)

Next ==
    \/ \E b \in Block \ {Genesis}, a \in Peer : GossipBlock(b, a)
    \/ GossipApply
    \/ \E b \in HeadGossip : GossipBlockHead(b)
    \/ \E t \in Thread : SyncStep(t) \/ LockStep(t)
    \/ \E p \in Peer : PeerMoves(p)

Spec == Init /\ [][Next]_vars

\* A thread that can run runs; the lock is granted to a thread that asks for
\* it again and again (Go's mutexes hand over to a starving waiter).
Fairness ==
    /\ \A t \in Thread : WF_vars(SyncStep(t)) /\ SF_vars(LockStep(t))
    /\ SF_vars(GossipApply)

FairSpec == Spec /\ Fairness

-----------------------------------------------------------------------------
(* Properties *)

TypeOK ==
    /\ lastest \in Block \cup {Nil}
    /\ blocks \subseteq Block
    /\ byHeight \in [Heights -> Block \cup {Nil}]
    /\ heads \in [Heights -> Block \cup {Nil}]
    /\ headHeight \in Heights \cup {-1}
    /\ txns \subseteq Block
    /\ utxo \subseteq Block
    /\ syncMutex \in Thread \cup {Free}
    /\ l \in 0..MaxHeight + 1
    /\ r \in Heights \cup {-1}
    /\ lastestHeight \in Heights
    /\ originHash \in Block \cup {Nil}
    /\ lastestHash \in Block \cup {Nil}
    /\ reply \in Seq(Block)
    /\ moved \in BOOLEAN
    /\ pc \in [Thread -> Steps]
    /\ newHeight \in [Thread -> Heights]
    /\ address \in [Thread -> Peer \cup {Nil}]
    /\ arg \in Block \cup {Nil}
    /\ peer \in [Peer -> Block]
    /\ failures \in 0..MaxFailures

\* The chain the node has committed to.  While a synchronisation holds the
\* lock this is still the one it started from.
Committed == IF syncMutex = Free THEN lastest ELSE originHash

\* At every moment, for the readers without a lock too, the height index up to
\* lastest is the hash chain that ends in lastest, and its blocks are stored:
\* GetBlockByHeight, the service to other nodes, is never torn.
ChainLinked ==
    \A h \in 0..GetHeight : byHeight[h] = At(lastest, h) /\ At(lastest, h) \in blocks

\* Between synchronisations nothing but the main chain is in the block store:
\* syncBlocks deletes exactly what it replaces, on each of its paths.
StoreIsChain ==
    syncMutex = Free => blocks = BlocksOf(lastest) /\ byHeight = IndexOf(lastest)

\* Between synchronisations the transaction index holds the transactions of
\* the main chain and no others, after a reorganisation as well.
TxnIndexIsChain == syncMutex = Free => txns = blocks

\* Between synchronisations no block of the main chain misses from the UTXO
\* set, whatever Update, Reverse and Reindex did on the way.
UtxoCoversChain == syncMutex = Free /\ lastest # Nil => ChainOf(lastest) \subseteq utxo

\* No *types.Block that the code goes on to use is nil: the blocks compared by
\* the binary search, the common block (r is never -1 among nodes that share
\* the genesis block), the block that is put back when the peer fails, and
\* lastest when Sync announces it.
NoNilBlock ==
    \A t \in Thread :
        /\ pc[t] = "search" /\ l <= r => BlockAt(l + (r - l) \div 2) # Nil
        /\ pc[t] = "search" /\ r < l => BlockAt(r) # Nil
        /\ pc[t] \in {"fetch", "serve"} => originHash \in blocks
        /\ pc[t] \in {"reindex", "txnReindex", "version"} => lastest # Nil

\* If the peer keeps its chain during the search, the binary search ends at the
\* last height at which the two chains agree: no common block is thrown away.
ForkPointFound ==
    \A t \in Thread :
        pc[t] = "fetch" /\ ~moved =>
            /\ PeerBlock(t, r) = BlockAt(r)
            /\ \A h \in r + 1 .. lastestHeight : PeerBlock(t, h) # BlockAt(h)

\* "Then append all the later blocks behind lastest" (api/sync.go): no block of
\* a reply is left over because it does not follow the one before it.
WholeReplyAppended ==
    \A t \in Thread :
        pc[t] = "append" /\ reply # <<>> => PrevHash(Head(reply)) = lastestHash

\* "Undo the UTXO set from the old height down to r" (api/sync.go): the outputs
\* of a block that leaves the main chain leave the UTXO set.
RevertedOutputsGone == [][\A b \in blocks \ blocks' : b \notin utxo']_vars

\* "Satisfies the hash chain" (api/db.go): a block whose outputs enter the UTXO
\* set is, at that moment, a block of the stored chain.
OnlyStoredBlocksApplied == [][\A b \in utxo' \ utxo : b \in blocks']_vars

\* Gossip, synchronisation, failed synchronisation and bootstrap together
\* only ever replace the committed chain by a strictly higher one.
LC == INSTANCE LongestChain WITH tip <- Committed
ImplementsLongestChain == LC!Spec

\* The node catches up: from some moment on its committed chain is at least as
\* high as the chain of its peer, although calls fail and gossip interferes.
CatchUp == \A p \in Peer : <>[](HeightOf(Committed) >= Height(peer[p]))

-----------------------------------------------------------------------------
(* The inductive invariant *)

Held == {"search", "fetch", "serve", "revert", "append"}
Rewound == {"fetch", "serve", "revert"}

LockInv ==
    /\ \A t \in Thread : pc[t] \in Held <=> syncMutex = t
    /\ syncMutex = Free => reply = <<>>

\* The chain that the store holds.  In the window between SetLastest and the
\* deletion of the replaced blocks it is still the original chain.
StoreTip ==
    IF syncMutex # Free /\ pc[syncMutex] \in Rewound THEN originHash ELSE lastest

StoreInv == blocks = BlocksOf(StoreTip) /\ byHeight = IndexOf(StoreTip)

\* Only Sync runs before there is a genesis block.
BootInv ==
    lastest = Nil =>
        \A t \in Thread : pc[t] \in {"idle", "sync", "genesis"}

CallInv ==
    \A t \in Thread :
        /\ pc[t] \in Held \cup {"lock"} => address[t] \in Peer
        /\ pc[t] \in Held =>
              /\ originHash \in Block
              /\ lastestHeight = Height(originHash)
              /\ newHeight[t] > lastestHeight

SearchInv ==
    \A t \in Thread :
        pc[t] = "search" =>
            /\ lastest = originHash
            /\ 0 <= r /\ r <= lastestHeight
            /\ l <= r + 1
            /\ reply = <<>>

\* What the search knows of the peer, if the peer has kept its chain.
AgreeInv ==
    \A t \in Thread :
        pc[t] \in {"search", "fetch"} /\ ~moved =>
            /\ l > 0 => PeerBlock(t, l - 1) = At(originHash, l - 1)
            /\ \A h \in r + 1 .. lastestHeight : PeerBlock(t, h) # At(originHash, h)

WindowInv ==
    \A t \in Thread :
        /\ pc[t] \in Rewound =>
              /\ 0 <= r /\ r <= lastestHeight
              /\ l = r + 1
              /\ lastest = At(originHash, r)
        /\ pc[t] \in Rewound \cup {"append"} => lastestHash = lastest
        /\ pc[t] = "fetch" => reply = <<>>

ServeInv ==
    \A t \in Thread :
        pc[t] = "serve" =>
            /\ CanServe(t)
            /\ l + Len(reply) <= newHeight[t]
            /\ l + Len(reply) - 1 <= Height(peer[address[t]])
            /\ \A i \in 1..Len(reply) : reply[i] = At(peer[address[t]], l + i - 1)

\* A complete reply is a chain from lastest to the announced height.
ReplyInv ==
    \A t \in Thread :
        pc[t] \in {"revert", "append"} =>
            /\ Height(lastest) + Len(reply) = newHeight[t]
            /\ \A i \in 1..Len(reply) :
                  /\ Height(reply[i]) = Height(lastest) + i
                  /\ PrevHash(reply[i]) = IF i = 1 THEN lastest ELSE reply[i - 1]

\* The block the handler is about to add follows the committed chain, or is
\* too low to be added; during an adoption, it follows the last block adopted
\* or will be too low when the adoption ends.
HandlerInv ==
    pc["gossip"] = "apply" =>
        /\ arg \in Block \ {Genesis}
        /\ IF pc["periodic"] = "append"
             THEN \/ Height(arg) <= newHeight["periodic"]
                  \/ PrevHash(arg) = lastest
             ELSE \/ Height(arg) <= Height(StoreTip)
                  \/ PrevHash(arg) = StoreTip

\* All that the steps of the two threads rely on, together; every safety
\* property above follows from it.
IInv ==
    /\ TypeOK
    /\ LockInv
    /\ StoreInv
    /\ BootInv
    /\ CallInv
    /\ SearchInv
    /\ AgreeInv
    /\ WindowInv
    /\ ServeInv
    /\ ReplyInv
    /\ HandlerInv

=============================================================================
