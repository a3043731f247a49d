-------------------------- MODULE ChainSyncProofs --------------------------
(***************************************************************************)
(* For every block tree, every set of peers and every number of failing    *)
(* calls: as long as a peer answers GetBlocks from one chain, IInv is an   *)
(* invariant of ChainSync, the height index is always the hash chain of    *)
(* lastest, and the committed chain is only replaced by a higher one.  If  *)
(* the node has a chain to begin with, its indexes keep step with it.      *)
(***************************************************************************)
EXTENDS ChainSync, TLAPS

-----------------------------------------------------------------------------
(* Ancestors: the only place where a block is taken apart as a sequence *)

\* The ancestor of a block at a height is a block of that height.
LEMMA AtType ==
    ASSUME NEW b \in Block, NEW h \in 0..Height(b)
    PROVE  At(b, h) \in Block /\ Height(At(b, h)) = h
<1>1. b \in Seq(Label) /\ SubSeq(b, 1, h) \in Block
  BY BlockAssumption DEF Height
<1>2. Len(SubSeq(b, 1, h)) = h
  BY <1>1 DEF Height
<1> QED BY <1>1, <1>2 DEF At, Height

\* Heights are natural numbers up to MaxHeight.
LEMMA HeightType ==
    ASSUME NEW b \in Block
    PROVE  Height(b) \in 0..MaxHeight
<1>1. b \in Seq(Label) /\ Len(b) <= MaxHeight /\ MaxHeight \in Nat
  BY BlockAssumption
<1> QED BY <1>1 DEF Height

\* A block is its own ancestor at its own height.
LEMMA AtSelf ==
    ASSUME NEW b \in Block
    PROVE  At(b, Height(b)) = b
<1>1. b \in Seq(Label)
  BY BlockAssumption
<1> QED BY <1>1 DEF At, Height

\* An ancestor of an ancestor is an ancestor.
LEMMA AtAt ==
    ASSUME NEW b \in Block, NEW k \in 0..Height(b), NEW h \in 0..k
    PROVE  At(At(b, k), h) = At(b, h)
<1>1. b \in Seq(Label) /\ Len(b) \in Nat
  BY BlockAssumption
<1> DEFINE c == SubSeq(b, 1, k)
<1>2. c \in Seq(Label) /\ Len(c) = k /\ \A i \in 1..k : c[i] = b[i]
  BY <1>1 DEF Height
<1> HIDE DEF c
<1>3. /\ SubSeq(c, 1, h) \in Seq(Label) /\ Len(SubSeq(c, 1, h)) = h
      /\ \A i \in 1..h : SubSeq(c, 1, h)[i] = b[i]
  BY <1>2
<1>4. /\ SubSeq(b, 1, h) \in Seq(Label) /\ Len(SubSeq(b, 1, h)) = h
      /\ \A i \in 1..h : SubSeq(b, 1, h)[i] = b[i]
  BY <1>1 DEF Height
<1>5. SubSeq(c, 1, h) = SubSeq(b, 1, h)
  BY <1>3, <1>4
<1> QED BY <1>5 DEF At, c

\* The genesis block is the one block of height 0, and everybody's ancestor.
LEMMA GenesisFacts ==
    /\ Genesis \in Block
    /\ Height(Genesis) = 0
    /\ \A b \in Block : Height(b) = 0 => b = Genesis
    /\ \A b \in Block : At(b, 0) = Genesis
<1>1. Genesis \in Block /\ Height(Genesis) = 0
  BY BlockAssumption DEF Genesis, Height
<1>2. ASSUME NEW b \in Block, Height(b) = 0
      PROVE  b = Genesis
  <2>1. b \in Seq(Label) /\ Len(b) = 0
    BY <1>2, BlockAssumption DEF Height
  <2> QED BY <2>1 DEF Genesis
<1>3. ASSUME NEW b \in Block
      PROVE  At(b, 0) = Genesis
  <2>1. 0 \in 0..Height(b)
    BY HeightType
  <2>2. At(b, 0) \in Block /\ Height(At(b, 0)) = 0
    BY <2>1, AtType
  <2> QED BY <2>2, <1>2
<1> QED BY <1>1, <1>2, <1>3

\* The predecessor of a block above genesis is one lower, and has the same
\* ancestors.
LEMMA PrevHashFacts ==
    ASSUME NEW b \in Block, b # Genesis
    PROVE  /\ Height(b) >= 1
           /\ PrevHash(b) \in Block
           /\ Height(PrevHash(b)) = Height(b) - 1
           /\ \A h \in 0..Height(b) - 1 : At(PrevHash(b), h) = At(b, h)
<1>1. Height(b) \in Nat /\ Height(b) # 0
  BY HeightType, GenesisFacts, BlockAssumption
<1>2. Height(b) - 1 \in 0..Height(b)
  BY <1>1
<1>3. PrevHash(b) \in Block /\ Height(PrevHash(b)) = Height(b) - 1
  BY <1>2, AtType DEF PrevHash
<1>4. \A h \in 0..Height(b) - 1 : At(PrevHash(b), h) = At(b, h)
  BY <1>2, AtAt DEF PrevHash
<1> QED BY <1>1, <1>3, <1>4

\* The chain of a block is the chain of its predecessor and the block.
LEMMA ChainOfPrev ==
    ASSUME NEW b \in Block, b # Genesis
    PROVE  ChainOf(b) = ChainOf(PrevHash(b)) \cup {b}
<1>1. /\ Height(b) \in Nat /\ Height(b) >= 1
      /\ Height(PrevHash(b)) = Height(b) - 1
      /\ \A h \in 0..Height(b) - 1 : At(PrevHash(b), h) = At(b, h)
  BY HeightType, PrevHashFacts, BlockAssumption
<1>2. At(b, Height(b)) = b
  BY AtSelf
<1> DEFINE n == Height(b)
<1>3. ChainOf(b) = {At(b, h) : h \in 0..n - 1} \cup {At(b, n)}
  BY <1>1 DEF ChainOf
<1>4. ChainOf(PrevHash(b)) = {At(b, h) : h \in 0..n - 1}
  BY <1>1 DEF ChainOf
<1> QED BY <1>2, <1>3, <1>4

\* Two blocks with a common ancestor at a height share all lower ancestors.
LEMMA CommonBelow ==
    ASSUME NEW a \in Block, NEW b \in Block,
           NEW k \in 0..Height(a), k \in 0..Height(b), At(a, k) = At(b, k),
           NEW h \in 0..k
    PROVE  At(a, h) = At(b, h)
BY AtAt

\* A block of the chain is an ancestor, found at its own height.
LEMMA ChainOfFacts ==
    ASSUME NEW b \in Block
    PROVE  /\ ChainOf(b) \subseteq Block
           /\ \A h \in 0..Height(b) : At(b, h) \in ChainOf(b)
           /\ \A c \in ChainOf(b) : Height(c) \in 0..Height(b) /\ c = At(b, Height(c))
BY AtType DEF ChainOf

-----------------------------------------------------------------------------
(* The node *)

\* The facts about the constants that nearly every step uses.
LEMMA ConstFacts ==
    /\ Nil \notin Block
    /\ MaxHeight \in Nat
    /\ \A b \in Block : Height(b) \in 0..MaxHeight
    /\ Free # "gossip" /\ Free # "periodic"
    /\ HeadGossip \subseteq Block
    /\ MaxFailures \in Nat
BY BlockAssumption, SyncAssumption, HeightType DEF Thread

\* A stored head keeps the types of the head store.
LEMMA AddBlockheadType ==
    ASSUME NEW b \in Block, heads \in [Heights -> Block \cup {Nil}],
           headHeight \in Heights \cup {-1}, AddBlockhead(b)
    PROVE  /\ heads' \in [Heights -> Block \cup {Nil}]
           /\ headHeight' \in Heights \cup {-1}
BY ConstFacts DEF AddBlockhead, Heights

\* AddBlock keeps the types of the block store.
LEMMA AddBlockType ==
    ASSUME TypeOK, NEW b \in Block, AddBlock(b)
    PROVE  /\ lastest' \in Block \cup {Nil}
           /\ blocks' \subseteq Block
           /\ byHeight' \in [Heights -> Block \cup {Nil}]
           /\ heads' \in [Heights -> Block \cup {Nil}]
           /\ headHeight' \in Heights \cup {-1}
           /\ txns' \subseteq Block
<1>1. CASE StoreBlock(b)
  <2>1. /\ heads' \in [Heights -> Block \cup {Nil}]
        /\ headHeight' \in Heights \cup {-1}
    BY <1>1, AddBlockheadType DEF StoreBlock, TypeOK
  <2> QED BY <1>1, <2>1, ConstFacts DEF StoreBlock, TypeOK, Heights
<1>2. CASE UNCHANGED store
  BY <1>2 DEF store, TypeOK
<1> QED BY <1>1, <1>2 DEF AddBlock

\* A store that holds exactly the chain of its last block still does after
\* AddBlock of a block that follows it.
LEMMA AddBlockExtends ==
    ASSUME TypeOK, NEW b \in Block, b # Genesis, lastest = PrevHash(b),
           blocks = BlocksOf(lastest), byHeight = IndexOf(lastest), AddBlock(b)
    PROVE  /\ lastest' = b
           /\ blocks' = BlocksOf(b)
           /\ byHeight' = IndexOf(b)
<1>1. /\ Height(b) \in 0..MaxHeight /\ Height(b) >= 1 /\ MaxHeight \in Nat
      /\ lastest \in Block /\ lastest # Nil /\ b # Nil
      /\ Height(lastest) = Height(b) - 1
      /\ \A h \in 0..Height(b) - 1 : At(lastest, h) = At(b, h)
  BY ConstFacts, PrevHashFacts
<1>2. StoreBlock(b)
  BY <1>1 DEF AddBlock, GetHeight, HeightOf
<1>3. blocks' = BlocksOf(b)
  BY <1>1, <1>2, ChainOfPrev DEF StoreBlock, BlocksOf
<1>4. byHeight' = IndexOf(b)
  <2>1. At(b, Height(b)) = b
    BY AtSelf
  <2>2. byHeight' = [byHeight EXCEPT ![Height(b)] = b]
    BY <1>2 DEF StoreBlock
  <2> QED BY <1>1, <2>1, <2>2 DEF IndexOf, HeightOf, Heights
<1> QED BY <1>2, <1>3, <1>4 DEF StoreBlock

\* What a peer answers does not depend on the node's own steps.
LEMMA PeerBlockFrame ==
    ASSUME NEW t, peer' = peer, address'[t] = address[t]
    PROVE  \A h : PeerBlock(t, h)' = PeerBlock(t, h)
BY DEF PeerBlock

\* An answer of a peer is a block of the height asked for.
LEMMA PeerBlockType ==
    ASSUME peer \in [Peer -> Block], NEW t, address[t] \in Peer, NEW h \in Int,
           PeerBlock(t, h) # Nil
    PROVE  /\ peer[address[t]] \in Block
           /\ h \in 0..Height(peer[address[t]])
           /\ PeerBlock(t, h) = At(peer[address[t]], h)
           /\ PeerBlock(t, h) \in Block
           /\ Height(PeerBlock(t, h)) = h
BY AtType DEF PeerBlock

-----------------------------------------------------------------------------
(* Two kinds of steps that many actions are instances of *)

\* A thread that neither holds nor gets the lock moves, and the chain stays.
LEMMA QuietStep ==
    ASSUME IInv, TypeOK', BootInv', HandlerInv',
           UNCHANGED <<lastest, blocks, byHeight, syncMutex, job, peer>>,
           NEW t \in Thread, pc[t] \notin Held, pc'[t] \notin Held,
           pc'[t] = "lock" => address'[t] \in Peer,
           \A u \in Thread \ {t} : /\ pc'[u] = pc[u]
                                   /\ newHeight'[u] = newHeight[u]
                                   /\ address'[u] = address[u]
    PROVE  IInv'
<1> USE DEF IInv, job
<1>1. LockInv'
  BY DEF LockInv
<1>2. StoreInv'
  <2>1. StoreTip' = StoreTip
    BY ConstFacts DEF StoreTip, LockInv, Rewound, Held, TypeOK, Thread
  <2> QED BY <2>1 DEF StoreInv, BlocksOf, IndexOf
<1>3. CallInv' /\ SearchInv' /\ WindowInv' /\ ReplyInv'
  BY DEF CallInv, SearchInv, WindowInv, ReplyInv, Held, Rewound
<1>4. \A u \in Thread \ {t} : \A h : PeerBlock(u, h)' = PeerBlock(u, h)
  BY DEF PeerBlock
<1>5. AgreeInv'
  BY <1>4 DEF AgreeInv, Held
<1>6. ServeInv'
  BY <1>4 DEF ServeInv, CanServe, Held
<1> QED BY <1>1, <1>2, <1>3, <1>5, <1>6

\* The thread that holds the lock lets it go with a consistent store.
LEMMA ReleaseStep ==
    ASSUME IInv, TypeOK', HandlerInv', NEW t \in Thread, syncMutex = t,
           UnlockAndReturn(t), lastest' # Nil,
           blocks' = BlocksOf(lastest'), byHeight' = IndexOf(lastest')
    PROVE  IInv'
<1>1. \A u \in Thread : pc'[u] \notin Held
  BY DEF UnlockAndReturn, Return, Rest, Goto, IInv, LockInv, TypeOK, Thread, Held
<1>2. syncMutex' = Free /\ Free \notin Thread
  BY ConstFacts DEF UnlockAndReturn, Thread
<1>3. LockInv'
  BY <1>1, <1>2 DEF LockInv, UnlockAndReturn
<1>4. StoreTip' = lastest'
  BY <1>2 DEF StoreTip
<1>5. StoreInv'
  BY <1>4 DEF StoreInv, BlocksOf, IndexOf
<1>6. \A u \in Thread : pc'[u] = "lock" => address'[u] \in Peer
  BY <1>1 DEF UnlockAndReturn, Return, Rest, Goto, IInv, CallInv, TypeOK, Thread
<1>7. CallInv' /\ SearchInv' /\ AgreeInv' /\ WindowInv' /\ ServeInv' /\ ReplyInv'
  BY <1>1, <1>6 DEF CallInv, SearchInv, AgreeInv, WindowInv, ServeInv, ReplyInv,
                    Held, Rewound
<1> QED BY <1>3, <1>5, <1>7 DEF IInv, BootInv

-----------------------------------------------------------------------------
(* Steps without the lock *)

\* The first test of Sync: a thread without a chain goes to fetch genesis, and
\* only then.
LEMMA SyncInv ==
    ASSUME IInv, NEW t \in Thread, Sync(t)
    PROVE  IInv'
<1> USE DEF IInv, Sync, Goto, store, job, threads, env
<1>1. TypeOK'
  BY DEF TypeOK, Steps
<1>2. BootInv'
  BY DEF BootInv, TypeOK, GetHeight, HeightOf
<1>3. pc[t] \notin Held /\ pc'[t] \notin Held
  BY DEF TypeOK, Held
<1>4. HandlerInv'
  BY <1>3, ConstFacts DEF HandlerInv, StoreTip, LockInv, TypeOK, Rewound, Held, Thread
<1> QED BY <1>1, <1>2, <1>3, <1>4, QuietStep DEF TypeOK

\* Rebuilding the UTXO set and the transaction index (Reindex, TxnReindex)
\* touches neither the block store nor the synchronisation.
LEMMA ReindexInv ==
    ASSUME IInv, NEW t \in Thread, Reindex(t) \/ TxnReindex(t)
    PROVE  IInv'
<1> USE DEF IInv, Reindex, TxnReindex, Goto, store, job, threads, env
<1>1. lastest \in Block
  BY DEF BootInv, TypeOK
<1>2. Iterated \subseteq Block
  BY <1>1, ChainOfFacts DEF Iterated
<1>3. TypeOK'
  BY <1>2 DEF TypeOK, Steps
<1>4. BootInv'
  BY <1>1, ConstFacts DEF BootInv
<1>5. pc[t] \notin Held /\ pc'[t] \notin Held /\ pc'[t] # "lock"
  BY DEF TypeOK, Held
<1>6. HandlerInv'
  BY <1>5, ConstFacts DEF HandlerInv, StoreTip, LockInv, TypeOK, Rewound, Held, Thread
<1> QED BY <1>3, <1>4, <1>5, <1>6, QuietStep DEF TypeOK

\* The negotiation (SendVersion) leaves a height a peer has and its address.
LEMMA SendVersionInv ==
    ASSUME IInv, NEW t \in Thread, NEW a \in Peer, SendVersion(t, a)
    PROVE  IInv'
<1> USE DEF IInv, SendVersion, Goto, store, job, env
<1>1. TypeOK'
  BY ConstFacts DEF TypeOK, Steps, Heights
<1>2. BootInv'
  BY DEF BootInv, TypeOK
<1>3. pc[t] \notin Held /\ pc'[t] \notin Held /\ address'[t] \in Peer
  BY DEF TypeOK, Held
<1>4. HandlerInv'
  BY <1>3, ConstFacts DEF HandlerInv, StoreTip, LockInv, TypeOK, Rewound, Held, Thread
<1> QED BY <1>1, <1>2, <1>3, <1>4, QuietStep DEF TypeOK

\* The early returns of syncBlocks keep the invariant.
LEMMA SyncNotNeededInv ==
    ASSUME IInv, NEW t \in Thread, SyncNotNeeded(t)
    PROVE  IInv'
<1> USE DEF IInv, SyncNotNeeded, Return, Rest, Goto, store, job, env
<1>1. TypeOK'
  BY ConstFacts DEF TypeOK, Steps, Heights, Thread
<1>2. BootInv'
  BY DEF BootInv, TypeOK
<1>3. pc[t] \notin Held /\ pc'[t] \notin Held /\ pc'[t] # "lock"
  BY DEF TypeOK, Held
<1>4. HandlerInv'
  BY <1>3, ConstFacts DEF HandlerInv, StoreTip, LockInv, TypeOK, Rewound, Held, Thread
<1> QED BY <1>1, <1>2, <1>3, <1>4, QuietStep DEF TypeOK

\* The interesting case is the handler that reads lastest inside the window of
\* the other thread: lastest is then an ancestor of the original chain.
LEMMA GossipBlockInv ==
    ASSUME IInv, NEW b \in Block \ {Genesis}, NEW a \in Peer, GossipBlock(b, a)
    PROVE  IInv'
<1> USE DEF IInv, GossipBlock, Goto, store, job, threads, env
<1>1. TypeOK'
  BY ConstFacts DEF TypeOK, Steps, Heights, Thread
<1>2. BootInv'
  BY DEF BootInv, TypeOK, Thread
<1>3. /\ pc["gossip"] \notin Held /\ pc'["gossip"] \notin Held
      /\ pc'["gossip"] = "lock" => address'["gossip"] \in Peer
      /\ pc'["periodic"] = pc["periodic"]
      /\ newHeight'["periodic"] = newHeight["periodic"]
      /\ address'["periodic"] = address["periodic"]
  BY DEF TypeOK, Held, Thread
<1>4. HandlerInv'
  <2> SUFFICES ASSUME pc'["gossip"] = "apply"
               PROVE  HandlerInv'
    BY DEF HandlerInv
  <2>1. arg' = b /\ PrevHash(b) = lastest /\ lastest \in Block
    BY DEF TypeOK, Thread
  <2>2. CASE pc["periodic"] \in Rewound
    <3>1. /\ StoreTip' = originHash
          /\ originHash \in Block
          /\ lastest = At(originHash, r)
          /\ r \in 0..Height(originHash)
      BY <2>2, ConstFacts
         DEF StoreTip, LockInv, WindowInv, CallInv, TypeOK, Held, Rewound, Thread, Heights
    <3>2. Height(b) = r + 1 /\ Height(b) \in Nat
      BY <2>1, <3>1, PrevHashFacts, AtType, ConstFacts
    <3>3. r = Height(originHash) => lastest = originHash
      BY <3>1, AtSelf
    <3>4. Height(originHash) \in Nat
      BY <3>1, ConstFacts
    <3> QED BY <2>1, <2>2, <3>1, <3>2, <3>3, <3>4 DEF HandlerInv, Rewound
  <2>3. CASE pc["periodic"] \notin Rewound
    <3>1. StoreTip' = lastest
      BY <1>3, <2>3, ConstFacts DEF StoreTip, LockInv, TypeOK, Held, Rewound, Thread
    <3> QED BY <2>1, <2>3, <3>1 DEF HandlerInv
  <2> QED BY <2>2, <2>3
<1> QED BY <1>1, <1>2, <1>3, <1>4, QuietStep DEF Thread

\* A gossiped block head (AddBlockhead) does not disturb the chain.
LEMMA GossipBlockHeadInv ==
    ASSUME IInv, NEW b \in HeadGossip, GossipBlockHead(b)
    PROVE  IInv'
<1> USE DEF IInv, GossipBlockHead, job, threads, env
<1>1. /\ heads' \in [Heights -> Block \cup {Nil}]
      /\ headHeight' \in Heights \cup {-1}
  BY AddBlockheadType, ConstFacts DEF TypeOK
<1>2. TypeOK'
  BY <1>1 DEF TypeOK
<1>3. StoreInv' /\ StoreTip' = StoreTip
  BY DEF StoreInv, StoreTip, BlocksOf, IndexOf
<1>4. AgreeInv' /\ ServeInv'
  BY DEF AgreeInv, ServeInv, CanServe, PeerBlock
<1>5. LockInv' /\ BootInv' /\ CallInv' /\ SearchInv' /\ WindowInv' /\ ReplyInv'
  BY DEF LockInv, BootInv, CallInv, SearchInv, WindowInv, ReplyInv
<1>6. HandlerInv'
  BY <1>3 DEF HandlerInv
<1> QED BY <1>2, <1>3, <1>4, <1>5, <1>6

\* A second thread may have taken the genesis block already.
LEMMA GetGenesisInv ==
    ASSUME IInv, NEW t \in Thread, GetGenesis(t)
    PROVE  IInv'
<1> USE DEF IInv, GetGenesis, Goto
<1>1. Genesis \in Block /\ Height(Genesis) = 0
  BY GenesisFacts
<1>2. TypeOK'
  <2>1. /\ lastest' \in Block \cup {Nil}
        /\ blocks' \subseteq Block
        /\ byHeight' \in [Heights -> Block \cup {Nil}]
        /\ heads' \in [Heights -> Block \cup {Nil}]
        /\ headHeight' \in Heights \cup {-1}
        /\ txns' \subseteq Block
    BY <1>1, AddBlockType
  <2>2. pc' \in [Thread -> Steps]
    BY DEF TypeOK, Steps
  <2> QED BY <2>1, <2>2 DEF TypeOK, job, threads, env
<1>3. pc[t] \notin Held /\ pc'[t] \notin Held /\ pc'[t] = "reindex"
  BY DEF TypeOK, Held
<1>4. CASE lastest # Nil
  <2>1. UNCHANGED store
    BY <1>1, <1>4, ConstFacts DEF AddBlock, GetHeight, HeightOf, TypeOK
  <2>2. BootInv'
    BY <1>4, <2>1 DEF BootInv, store
  <2>3. HandlerInv'
    BY <1>3, <2>1, ConstFacts
       DEF HandlerInv, StoreTip, LockInv, TypeOK, Rewound, Held, Thread, store, job, threads
  <2> QED BY <1>2, <1>3, <2>1, <2>2, <2>3, QuietStep DEF TypeOK, store, job, threads, env
<1>5. CASE lastest = Nil
  <2>1. \A u \in Thread : pc[u] \notin Held /\ pc[u] \notin {"lock", "apply"}
    BY <1>5 DEF BootInv, Held
  <2>2. \A u \in Thread : pc'[u] \notin Held /\ pc'[u] \notin {"lock", "apply"}
    BY <1>3, <2>1 DEF TypeOK
  <2>3. syncMutex \notin Thread /\ syncMutex' = syncMutex
    BY <2>1 DEF LockInv
  <2>4. LockInv'
    BY <2>2, <2>3 DEF LockInv, job
  <2>5. StoreBlock(Genesis)
    BY <1>1, <1>5 DEF AddBlock, GetHeight, HeightOf
  <2>6. StoreTip = lastest /\ StoreTip' = Genesis
    BY <2>3, <2>5, ConstFacts DEF StoreTip, StoreBlock, TypeOK, Thread
  <2>7. blocks = {} /\ byHeight = [h \in Heights |-> Nil]
    BY <1>5, <2>6 DEF StoreInv, BlocksOf, IndexOf, HeightOf, Heights
  <2>8. blocks' = BlocksOf(Genesis)
    <3>1. blocks' = {Genesis}
      BY <2>5, <2>7 DEF StoreBlock
    <3>2. ChainOf(Genesis) = {At(Genesis, 0)}
      BY <1>1 DEF ChainOf
    <3> QED BY <1>1, <3>1, <3>2, GenesisFacts, ConstFacts DEF BlocksOf
  <2>9. byHeight' = IndexOf(Genesis)
    <3>1. byHeight' = [byHeight EXCEPT ![0] = Genesis]
      BY <1>1, <2>5 DEF StoreBlock
    <3> QED BY <1>1, <2>7, <3>1, GenesisFacts, ConstFacts DEF IndexOf, HeightOf, Heights
  <2>10. StoreInv'
    BY <2>6, <2>8, <2>9 DEF StoreInv, BlocksOf, IndexOf
  <2>11. BootInv'
    BY <1>1, <2>5, ConstFacts DEF BootInv, StoreBlock
  <2>12. CallInv' /\ SearchInv' /\ AgreeInv' /\ WindowInv' /\ ServeInv' /\ ReplyInv'
    BY <2>2 DEF CallInv, SearchInv, AgreeInv, WindowInv, ServeInv, ReplyInv, Held, Rewound
  <2>13. HandlerInv'
    BY <2>2 DEF HandlerInv, Thread
  <2> QED BY <1>2, <2>4, <2>10, <2>11, <2>12, <2>13
<1> QED BY <1>4, <1>5

\* The handler gets the lock.  AddBlock only checks the height; HandlerInv is
\* what makes that enough.
LEMMA GossipApplyInv ==
    ASSUME IInv, GossipApply
    PROVE  IInv'
<1> USE DEF IInv, GossipApply
<1>1. /\ arg \in Block /\ arg # Genesis /\ lastest \in Block
      /\ lastest # Nil /\ arg # Nil
  BY ConstFacts DEF HandlerInv, BootInv, TypeOK, Thread
<1>2. \A u \in Thread : pc[u] \notin Held
  BY ConstFacts DEF LockInv, Thread
<1>3. StoreTip = lastest /\ blocks = BlocksOf(lastest) /\ byHeight = IndexOf(lastest)
  BY DEF StoreTip, StoreInv
<1>4. TypeOK'
  <2>1. /\ lastest' \in Block \cup {Nil}
        /\ blocks' \subseteq Block
        /\ byHeight' \in [Heights -> Block \cup {Nil}]
        /\ heads' \in [Heights -> Block \cup {Nil}]
        /\ headHeight' \in Heights \cup {-1}
        /\ txns' \subseteq Block
    BY <1>1, AddBlockType
  <2>2. utxo' \subseteq Block
    BY <1>1 DEF Update, TypeOK
  <2>3. /\ pc' \in [Thread -> Steps]
        /\ newHeight' \in [Thread -> Heights]
        /\ address' \in [Thread -> Peer \cup {Nil}]
        /\ arg' \in Block \cup {Nil}
    BY ConstFacts DEF TypeOK, Return, Rest, Goto, Steps, Heights, Thread
  <2> QED BY <2>1, <2>2, <2>3 DEF TypeOK, job, env
<1>5. /\ pc' = [pc EXCEPT !["gossip"] = "idle"]
      /\ newHeight'["periodic"] = newHeight["periodic"]
      /\ address'["periodic"] = address["periodic"]
      /\ syncMutex' = Free
  BY DEF Return, Rest, Goto, TypeOK, Thread
<1>6. \A u \in Thread : pc'[u] \notin Held
  BY <1>2, <1>5 DEF TypeOK, Held, Thread
<1>7. lastest' \in Block /\ blocks' = BlocksOf(lastest') /\ byHeight' = IndexOf(lastest')
  <2>1. CASE GetHeight + 1 = Height(arg)
    <3>1. /\ Height(arg) = Height(lastest) + 1
          /\ Height(lastest) \in Nat
      BY <1>1, <2>1, ConstFacts DEF GetHeight, HeightOf
    <3>2. PrevHash(arg) = lastest
      BY <1>2, <1>3, <3>1 DEF HandlerInv, Held, Thread
    <3> QED BY <1>1, <1>3, <3>2, AddBlockExtends
  <2>2. CASE GetHeight + 1 # Height(arg)
    BY <1>1, <1>3, <2>2 DEF AddBlock, store, BlocksOf, IndexOf
  <2> QED BY <2>1, <2>2
<1>8. LockInv'
  BY <1>5, <1>6, ConstFacts DEF LockInv, Thread, job
<1>9. StoreInv'
  BY <1>5, <1>7 DEF StoreInv, StoreTip, BlocksOf, IndexOf
<1>10. BootInv'
  BY <1>7, ConstFacts DEF BootInv
<1>11. CallInv' /\ SearchInv' /\ AgreeInv' /\ WindowInv' /\ ServeInv' /\ ReplyInv'
  BY <1>5, <1>6 DEF CallInv, SearchInv, AgreeInv, WindowInv, ServeInv, ReplyInv,
                    Held, Rewound, TypeOK, Thread
<1>12. HandlerInv'
  BY <1>5 DEF HandlerInv, TypeOK, Thread
<1> QED BY <1>4, <1>8, <1>9, <1>10, <1>11, <1>12

-----------------------------------------------------------------------------
(* Steps with the lock *)

\* Taking the lock in syncBlocks pins down the chain it starts from: lastest is
\* the tip of the store, because no other thread is inside.
LEMMA SyncStartInv ==
    ASSUME IInv, NEW t \in Thread, SyncStart(t)
    PROVE  IInv'
<1> USE DEF IInv, SyncStart, NeedsSync, Goto, store, threads, env
<1>1. /\ lastest \in Block /\ lastest # Nil
      /\ GetHeight = Height(lastest) /\ Height(lastest) \in Heights
      /\ Height(lastest) \in Nat
      /\ newHeight[t] > Height(lastest)
  BY ConstFacts DEF GetHeight, HeightOf, TypeOK, Heights
<1>2. \A u \in Thread : pc[u] \notin Held
  BY ConstFacts DEF LockInv, Thread
<1>3. TypeOK'
  BY <1>1, ConstFacts DEF TypeOK, Steps, Heights
<1>4. /\ pc'[t] = "search"
      /\ \A u \in Thread \ {t} : pc'[u] = pc[u] /\ pc'[u] \notin Held
  BY <1>2 DEF TypeOK
<1>5. LockInv'
  BY <1>4 DEF LockInv, Held
<1>6. StoreTip' = lastest /\ StoreTip = lastest
  BY <1>4 DEF StoreTip, Rewound
<1>7. StoreInv'
  BY <1>6 DEF StoreInv, BlocksOf, IndexOf
<1>8. BootInv'
  BY <1>1 DEF BootInv
<1>9. CallInv'
  BY <1>1, <1>4 DEF CallInv, Held
<1>10. SearchInv'
  BY <1>1, <1>4 DEF SearchInv, Held, LockInv
<1>11. AgreeInv'
  BY <1>1, <1>4 DEF AgreeInv, Held
<1>12. WindowInv' /\ ServeInv' /\ ReplyInv'
  BY <1>4 DEF WindowInv, ServeInv, ReplyInv, Held, Rewound
<1>13. HandlerInv'
  BY <1>2, <1>4, <1>6 DEF HandlerInv, Held, Thread
<1> QED BY <1>3, <1>5, <1>7, <1>8, <1>9, <1>10, <1>11, <1>12, <1>13

\* One round of the binary search keeps 0 <= r and l <= r + 1 (height 0 is
\* common to all) and what it has learned about the peer.
LEMMA SearchRoundInv ==
    ASSUME IInv, NEW t \in Thread, Search(t)
    PROVE  IInv'
<1> DEFINE m == l + (r - l) \div 2
<1> USE DEF IInv
<1>0. /\ pc[t] = "search" /\ l <= r
      /\ PeerBlock(t, m) # Nil
      /\ \/ PeerBlock(t, m) = BlockAt(m) /\ l' = m + 1 /\ r' = r
         \/ PeerBlock(t, m) # BlockAt(m) /\ r' = m - 1 /\ l' = l
      /\ UNCHANGED <<store, utxo, syncMutex, lastestHeight, originHash,
                     lastestHash, reply, moved, pc, threads, env>>
  BY DEF Search, Narrow
<1>1. /\ l \in Nat /\ r \in Nat /\ l <= r /\ r <= lastestHeight
      /\ lastestHeight = Height(originHash) /\ lastestHeight \in Nat
      /\ originHash \in Block /\ lastest = originHash
      /\ address[t] \in Peer /\ syncMutex = t
  BY <1>0, ConstFacts DEF SearchInv, CallInv, LockInv, TypeOK, Held, Heights
<1>2. m \in l..r
  BY <1>1
<1> HIDE DEF m
<1>3. /\ m \in Heights /\ m \in 0..Height(originHash)
      /\ BlockAt(m) = At(originHash, m)
  <2>1. StoreTip = originHash
    BY <1>0, <1>1 DEF StoreTip, Rewound
  <2>2. m \in Heights /\ m \in 0..Height(originHash)
    BY <1>1, <1>2, ConstFacts DEF Heights
  <2> QED BY <1>1, <2>1, <2>2, ConstFacts DEF StoreInv, IndexOf, BlockAt, HeightOf
<1>4. /\ peer[address[t]] \in Block
      /\ m \in 0..Height(peer[address[t]])
      /\ PeerBlock(t, m) = At(peer[address[t]], m)
  BY <1>0, <1>1, <1>2, PeerBlockType DEF TypeOK
<1>5. r' >= 0
  \* the genesis block is common, so height 0 never differs
  <2>1. CASE m = 0
    BY <1>0, <1>1, <1>3, <1>4, <2>1, GenesisFacts
  <2>2. CASE m # 0
    BY <1>0, <1>1, <1>3, <2>2 DEF Heights
  <2> QED BY <2>1, <2>2
<1>6. /\ l' \in Nat /\ r' \in Nat /\ l' <= r' + 1 /\ r' <= r /\ l' <= r + 1
  BY <1>0, <1>1, <1>2, <1>3, <1>5 DEF Heights
<1>7. TypeOK'
  BY <1>0, <1>1, <1>6, ConstFacts DEF TypeOK, store, threads, env, Heights
<1>8. StoreTip' = StoreTip /\ StoreInv'
  BY <1>0 DEF StoreTip, StoreInv, BlocksOf, IndexOf, store
<1>9. LockInv' /\ BootInv' /\ CallInv'
  BY <1>0 DEF LockInv, BootInv, CallInv, store, threads
<1>10. \A u \in Thread : pc[u] \in Held => u = t
  BY <1>1 DEF LockInv
<1>11. SearchInv'
  <2>1. reply = <<>>
    BY <1>0 DEF SearchInv
  <2>2. r' <= lastestHeight
    BY <1>1, <1>6
  <2>3. UNCHANGED <<lastest, originHash, reply, lastestHeight, pc>>
    BY <1>0 DEF store
  <2> QED BY <1>1, <1>6, <1>10, <2>1, <2>2, <2>3 DEF SearchInv, Held
<1>12. AgreeInv'
  <2> SUFFICES ASSUME ~moved
               PROVE  /\ l' > 0 => PeerBlock(t, l' - 1) = At(originHash, l' - 1)
                      /\ \A h \in r' + 1 .. lastestHeight :
                            PeerBlock(t, h) # At(originHash, h)
    BY <1>0, <1>10 DEF AgreeInv, PeerBlock, Held, env, threads
  <2>1. /\ l > 0 => PeerBlock(t, l - 1) = At(originHash, l - 1)
        /\ \A h \in r + 1 .. lastestHeight : PeerBlock(t, h) # At(originHash, h)
    BY <1>0 DEF AgreeInv
  <2>2. CASE PeerBlock(t, m) = BlockAt(m) /\ l' = m + 1 /\ r' = r
    BY <1>1, <1>3, <2>1, <2>2 DEF Heights
  <2>3. CASE PeerBlock(t, m) # BlockAt(m) /\ r' = m - 1 /\ l' = l
    <3>0. m \in Int /\ r \in Int /\ lastestHeight \in Int
      BY <1>1, <1>2
    <3> SUFFICES ASSUME NEW h \in m..r, PeerBlock(t, h) = At(originHash, h)
                 PROVE  FALSE
      BY <2>1, <2>3, <3>0
    <3>1. h \in 0..Height(originHash) /\ At(originHash, h) \in Block /\ h \in Int
      BY <1>1, <1>2, AtType
    <3>2. PeerBlock(t, h) # Nil
      BY <3>1, ConstFacts
    <3>3. /\ h \in 0..Height(peer[address[t]])
          /\ PeerBlock(t, h) = At(peer[address[t]], h)
      BY <1>1, <3>1, <3>2, PeerBlockType DEF TypeOK
    <3>4. m \in 0..h
      BY <1>1, <1>2
    <3>5. At(peer[address[t]], m) = At(originHash, m)
      BY <1>1, <1>4, <3>1, <3>3, <3>4, CommonBelow
    <3> QED BY <1>3, <1>4, <2>3, <3>5
  <2> QED BY <1>0, <2>2, <2>3
<1>13. WindowInv' /\ ServeInv' /\ ReplyInv'
  BY <1>0, <1>10 DEF WindowInv, ServeInv, ReplyInv, Held, Rewound
<1>14. HandlerInv'
  BY <1>0, <1>8 DEF HandlerInv, store, threads
<1> QED BY <1>7, <1>8, <1>9, <1>11, <1>12, <1>13, <1>14

\* A thread's state after it lets the lock go is well typed.
LEMMA UnlockType ==
    ASSUME TypeOK, NEW t \in Thread, UnlockAndReturn(t)
    PROVE  /\ syncMutex' \in Thread \cup {Free}
           /\ l' \in 0..MaxHeight + 1 /\ r' \in Heights \cup {-1}
           /\ lastestHeight' \in Heights
           /\ originHash' \in Block \cup {Nil} /\ lastestHash' \in Block \cup {Nil}
           /\ reply' \in Seq(Block)
           /\ moved' \in BOOLEAN
           /\ pc' \in [Thread -> Steps]
           /\ newHeight' \in [Thread -> Heights]
           /\ address' \in [Thread -> Peer \cup {Nil}]
           /\ arg' \in Block \cup {Nil}
<1>1. 0 \in Heights /\ 0 \in 0..MaxHeight + 1
  BY ConstFacts DEF Heights
<1>2. reply' \in Seq(Block)
  BY DEF UnlockAndReturn
<1>3. /\ pc' \in [Thread -> Steps]
      /\ newHeight' \in [Thread -> Heights]
      /\ address' \in [Thread -> Peer \cup {Nil}]
      /\ arg' \in Block \cup {Nil}
  BY <1>1 DEF UnlockAndReturn, Return, Rest, Goto, TypeOK, Steps
<1>4. /\ syncMutex' = Free /\ l' = 0 /\ r' = 0 /\ lastestHeight' = 0
      /\ originHash' = Nil /\ lastestHash' = Nil
  BY DEF UnlockAndReturn
<1>5. moved' \in BOOLEAN
  BY Zenon DEF UnlockAndReturn
<1> QED BY <1>1, <1>2, <1>3, <1>4, <1>5

\* A failed GetHash returns before anything was changed.
LEMMA SearchFailInv ==
    ASSUME IInv, NEW t \in Thread, SearchFail(t)
    PROVE  IInv'
<1> USE DEF IInv, SearchFail
<1>1. /\ syncMutex = t /\ lastest = originHash /\ lastest \in Block
      /\ lastest # Nil /\ StoreTip = lastest
  BY ConstFacts DEF LockInv, SearchInv, CallInv, StoreTip, Held, Rewound
<1>2. failures' \in 0..MaxFailures
  BY ConstFacts DEF CallFails, TypeOK
<1>3. TypeOK'
  BY <1>2, UnlockType DEF TypeOK, store
<1>4. blocks' = BlocksOf(lastest') /\ byHeight' = IndexOf(lastest') /\ lastest' = lastest
  BY <1>1 DEF StoreInv, store, BlocksOf, IndexOf
<1>5. HandlerInv'
  <2>1. StoreTip' = StoreTip
    BY <1>1, <1>4 DEF StoreTip, UnlockAndReturn
  <2>2. pc'["gossip"] = "apply" => t = "periodic" /\ pc["gossip"] = "apply" /\ arg' = arg
    BY DEF UnlockAndReturn, Return, Rest, Goto, TypeOK, Thread
  <2>3. t = "periodic" => pc["periodic"] = "search" /\ pc'["periodic"] = "sync"
    BY DEF UnlockAndReturn, Return, Rest, Goto, TypeOK, Thread
  <2> QED BY <2>1, <2>2, <2>3 DEF HandlerInv
<1> QED BY <1>1, <1>3, <1>4, <1>5, ReleaseStep

\* The window opens: lastest is the last common block, the store still holds
\* the original chain.
LEMMA RewindInv ==
    ASSUME IInv, NEW t \in Thread, Rewind(t)
    PROVE  IInv'
<1> USE DEF IInv
<1>0. /\ pc[t] = "search" /\ r < l
      /\ lastest' = BlockAt(r) /\ lastestHash' = BlockAt(r)
      /\ pc' = [pc EXCEPT ![t] = "fetch"]
      /\ UNCHANGED <<blocks, byHeight, heads, headHeight, txns, utxo, syncMutex, l, r,
                     lastestHeight, originHash, reply, moved, newHeight, address,
                     arg, peer, failures>>
  BY DEF Rewind, Goto, threads, env
<1>1. /\ r \in Nat /\ l \in Nat /\ l = r + 1 /\ r <= lastestHeight
      /\ lastestHeight = Height(originHash) /\ lastestHeight \in Nat
      /\ originHash \in Block /\ originHash # Nil /\ lastest = originHash
      /\ syncMutex = t /\ reply = <<>>
  BY <1>0, ConstFacts DEF SearchInv, CallInv, LockInv, TypeOK, Held, Heights
<1>2. StoreTip = originHash
  BY <1>1 DEF StoreTip
<1>3. /\ r \in 0..Height(originHash) /\ r \in Heights
      /\ BlockAt(r) = At(originHash, r)
      /\ BlockAt(r) \in Block
  BY <1>1, <1>2, AtType, ConstFacts DEF StoreInv, IndexOf, BlockAt, HeightOf, Heights
<1>4. /\ pc'[t] = "fetch" /\ \A u \in Thread \ {t} : pc'[u] = pc[u] /\ pc[u] \notin Held
  BY <1>0, <1>1 DEF TypeOK, LockInv
<1>5. TypeOK'
  BY <1>0, <1>3 DEF TypeOK, Steps
<1>6. LockInv'
  BY <1>0, <1>1, <1>4, ConstFacts DEF LockInv, Held, Thread
<1>7. StoreTip' = originHash
  BY <1>0, <1>1, <1>4, ConstFacts DEF StoreTip, Rewound, Thread
<1>8. StoreInv'
  BY <1>0, <1>2, <1>7 DEF StoreInv, BlocksOf, IndexOf
<1>9. BootInv'
  BY <1>0, <1>3, ConstFacts DEF BootInv
<1>10. CallInv'
  BY <1>0, <1>4 DEF CallInv, Held
<1>11. SearchInv' /\ ServeInv' /\ ReplyInv'
  BY <1>4 DEF SearchInv, ServeInv, ReplyInv, Held
<1>12. AgreeInv'
  BY <1>0, <1>4 DEF AgreeInv, PeerBlock, Held
<1>13. WindowInv'
  BY <1>0, <1>1, <1>3, <1>4 DEF WindowInv, Held, Rewound
<1>14. HandlerInv'
  BY <1>0, <1>2, <1>4, <1>7 DEF HandlerInv, Held, Thread
<1> QED BY <1>5, <1>6, <1>8, <1>9, <1>10, <1>11, <1>12, <1>13, <1>14

\* The peer accepts the request: the first block it will send follows lastest.
LEMMA GetBlocksInv ==
    ASSUME IInv, NEW t \in Thread, GetBlocks(t)
    PROVE  IInv'
<1> USE DEF IInv
<1>0. /\ pc[t] = "fetch" /\ CanServe(t)
      /\ pc' = [pc EXCEPT ![t] = "serve"]
      /\ UNCHANGED <<lastest, blocks, byHeight, heads, headHeight, txns, utxo, syncMutex,
                     l, r, lastestHeight, originHash, lastestHash, reply, moved,
                     newHeight, address, arg, peer, failures>>
  BY DEF GetBlocks, Goto, store, job, threads, env
<1>1. /\ r \in Nat /\ l = r + 1 /\ r <= lastestHeight /\ lastestHeight \in Nat
      /\ newHeight[t] > lastestHeight /\ newHeight[t] \in Nat
      /\ address[t] \in Peer
      /\ syncMutex = t /\ reply = <<>>
  BY <1>0, ConstFacts DEF WindowInv, CallInv, LockInv, TypeOK, Held, Rewound, Heights
<1>2. /\ pc'[t] = "serve" /\ \A u \in Thread \ {t} : pc'[u] = pc[u] /\ pc[u] \notin Held
  BY <1>0, <1>1 DEF TypeOK, LockInv
<1>3. TypeOK'
  BY <1>0 DEF TypeOK, Steps
<1>4. LockInv'
  BY <1>0, <1>1, <1>2, ConstFacts DEF LockInv, Held, Thread
<1>5. StoreTip' = StoreTip
  BY <1>0, <1>1, <1>2 DEF StoreTip, Rewound
<1>6. StoreInv'
  BY <1>0, <1>5 DEF StoreInv, BlocksOf, IndexOf
<1>7. BootInv' /\ CallInv'
  BY <1>0, <1>2 DEF BootInv, CallInv, Held
<1>8. SearchInv' /\ AgreeInv' /\ ReplyInv'
  BY <1>2 DEF SearchInv, AgreeInv, ReplyInv, Held
<1>9. WindowInv'
  BY <1>0, <1>2 DEF WindowInv, Held, Rewound
<1>10. ServeInv'
  <2>1. PeerBlock(t, l) # Nil
    BY <1>0 DEF CanServe
  <2>2. l \in 0..Height(peer[address[t]]) /\ Height(peer[address[t]]) \in Nat
    BY <1>1, <2>1, PeerBlockType, ConstFacts DEF TypeOK
  <2>3. CanServe(t)'
    BY <1>0 DEF CanServe, PeerBlock
  <2> QED BY <1>0, <1>1, <1>2, <2>2, <2>3 DEF ServeInv, Held
<1>11. HandlerInv'
  BY <1>0, <1>2, <1>5 DEF HandlerInv, Held, Thread
<1> QED BY <1>3, <1>4, <1>6, <1>7, <1>8, <1>9, <1>10, <1>11

\* One more block of the peer's chain; after the last one the reply is a chain
\* that starts behind lastest.
LEMMA ServeBlockInv ==
    ASSUME IInv, NEW t \in Thread, ServeBlock(t)
    PROVE  IInv'
<1> USE DEF IInv
<1> DEFINE h == l + Len(reply)
           p == peer[address[t]]
<1>0. /\ pc[t] = "serve"
      /\ PeerBlock(t, h) # Nil
      /\ reply' = Append(reply, PeerBlock(t, h))
      /\ pc' = [pc EXCEPT ![t] = IF h = newHeight[t] THEN "revert" ELSE "serve"]
      /\ UNCHANGED <<lastest, blocks, byHeight, heads, headHeight, txns, utxo, syncMutex,
                     l, r, lastestHeight, originHash, lastestHash, moved,
                     newHeight, address, arg, peer, failures>>
  BY DEF ServeBlock, NextServed, Goto, store, threads, env
<1>1. /\ r \in Nat /\ l = r + 1 /\ r <= lastestHeight /\ lastestHeight \in Nat
      /\ lastestHeight = Height(originHash) /\ originHash \in Block
      /\ lastest = At(originHash, r) /\ lastestHash = lastest
      /\ newHeight[t] \in Nat /\ address[t] \in Peer /\ syncMutex = t
      /\ reply \in Seq(Block) /\ Len(reply) \in Nat
  BY <1>0, ConstFacts DEF WindowInv, CallInv, LockInv, TypeOK, Held, Rewound, Heights
<1>2. /\ CanServe(t)
      /\ h <= newHeight[t]
      /\ \A i \in 1..Len(reply) : reply[i] = At(p, l + i - 1)
  BY <1>0 DEF ServeInv
<1>3. /\ p \in Block /\ Height(p) \in Nat
      /\ h \in 0..Height(p)
      /\ PeerBlock(t, h) = At(p, h) /\ At(p, h) \in Block
  <2>1. h \in Int
    BY <1>1
  <2> QED BY <1>0, <1>1, <2>1, PeerBlockType, ConstFacts DEF TypeOK
<1>4. /\ reply' \in Seq(Block)
      /\ Len(reply') = Len(reply) + 1
      /\ \A i \in 1..Len(reply') : reply'[i] = At(p, l + i - 1)
  <2>1. reply' = Append(reply, At(p, h)) /\ reply \in Seq(Block) /\ At(p, h) \in Block
    BY <1>0, <1>1, <1>3
  <2> HIDE DEF p, h
  <2>2. /\ reply' \in Seq(Block)
        /\ Len(reply') = Len(reply) + 1
        /\ \A i \in 1..Len(reply) : reply'[i] = reply[i]
        /\ reply'[Len(reply) + 1] = At(p, h)
    BY <2>1
  <2>3. \A i \in 1..Len(reply') : reply'[i] = At(p, l + i - 1)
    <3> SUFFICES ASSUME NEW i \in 1..Len(reply') PROVE reply'[i] = At(p, l + i - 1)
      OBVIOUS
    <3>1. CASE i \in 1..Len(reply)
      BY <3>1, <2>2, <1>2
    <3>2. CASE i = Len(reply) + 1
      <4>1. l + i - 1 = h
        BY <3>2, <1>1 DEF h
      <4> QED BY <3>2, <4>1, <2>2
    <3> QED BY <3>1, <3>2, <2>2, <1>1
  <2> QED BY <2>2, <2>3
<1>5. /\ pc'[t] = "serve" => h # newHeight[t]
      /\ pc'[t] = "revert" => h = newHeight[t]
      /\ pc'[t] \in {"revert", "serve"}
      /\ \A u \in Thread \ {t} : pc'[u] = pc[u] /\ pc[u] \notin Held
  BY <1>0, <1>1 DEF TypeOK, LockInv
<1>6. TypeOK'
  BY <1>0, <1>4 DEF TypeOK, Steps
<1>7. LockInv'
  BY <1>0, <1>1, <1>5, ConstFacts DEF LockInv, Held, Thread
<1>8. StoreTip' = StoreTip
  BY <1>0, <1>1, <1>5 DEF StoreTip, Rewound
<1>9. StoreInv'
  BY <1>0, <1>8 DEF StoreInv, BlocksOf, IndexOf
<1>10. BootInv' /\ CallInv'
  BY <1>0, <1>5 DEF BootInv, CallInv, Held
<1>11. SearchInv' /\ AgreeInv'
  BY <1>5 DEF SearchInv, AgreeInv, Held
<1>12. WindowInv'
  BY <1>0, <1>5 DEF WindowInv, Held, Rewound
<1>13. ServeInv'
  <2> SUFFICES ASSUME pc'[t] = "serve"
               PROVE  /\ CanServe(t)'
                      /\ l + Len(reply') <= newHeight[t]
                      /\ l + Len(reply') - 1 <= Height(p)
                      /\ \A i \in 1..Len(reply') : reply'[i] = At(p, l + i - 1)
    BY <1>0, <1>5 DEF ServeInv, Held
  <2>1. CanServe(t)'
    BY <1>0, <1>2 DEF CanServe, PeerBlock
  <2>2. h # newHeight[t]
    BY <1>5
  <2>3. h < newHeight[t]
    <3>1. h \in Int /\ newHeight[t] \in Int
      BY <1>1
    <3>2. h <= newHeight[t]
      BY <1>2
    <3> HIDE DEF h
    <3> QED BY <2>2, <3>1, <3>2
  <2> QED BY <1>1, <1>3, <1>4, <2>1, <2>3
<1>14. ReplyInv'
  <2> SUFFICES ASSUME pc'[t] = "revert"
               PROVE  /\ Height(lastest) + Len(reply') = newHeight[t]
                      /\ \A i \in 1..Len(reply') :
                            /\ Height(reply'[i]) = Height(lastest) + i
                            /\ PrevHash(reply'[i]) = IF i = 1 THEN lastest ELSE reply'[i - 1]
    BY <1>0, <1>5 DEF ReplyInv, Held
  <2>1. Height(lastest) = r
    BY <1>1, AtType
  <2>2. ASSUME NEW i \in 1..Len(reply')
        PROVE  /\ reply'[i] = At(p, l + i - 1)
               /\ l + i - 1 \in 1..Height(p)
               /\ Height(reply'[i]) = l + i - 1
               /\ PrevHash(reply'[i]) = At(p, l + i - 2)
    <3>1. l + i - 1 \in 1..Height(p) /\ reply'[i] = At(p, l + i - 1)
      BY <1>1, <1>3, <1>4
    <3>2. Height(reply'[i]) = l + i - 1
      BY <1>3, <3>1, AtType
    <3>3. l + i - 1 \in 0..Height(p) /\ l + i - 2 \in 0..l + i - 1
      BY <1>1, <3>1
    <3>4. At(At(p, l + i - 1), l + i - 2) = At(p, l + i - 2)
      BY <1>3, <3>3, AtAt
    <3>5. (l + i - 1) - 1 = l + i - 2
      BY <1>1
    <3> QED BY <3>1, <3>2, <3>4, <3>5 DEF PrevHash
  <2>3. At(p, l - 1) = lastest
    <3>1. PeerBlock(t, l) = At(p, l) /\ PrevHash(PeerBlock(t, l)) = lastest
      BY <1>1, <1>2, PeerBlockType DEF CanServe, TypeOK
    <3>2. 1 \in 1..Len(reply') /\ reply'[1] = At(p, l)
      BY <1>1, <1>4
    <3>3. PrevHash(reply'[1]) = At(p, l + 1 - 2)
      BY <2>2, <3>2
    <3>4. l + 1 - 2 = l - 1
      BY <1>1
    <3> QED BY <3>1, <3>2, <3>3, <3>4
  <2>4. h = newHeight[t]
    BY <1>5
  <2>5. \A i \in 1..Len(reply') : i # 1 =>
           i - 1 \in 1..Len(reply') /\ reply'[i - 1] = At(p, l + i - 2)
    BY <1>1, <1>4
  <2>6. Height(lastest) + Len(reply') = newHeight[t]
    BY <1>1, <1>4, <2>1, <2>4
  <2>7. ASSUME NEW i \in 1..Len(reply')
        PROVE  /\ Height(reply'[i]) = Height(lastest) + i
               /\ PrevHash(reply'[i]) = IF i = 1 THEN lastest ELSE reply'[i - 1]
    <3>1. Height(reply'[i]) = Height(lastest) + i
      BY <1>1, <1>4, <2>1, <2>2
    <3>2. CASE i = 1
      BY <1>1, <2>2, <2>3, <3>1, <3>2
    <3>3. CASE i # 1
      BY <2>2, <2>5, <3>1, <3>3
    <3> QED BY <3>1, <3>2, <3>3
  <2> QED BY <2>6, <2>7
<1>15. HandlerInv'
  BY <1>0, <1>5, <1>8 DEF HandlerInv, Held, Thread
<1> QED BY <1>6, <1>7, <1>9, <1>10, <1>11, <1>12, <1>13, <1>14, <1>15

\* The window closes: the original chain was in the store all the time.
LEMMA FetchFailInv ==
    ASSUME IInv, NEW t \in Thread, FetchFail(t)
    PROVE  IInv'
<1> USE DEF IInv, FetchFail
<1>1. /\ pc[t] \in {"fetch", "serve"}
      /\ syncMutex = t /\ originHash \in Block /\ originHash # Nil
      /\ StoreTip = originHash
      /\ blocks = BlocksOf(originHash) /\ byHeight = IndexOf(originHash)
  BY ConstFacts DEF LockInv, CallInv, StoreInv, StoreTip, Held, Rewound, Thread
<1>2. originHash \in blocks
  <2>1. At(originHash, Height(originHash)) \in ChainOf(originHash)
    BY <1>1, ChainOfFacts, ConstFacts
  <2> QED BY <1>1, <2>1, AtSelf DEF BlocksOf
<1>3. lastest' = originHash
  BY <1>2 DEF RestoreOrigin
<1>4. failures' \in 0..MaxFailures
  BY ConstFacts DEF CallFails, TypeOK
<1>5. TypeOK'
  BY <1>1, <1>3, <1>4, UnlockType DEF TypeOK
<1>6. blocks' = BlocksOf(lastest') /\ byHeight' = IndexOf(lastest')
  BY <1>1, <1>3 DEF BlocksOf, IndexOf
<1>7. HandlerInv'
  <2>1. StoreTip' = StoreTip
    BY <1>1, <1>3 DEF StoreTip, UnlockAndReturn
  <2>2. pc'["gossip"] = "apply" => t = "periodic" /\ pc["gossip"] = "apply" /\ arg' = arg
    BY DEF UnlockAndReturn, Return, Rest, Goto, TypeOK, Thread
  <2>3. t = "periodic" => pc["periodic"] # "append" /\ pc'["periodic"] = "sync"
    BY <1>1 DEF UnlockAndReturn, Return, Rest, Goto, TypeOK, Thread
  <2> QED BY <2>1, <2>2, <2>3 DEF HandlerInv
<1> QED BY <1>1, <1>3, <1>5, <1>6, <1>7, ReleaseStep

\* What Revert deletes is exactly the part of the original chain above lastest.
LEMMA RevertInv ==
    ASSUME IInv, NEW t \in Thread, Revert(t)
    PROVE  IInv'
<1> USE DEF IInv
<1> DEFINE gone == {byHeight[h] : h \in r + 1 .. lastestHeight} \ {Nil}
<1>0. /\ pc[t] = "revert"
      /\ Reverse(gone) /\ DeleteBlocks(gone)
      /\ pc' = [pc EXCEPT ![t] = "append"]
      /\ UNCHANGED <<lastest, headHeight, syncMutex, l, r, lastestHeight, originHash,
                     lastestHash, reply, moved, newHeight, address, arg, peer, failures>>
  BY DEF Revert, Goto, job, threads, env
<1>1. /\ r \in Nat /\ r <= lastestHeight /\ lastestHeight \in Nat
      /\ lastestHeight = Height(originHash) /\ lastestHeight <= MaxHeight
      /\ MaxHeight \in Nat
      /\ originHash \in Block /\ originHash # Nil
      /\ lastest = At(originHash, r) /\ lastestHash = lastest
      /\ newHeight[t] > lastestHeight /\ newHeight[t] \in Nat
      /\ syncMutex = t
  BY <1>0, ConstFacts DEF WindowInv, CallInv, LockInv, TypeOK, Held, Rewound, Heights
<1>2. /\ StoreTip = originHash
      /\ blocks = ChainOf(originHash) /\ byHeight = IndexOf(originHash)
  BY <1>0, <1>1, ConstFacts DEF StoreTip, StoreInv, BlocksOf, Rewound, Thread
<1>3. /\ lastest \in Block /\ lastest # Nil /\ Height(lastest) = r
      /\ \A h \in 0..r : At(lastest, h) = At(originHash, h)
  BY <1>1, AtType, AtAt, ConstFacts
<1>4. gone = {At(originHash, h) : h \in r + 1 .. lastestHeight}
  <2>1. \A h \in r + 1 .. lastestHeight : byHeight[h] = At(originHash, h)
    BY <1>1, <1>2 DEF IndexOf, HeightOf, Heights
  <2>2. \A h \in r + 1 .. lastestHeight : At(originHash, h) \in Block
    BY <1>1, AtType
  <2> QED BY <2>1, <2>2, ConstFacts
<1>5. \A h \in Heights : (\E b \in gone : Height(b) = h) <=> h \in r + 1 .. lastestHeight
  <2>1. \A h \in r + 1 .. lastestHeight : Height(At(originHash, h)) = h
    BY <1>1, AtType
  <2> QED BY <1>4, <2>1
<1> HIDE DEF gone
<1>6. blocks' = BlocksOf(lastest)
  <2>1. blocks' = ChainOf(originHash) \ gone
    BY <1>0, <1>2 DEF DeleteBlocks, DeleteByHash
  <2>2. ASSUME NEW b \in ChainOf(originHash)
        PROVE  b \in gone <=> Height(b) > r
    <3>1. Height(b) \in 0..Height(originHash) /\ b = At(originHash, Height(b))
      BY <1>1, ChainOfFacts
    <3>2. Height(b) > r => b \in gone
      BY <1>1, <1>4, <3>1
    <3>3. b \in gone => Height(b) > r
      BY <1>1, <1>4, AtType
    <3> QED BY <3>2, <3>3
  <2>3. ASSUME NEW b \in ChainOf(lastest)
        PROVE  b \in ChainOf(originHash) /\ Height(b) <= r
    <3>1. Height(b) \in 0..r /\ b = At(originHash, Height(b))
      BY <1>3, ChainOfFacts
    <3> QED BY <1>1, <3>1, ChainOfFacts
  <2>4. ASSUME NEW b \in ChainOf(originHash), Height(b) <= r
        PROVE  b \in ChainOf(lastest)
    <3>1. Height(b) \in 0..r /\ b = At(lastest, Height(b))
      BY <1>1, <1>3, <2>4, ChainOfFacts
    <3> QED BY <1>3, <3>1, ChainOfFacts
  <2>5. \A b \in ChainOf(originHash) : Height(b) \in Int
    BY <1>1, ChainOfFacts
  <2>6. \A b : b \in blocks' <=> b \in ChainOf(lastest)
    BY <1>1, <2>1, <2>2, <2>3, <2>4, <2>5
  <2> QED BY <1>3, <2>6 DEF BlocksOf
<1>7. byHeight' = IndexOf(lastest)
  <2>1. byHeight' = [h \in Heights |->
                       IF h \in r + 1 .. lastestHeight THEN Nil ELSE byHeight[h]]
    BY <1>0, <1>5 DEF DeleteBlocks
  <2> QED BY <1>1, <1>2, <1>3, <2>1 DEF IndexOf, HeightOf, Heights
<1>8. TypeOK'
  <2>1. blocks' \subseteq Block /\ txns' \subseteq Block
    BY <1>0 DEF TypeOK, DeleteBlocks, DeleteByHash, DeleteTxns
  <2>2. /\ byHeight' \in [Heights -> Block \cup {Nil}]
        /\ heads' \in [Heights -> Block \cup {Nil}]
    BY <1>0 DEF TypeOK, DeleteBlocks, DeleteByHash, DeleteTxns
  <2>3. pc' \in [Thread -> Steps]
    BY <1>0 DEF TypeOK, Steps
  <2>4. utxo' = utxo
    BY <1>0 DEF Reverse
  <2> QED BY <1>0, <2>1, <2>2, <2>3, <2>4 DEF TypeOK
<1>9. /\ pc'[t] = "append" /\ \A u \in Thread \ {t} : pc'[u] = pc[u] /\ pc[u] \notin Held
  BY <1>0, <1>1 DEF TypeOK, LockInv
<1>10. LockInv'
  BY <1>0, <1>1, <1>9, ConstFacts DEF LockInv, Held, Thread
<1>11. StoreTip' = lastest
  BY <1>0, <1>1, <1>9 DEF StoreTip, Rewound
<1>12. StoreInv'
  BY <1>0, <1>6, <1>7, <1>11 DEF StoreInv, BlocksOf, IndexOf
<1>13. BootInv' /\ CallInv'
  BY <1>0, <1>3, <1>9 DEF BootInv, CallInv, Held
<1>14. SearchInv' /\ AgreeInv' /\ ServeInv'
  BY <1>9 DEF SearchInv, AgreeInv, ServeInv, Held
<1>15. WindowInv'
  BY <1>0, <1>1, <1>9 DEF WindowInv, Held, Rewound
<1>16. ReplyInv'
  BY <1>0, <1>9 DEF ReplyInv, Held
<1>17. HandlerInv'
  <2> SUFFICES ASSUME pc'["gossip"] = "apply"
               PROVE  HandlerInv'
    BY DEF HandlerInv
  <2>1. t = "periodic" /\ pc["gossip"] = "apply"
    BY <1>0, <1>9 DEF Thread, TypeOK
  <2>2. /\ arg \in Block \ {Genesis}
        /\ Height(arg) <= lastestHeight \/ PrevHash(arg) = originHash
    BY <1>0, <1>1, <1>2, <2>1 DEF HandlerInv
  <2>3. Height(arg) <= newHeight["periodic"]
    BY <1>1, <2>1, <2>2, PrevHashFacts, ConstFacts
  <2> QED BY <1>0, <1>9, <2>1, <2>2, <2>3 DEF HandlerInv
<1> QED BY <1>8, <1>10, <1>12, <1>13, <1>14, <1>15, <1>16, <1>17

\* One round of the append loop of syncBlocks: AddBlock accepts the block, its
\* height being that of lastest plus one, and the store is again one chain.
LEMMA AppendBlockInv ==
    ASSUME IInv, NEW t \in Thread, AppendBlock(t)
    PROVE  IInv'
<1> USE DEF IInv
<1> DEFINE b == Head(reply)
<1>0. /\ pc[t] = "append" /\ reply # <<>> /\ PrevHash(b) = lastestHash
      /\ AddBlock(b) /\ Update(b)
      /\ lastestHash' = b /\ reply' = Tail(reply)
      /\ UNCHANGED <<syncMutex, l, r, lastestHeight, originHash, moved, pc,
                     newHeight, address, arg, peer, failures>>
  BY DEF AppendBlock, threads, env
<1>1. /\ reply \in Seq(Block) /\ Len(reply) \in Nat /\ Len(reply) >= 1
      /\ b = reply[1] /\ b \in Block
      /\ Tail(reply) \in Seq(Block) /\ Len(Tail(reply)) = Len(reply) - 1
      /\ \A i \in 1..Len(Tail(reply)) : Tail(reply)[i] = reply[i + 1]
  BY <1>0 DEF TypeOK
<1>2. /\ lastestHash = lastest /\ syncMutex = t /\ newHeight[t] \in Nat
      /\ Height(lastest) + Len(reply) = newHeight[t]
      /\ \A i \in 1..Len(reply) :
            /\ Height(reply[i]) = Height(lastest) + i
            /\ PrevHash(reply[i]) = IF i = 1 THEN lastest ELSE reply[i - 1]
  BY <1>0, ConstFacts DEF WindowInv, ReplyInv, LockInv, TypeOK, Held, Heights
<1>3. /\ lastest \in Block /\ lastest # Nil /\ Height(lastest) \in Nat
      /\ Height(b) = Height(lastest) + 1 /\ b # Genesis /\ b # Nil
  <2>1. lastest \in Block /\ lastest # Nil /\ Height(lastest) \in Nat
    <3>1. lastest \in Block \cup {Nil} /\ lastest # Nil
      BY <1>0 DEF BootInv, TypeOK
    <3> QED BY <3>1, ConstFacts
  <2>2. Height(b) = Height(lastest) + 1
    BY <1>1, <1>2
  <2> QED BY <1>1, <2>1, <2>2, GenesisFacts, ConstFacts
<1> HIDE DEF b
<1>4. StoreTip = lastest /\ blocks = BlocksOf(lastest) /\ byHeight = IndexOf(lastest)
  BY <1>0, <1>2 DEF StoreTip, StoreInv, Rewound
<1>5. lastest' = b /\ blocks' = BlocksOf(b) /\ byHeight' = IndexOf(b)
  BY <1>0, <1>1, <1>2, <1>3, <1>4, AddBlockExtends
<1>6. TypeOK'
  <2>1. /\ lastest' \in Block \cup {Nil}
        /\ blocks' \subseteq Block
        /\ byHeight' \in [Heights -> Block \cup {Nil}]
        /\ heads' \in [Heights -> Block \cup {Nil}]
        /\ headHeight' \in Heights \cup {-1}
        /\ txns' \subseteq Block
    BY <1>0, <1>1, AddBlockType
  <2>2. utxo' \subseteq Block
    BY <1>0, <1>1 DEF Update, TypeOK
  <2> QED BY <1>0, <1>1, <2>1, <2>2 DEF TypeOK
<1>7. \A u \in Thread \ {t} : pc[u] \notin Held
  BY <1>2 DEF LockInv
<1>8. LockInv'
  BY <1>0, <1>2, ConstFacts DEF LockInv, Thread
<1>9. StoreTip' = b
  BY <1>0, <1>2, <1>5 DEF StoreTip, Rewound
<1>10. StoreInv'
  BY <1>5, <1>9 DEF StoreInv, BlocksOf, IndexOf
<1>11. BootInv' /\ CallInv'
  BY <1>0, <1>3, <1>5 DEF BootInv, CallInv
<1>12. SearchInv' /\ AgreeInv' /\ ServeInv'
  BY <1>0, <1>7 DEF SearchInv, AgreeInv, ServeInv, Held
<1>13. WindowInv'
  BY <1>0, <1>5, <1>7 DEF WindowInv, Held, Rewound
<1>14. ReplyInv'
  <2>1. Height(b) + Len(Tail(reply)) = newHeight[t]
    BY <1>1, <1>2, <1>3
  <2>2. ASSUME NEW i \in 1..Len(Tail(reply))
        PROVE  /\ Height(Tail(reply)[i]) = Height(b) + i
               /\ PrevHash(Tail(reply)[i]) = IF i = 1 THEN b ELSE Tail(reply)[i - 1]
    <3>1. i + 1 \in 1..Len(reply) /\ Tail(reply)[i] = reply[i + 1] /\ i + 1 # 1
      BY <1>1
    <3>2. /\ Height(reply[i + 1]) = Height(lastest) + (i + 1)
          /\ PrevHash(reply[i + 1]) = reply[(i + 1) - 1]
      BY <1>2, <3>1
    <3>3. Height(Tail(reply)[i]) = Height(b) + i
      BY <1>3, <3>1, <3>2
    <3>4. CASE i = 1
      BY <1>1, <3>1, <3>2, <3>3, <3>4
    <3>5. CASE i # 1
      <4>1. i - 1 \in 1..Len(Tail(reply)) /\ (i + 1) - 1 = (i - 1) + 1
        BY <1>1, <3>5
      <4>2. Tail(reply)[i - 1] = reply[(i + 1) - 1]
        BY <1>1, <4>1
      <4> QED BY <3>1, <3>2, <3>3, <3>5, <4>2
    <3> QED BY <3>4, <3>5
  <2> QED BY <1>0, <1>5, <1>7, <2>1, <2>2 DEF ReplyInv, Held
<1>15. HandlerInv'
  <2> SUFFICES ASSUME pc["gossip"] = "apply"
               PROVE  HandlerInv'
    BY <1>0 DEF HandlerInv
  <2>1. t = "periodic"
    BY <1>0 DEF Thread
  <2>2. /\ arg \in Block \ {Genesis}
        /\ Height(arg) <= newHeight["periodic"] \/ PrevHash(arg) = lastest
    BY <1>0, <2>1 DEF HandlerInv
  <2>3. Height(arg) <= newHeight["periodic"]
    <3>1. CASE PrevHash(arg) = lastest
      <4>1. Height(lastest) = Height(arg) - 1 /\ Height(arg) \in Int
        BY <2>2, <3>1, PrevHashFacts, ConstFacts
      <4> QED BY <1>1, <1>2, <1>3, <2>1, <4>1
    <3> QED BY <2>2, <3>1
  <2> QED BY <1>0, <2>1, <2>2, <2>3 DEF HandlerInv
<1> QED BY <1>6, <1>8, <1>10, <1>11, <1>12, <1>13, <1>14, <1>15

\* Nothing of the reply is left over when the adoption ends.
LEMMA WholeReply ==
    ASSUME IInv, NEW t \in Thread, pc[t] = "append", reply # <<>>
    PROVE  PrevHash(Head(reply)) = lastestHash
<1>1. reply \in Seq(Block) /\ 1 \in 1..Len(reply) /\ Head(reply) = reply[1]
  BY DEF IInv, TypeOK
<1>2. PrevHash(reply[1]) = lastest /\ lastestHash = lastest
  BY <1>1 DEF IInv, ReplyInv, WindowInv
<1> QED BY <1>1, <1>2

\* The append loop ends only when the reply is used up; the chain has then the
\* height that was announced, above the one it had.
LEMMA AppendDoneFacts ==
    ASSUME IInv, NEW t \in Thread, AppendDone(t)
    PROVE  /\ syncMutex = t
           /\ lastest \in Block /\ lastest # Nil
           /\ Height(lastest) = newHeight[t]
           /\ StoreTip = lastest
           /\ UNCHANGED lastest
<1> USE DEF IInv, AppendDone
<1>1. reply = <<>>
  BY WholeReply
<1>2. /\ syncMutex = t /\ lastest \in Block /\ lastest # Nil
      /\ Height(lastest) + Len(reply) = newHeight[t]
      /\ StoreTip = lastest
  BY ConstFacts DEF LockInv, BootInv, TypeOK, ReplyInv, StoreTip, Held, Rewound
<1>3. Height(lastest) \in Nat /\ Len(<<>>) = 0
  BY <1>2, ConstFacts
<1> QED BY <1>1, <1>2, <1>3 DEF store

\* The end of syncBlocks: the lock is released over a complete chain.
LEMMA AppendDoneInv ==
    ASSUME IInv, NEW t \in Thread, AppendDone(t)
    PROVE  IInv'
<1> USE DEF IInv, AppendDone
<1>1. /\ syncMutex = t
      /\ lastest \in Block /\ lastest # Nil
      /\ Height(lastest) = newHeight[t]
      /\ StoreTip = lastest
      /\ lastest' = lastest
  BY AppendDoneFacts
<1>2. TypeOK'
  BY UnlockType DEF TypeOK, store, env
<1>3. blocks' = BlocksOf(lastest') /\ byHeight' = IndexOf(lastest')
  BY <1>1 DEF StoreInv, store, BlocksOf, IndexOf
<1>4. HandlerInv'
  <2>1. StoreTip' = lastest
    BY <1>1 DEF StoreTip, UnlockAndReturn
  <2>2. pc'["gossip"] = "apply" => t = "periodic" /\ pc["gossip"] = "apply" /\ arg' = arg
    BY DEF UnlockAndReturn, Return, Rest, Goto, TypeOK, Thread
  <2>3. t = "periodic" => pc["periodic"] = "append" /\ pc'["periodic"] = "sync"
    BY DEF UnlockAndReturn, Return, Rest, Goto, TypeOK, Thread
  <2> QED BY <1>1, <2>1, <2>2, <2>3 DEF HandlerInv
<1> QED BY <1>1, <1>2, <1>3, <1>4, ReleaseStep

-----------------------------------------------------------------------------
(* The environment *)

\* A peer that replaces its chain invalidates what the search learned, which the
\* history variable moved records, and nothing else.
LEMMA PeerMovesInv ==
    ASSUME ~TornReplies, IInv, NEW p \in Peer, PeerMoves(p)
    PROVE  IInv'
<1> USE DEF IInv
<1>0. PICK b \in Block : peer' = [peer EXCEPT ![p] = b]
  BY DEF PeerMoves
<1>1. /\ \A t \in Thread : pc[t] = "serve" => address[t] # p
      /\ moved' = (moved \/ (syncMutex # Free /\ address[syncMutex] = p))
      /\ UNCHANGED <<lastest, blocks, byHeight, heads, headHeight, txns, utxo, syncMutex,
                     l, r, lastestHeight, originHash, lastestHash, reply, pc,
                     newHeight, address, arg, failures>>
  BY DEF PeerMoves, store, threads
<1>2. TypeOK'
  <2>1. peer' \in [Peer -> Block]
    BY <1>0 DEF TypeOK
  <2>2. moved' \in BOOLEAN
    BY <1>1, Zenon DEF TypeOK
  <2> QED BY <1>1, <2>1, <2>2 DEF TypeOK
<1>3. StoreTip' = StoreTip /\ StoreInv'
  BY <1>1 DEF StoreTip, StoreInv, BlocksOf, IndexOf
<1>4. LockInv' /\ BootInv' /\ CallInv' /\ SearchInv' /\ WindowInv' /\ ReplyInv'
  BY <1>1 DEF LockInv, BootInv, CallInv, SearchInv, WindowInv, ReplyInv
<1>5. ASSUME NEW t \in Thread, pc[t] \in Held, address[t] # p
      PROVE  peer'[address[t]] = peer[address[t]]
  BY <1>0, <1>5 DEF CallInv, TypeOK
<1>6. AgreeInv'
  <2> SUFFICES ASSUME NEW t \in Thread, pc[t] \in {"search", "fetch"}, ~moved'
               PROVE  /\ ~moved
                      /\ \A h : PeerBlock(t, h)' = PeerBlock(t, h)
    BY <1>1 DEF AgreeInv
  <2>1. syncMutex = t /\ syncMutex # Free
    BY ConstFacts DEF LockInv, Held, Thread
  <2>2. ~moved /\ address[t] # p
    BY <1>1, <2>1
  <2> QED BY <1>1, <1>5, <2>2 DEF PeerBlock, Held
<1>7. ServeInv'
  <2> SUFFICES ASSUME NEW t \in Thread, pc[t] = "serve"
               PROVE  /\ peer'[address[t]] = peer[address[t]]
                      /\ CanServe(t)' = CanServe(t)
    BY <1>1 DEF ServeInv
  <2>1. peer'[address[t]] = peer[address[t]]
    BY <1>1, <1>5 DEF Held
  <2> QED BY <1>1, <2>1 DEF CanServe, PeerBlock
<1>8. HandlerInv'
  BY <1>1, <1>3 DEF HandlerInv
<1> QED BY <1>2, <1>3, <1>4, <1>6, <1>7, <1>8

-----------------------------------------------------------------------------
(* Theorems *)

\* A store that was written completely is a good start.
LEMMA InitInv ==
    ASSUME Init
    PROVE  IInv
<1> USE DEF Init
<1>1. lastest \in Block \cup {Nil}
  BY SyncAssumption
<1>2. HeightOf(lastest) \in Heights \cup {-1}
  BY <1>1, ConstFacts DEF HeightOf, Heights
<1>3. BlocksOf(lastest) \subseteq Block
  BY <1>1, ChainOfFacts DEF BlocksOf
<1>4. IndexOf(lastest) \in [Heights -> Block \cup {Nil}]
  <2>1. ASSUME NEW h \in Heights, h <= HeightOf(lastest)
        PROVE  At(lastest, h) \in Block
    <3>1. lastest \in Block /\ h \in 0..Height(lastest)
      BY <1>1, <2>1, ConstFacts DEF HeightOf, Heights
    <3> QED BY <3>1, AtType
  <2> QED BY <2>1 DEF IndexOf
<1>5. 0 \in Heights /\ 0 \in 0..MaxHeight + 1 /\ 0 \in 0..MaxFailures
  BY ConstFacts DEF Heights
<1>6. TypeOK
  <2>1. pc \in [Thread -> Steps] /\ \A t \in Thread : pc[t] \in {"idle", "sync"}
    BY DEF Rest, Steps
  <2>2. reply \in Seq(Block)
    OBVIOUS
  <2>3. moved \in BOOLEAN
    BY Zenon
  <2> QED BY <1>1, <1>2, <1>3, <1>4, <1>5, <2>1, <2>2, <2>3 DEF TypeOK, GetHeight
<1>7. \A t \in Thread : pc[t] \in {"idle", "sync"}
  BY DEF Rest
<1>8. LockInv /\ StoreInv
  BY <1>7, ConstFacts DEF LockInv, StoreInv, StoreTip, Held, Thread
<1>9. BootInv /\ CallInv /\ SearchInv /\ AgreeInv /\ WindowInv /\ ServeInv /\ ReplyInv
  BY <1>7 DEF BootInv, CallInv, SearchInv, AgreeInv, WindowInv, ServeInv, ReplyInv,
              Held, Rewound
<1>10. HandlerInv
  BY <1>7 DEF HandlerInv, Thread
<1> QED BY <1>6, <1>8, <1>9, <1>10 DEF IInv

\* Every step of the node and of its peers keeps the invariant.
LEMMA NextInv ==
    ASSUME ~TornReplies, IInv, [Next]_vars
    PROVE  IInv'
<1>1. ASSUME NEW t \in Thread, SyncStep(t)
      PROVE  IInv'
  BY <1>1, SyncInv, GetGenesisInv, ReindexInv, SendVersionInv, SearchRoundInv,
     SearchFailInv, RewindInv, GetBlocksInv, ServeBlockInv, FetchFailInv, RevertInv,
     AppendBlockInv, AppendDoneInv DEF SyncStep
<1>2. ASSUME NEW t \in Thread, LockStep(t)
      PROVE  IInv'
  BY <1>2, SyncNotNeededInv, SyncStartInv DEF LockStep
<1>3. CASE UNCHANGED vars
  <2>1. UNCHANGED <<lastest, blocks, byHeight, heads, headHeight, txns, utxo, syncMutex,
                    l, r, lastestHeight, originHash, lastestHash, reply, moved, pc,
                    newHeight, address, arg, peer, failures>>
    BY <1>3 DEF vars, store, job, threads, env
  <2>2. TypeOK' /\ LockInv' /\ BootInv' /\ CallInv' /\ SearchInv' /\ WindowInv' /\ ReplyInv'
    BY <2>1 DEF IInv, TypeOK, LockInv, BootInv, CallInv, SearchInv, WindowInv, ReplyInv
  <2>3. StoreTip' = StoreTip /\ StoreInv'
    BY <2>1 DEF IInv, StoreTip, StoreInv, BlocksOf, IndexOf
  <2>4. AgreeInv' /\ ServeInv'
    BY <2>1 DEF IInv, AgreeInv, ServeInv, CanServe, PeerBlock
  <2>5. HandlerInv'
    BY <2>1, <2>3 DEF IInv, HandlerInv
  <2> QED BY <2>2, <2>3, <2>4, <2>5 DEF IInv
<1>4. CASE Next
  BY <1>1, <1>2, <1>4, GossipBlockInv, GossipApplyInv, GossipBlockHeadInv, PeerMovesInv
     DEF Next
<1> QED BY <1>3, <1>4

\* IInv is an invariant of the node when replies are not torn.
THEOREM Invariance ==
    ASSUME ~TornReplies
    PROVE  Spec => []IInv
<1>1. Init => IInv
  BY InitInv
<1>2. IInv /\ [Next]_vars => IInv'
  BY NextInv
<1> QED BY <1>1, <1>2, PTL DEF Spec

\* Every variable keeps its type.
THEOREM TypeCorrect ==
    ASSUME ~TornReplies
    PROVE  Spec => []TypeOK
<1>1. IInv => TypeOK
  BY DEF IInv
<1> QED BY <1>1, Invariance, PTL

\* The height index is the chain of lastest, in the window too: there lastest is
\* an ancestor of the tip whose chain the store still holds.
LEMMA InvImpliesLinked ==
    ASSUME IInv
    PROVE  ChainLinked
<1> USE DEF IInv
<1> SUFFICES ASSUME NEW h \in 0..GetHeight
             PROVE  byHeight[h] = At(lastest, h) /\ At(lastest, h) \in blocks
  BY DEF ChainLinked
<1>1. /\ lastest \in Block /\ lastest # Nil
      /\ h \in 0..Height(lastest) /\ Height(lastest) \in 0..MaxHeight
      /\ MaxHeight \in Nat
  BY ConstFacts DEF GetHeight, HeightOf, TypeOK
<1>2. CASE StoreTip = lastest
  BY <1>1, <1>2, ChainOfFacts DEF StoreInv, BlocksOf, IndexOf, HeightOf, Heights
<1>3. CASE StoreTip # lastest
  <2>1. PICK t \in Thread : pc[t] \in Rewound /\ StoreTip = originHash
    BY <1>3, ConstFacts DEF StoreTip, TypeOK
  <2>2. /\ originHash \in Block /\ originHash # Nil
        /\ r \in 0..Height(originHash) /\ lastest = At(originHash, r)
        /\ Height(originHash) \in 0..MaxHeight
    BY <2>1, ConstFacts DEF WindowInv, CallInv, TypeOK, Rewound, Held, Heights
  <2>3. Height(lastest) = r
    BY <2>2, AtType
  <2>4. h \in 0..r /\ h \in 0..Height(originHash) /\ h \in Heights
    BY <1>1, <2>2, <2>3 DEF Heights
  <2>5. At(lastest, h) = At(originHash, h)
    BY <2>2, <2>4, AtAt
  <2>6. byHeight[h] = At(originHash, h)
    BY <2>1, <2>2, <2>4 DEF StoreInv, IndexOf, HeightOf
  <2>7. At(originHash, h) \in blocks
    BY <2>1, <2>2, <2>4, ChainOfFacts DEF StoreInv, BlocksOf
  <2> QED BY <2>5, <2>6, <2>7
<1> QED BY <1>2, <1>3

\* The height index is the hash chain of lastest at every moment, also for the
\* readers that take no lock and in the window of a synchronisation.
THEOREM ChainAlwaysLinked ==
    ASSUME ~TornReplies
    PROVE  Spec => []ChainLinked
<1>1. IInv => ChainLinked
  BY InvImpliesLinked
<1> QED BY <1>1, Invariance, PTL

\* Between synchronisations the store holds the main chain and nothing else.
THEOREM StoreAlwaysChain ==
    ASSUME ~TornReplies
    PROVE  Spec => []StoreIsChain
<1>1. IInv => StoreIsChain
  BY DEF IInv, StoreInv, StoreTip, StoreIsChain
<1> QED BY <1>1, Invariance, PTL

\* Heights that the code looks up are heights of a stored block.
LEMMA InvImpliesNoNil ==
    ASSUME IInv
    PROVE  NoNilBlock
<1> USE DEF IInv
<1> SUFFICES ASSUME NEW t \in Thread
             PROVE  /\ pc[t] = "search" /\ l <= r => BlockAt(l + (r - l) \div 2) # Nil
                    /\ pc[t] = "search" /\ r < l => BlockAt(r) # Nil
                    /\ pc[t] \in {"fetch", "serve"} => originHash \in blocks
                    /\ pc[t] \in {"reindex", "txnReindex", "version"} => lastest # Nil
  BY DEF NoNilBlock
<1>1. ASSUME pc[t] = "search", NEW h \in 0..r
      PROVE  BlockAt(h) # Nil
  <2>1. /\ StoreTip = originHash /\ originHash \in Block
        /\ r \in Nat /\ r <= Height(originHash) /\ Height(originHash) \in 0..MaxHeight
        /\ MaxHeight \in Nat
    BY <1>1, ConstFacts
       DEF StoreTip, SearchInv, CallInv, LockInv, TypeOK, Held, Rewound, Heights
  <2>2. h \in Heights /\ h \in 0..Height(originHash)
    BY <2>1 DEF Heights
  <2>3. BlockAt(h) = At(originHash, h)
    BY <2>1, <2>2, ConstFacts DEF StoreInv, IndexOf, BlockAt, HeightOf
  <2> QED BY <2>1, <2>2, <2>3, AtType, ConstFacts
<1>2. ASSUME pc[t] = "search", l <= r
      PROVE  BlockAt(l + (r - l) \div 2) # Nil
  <2>1. l \in Nat /\ r \in Nat
    BY <1>2, ConstFacts DEF SearchInv, TypeOK, Heights
  <2>2. l + (r - l) \div 2 \in 0..r
    BY <1>2, <2>1
  <2> QED BY <1>1, <1>2, <2>2
<1>3. ASSUME pc[t] = "search"
      PROVE  BlockAt(r) # Nil
  <2>1. r \in 0..r
    BY <1>3, ConstFacts DEF SearchInv, TypeOK, Heights
  <2> QED BY <1>1, <1>3, <2>1
<1>4. ASSUME pc[t] \in {"fetch", "serve"}
      PROVE  originHash \in blocks
  <2>1. originHash \in Block /\ originHash # Nil /\ blocks = BlocksOf(originHash)
    BY <1>4, ConstFacts DEF LockInv, CallInv, StoreInv, StoreTip, Held, Rewound, Thread
  <2>2. At(originHash, Height(originHash)) \in ChainOf(originHash)
    BY <2>1, ChainOfFacts, ConstFacts
  <2> QED BY <2>1, <2>2, AtSelf DEF BlocksOf
<1> QED BY <1>2, <1>3, <1>4 DEF BootInv

\* No nil block is ever dereferenced, and the last common block always exists.
THEOREM NeverNilBlock ==
    ASSUME ~TornReplies
    PROVE  Spec => []NoNilBlock
<1>1. IInv => NoNilBlock
  BY InvImpliesNoNil
<1> QED BY <1>1, Invariance, PTL

\* When the search is over l = r + 1, so the bounds of AgreeInv meet at r.
LEMMA InvImpliesForkPoint ==
    ASSUME IInv
    PROVE  ForkPointFound
<1> USE DEF IInv
<1> SUFFICES ASSUME NEW t \in Thread, pc[t] = "fetch", ~moved
             PROVE  /\ PeerBlock(t, r) = BlockAt(r)
                    /\ \A h \in r + 1 .. lastestHeight : PeerBlock(t, h) # BlockAt(h)
  BY DEF ForkPointFound
<1>1. /\ originHash \in Block /\ originHash # Nil
      /\ byHeight = IndexOf(originHash)
      /\ r \in Nat /\ l = r + 1 /\ r <= lastestHeight
      /\ lastestHeight = Height(originHash)
      /\ lastestHeight \in 0..MaxHeight /\ MaxHeight \in Nat
  BY ConstFacts
     DEF LockInv, CallInv, StoreInv, StoreTip, WindowInv, TypeOK, Held, Rewound, Thread, Heights
<1>2. \A h \in 0..lastestHeight : BlockAt(h) = At(originHash, h)
  BY <1>1 DEF BlockAt, IndexOf, HeightOf, Heights
<1>3. /\ l > 0 => PeerBlock(t, l - 1) = At(originHash, l - 1)
      /\ \A h \in r + 1 .. lastestHeight : PeerBlock(t, h) # At(originHash, h)
  BY DEF AgreeInv
<1>4. l > 0 /\ l - 1 = r
  BY <1>1
<1> QED BY <1>1, <1>2, <1>3, <1>4

\* The binary search finds the last common block of a peer that stays put.
THEOREM AlwaysForkPoint ==
    ASSUME ~TornReplies
    PROVE  Spec => []ForkPointFound
<1>1. IInv => ForkPointFound
  BY InvImpliesForkPoint
<1> QED BY <1>1, Invariance, PTL

\* Every block of a reply is appended.
THEOREM AlwaysWholeReply ==
    ASSUME ~TornReplies
    PROVE  Spec => []WholeReplyAppended
<1>1. IInv => WholeReplyAppended
  BY WholeReply DEF WholeReplyAppended
<1> QED BY <1>1, Invariance, PTL

-----------------------------------------------------------------------------
(* The indexes of a node that has a chain *)

\* Nobody is in the bootstrap part of Sync, and the transaction index and the UTXO
\* set keep step with the blocks, also while a synchronisation replaces some.
IndexInv ==
    /\ lastest # Nil
    /\ \A t \in Thread : pc[t] \notin {"genesis", "reindex", "txnReindex"}
    /\ txns = blocks
    /\ blocks \subseteq utxo

\* AddBlock and Update write the same block to the three of them, or AddBlock
\* writes nothing.
LEMMA AddBlockIndex ==
    ASSUME IndexInv, NEW b \in Block, AddBlock(b), Update(b)
    PROVE  lastest' # Nil /\ txns' = blocks' /\ blocks' \subseteq utxo'
<1>1. CASE StoreBlock(b)
  BY <1>1, ConstFacts DEF IndexInv, StoreBlock, Update
<1>2. CASE UNCHANGED store
  BY <1>2 DEF IndexInv, store, Update
<1> QED BY <1>1, <1>2 DEF AddBlock

\* Where the other steps of a thread go, none of them into the bootstrap part.
LEMMA SyncStepIndex ==
    ASSUME IInv, IndexInv, NEW t \in Thread, SyncStep(t)
    PROVE  IndexInv'
<1> USE DEF IndexInv
<1>1. pc \in [Thread -> Steps] /\ ~(GetHeight < 0)
  <2>1. lastest \in Block /\ pc \in [Thread -> Steps]
    BY DEF IInv, TypeOK
  <2>2. Height(lastest) \in 0..MaxHeight
    BY <2>1, ConstFacts
  <2> QED BY <2>1, <2>2, ConstFacts DEF GetHeight, HeightOf
<1>2. CASE Sync(t)
  BY <1>1, <1>2 DEF Sync, Goto, store
<1>3. CASE GetGenesis(t) \/ Reindex(t) \/ TxnReindex(t)
  BY <1>3 DEF GetGenesis, Reindex, TxnReindex
<1>4. CASE \E a \in Peer : SendVersion(t, a)
  BY <1>1, <1>4 DEF SendVersion, Goto, store
<1>5. CASE Search(t)
  BY <1>5 DEF Search, store
<1>6. CASE SearchFail(t)
  BY <1>1, <1>6 DEF SearchFail, UnlockAndReturn, Return, Goto, Rest, store
<1>7. CASE Rewind(t)
  <2>1. BlockAt(r) # Nil
    BY <1>7, InvImpliesNoNil DEF NoNilBlock, Rewind
  <2> QED BY <1>1, <1>7, <2>1 DEF Rewind, Goto
<1>8. CASE GetBlocks(t)
  BY <1>1, <1>8 DEF GetBlocks, Goto, store
<1>9. CASE ServeBlock(t)
  BY <1>1, <1>9 DEF ServeBlock, Goto, store
<1>10. CASE FetchFail(t)
  <2>1. originHash \in blocks /\ originHash # Nil
    BY <1>10, InvImpliesNoNil, ConstFacts DEF NoNilBlock, FetchFail, IInv, TypeOK
  <2>2. lastest' = originHash /\ UNCHANGED <<blocks, txns, utxo>>
    BY <1>10, <2>1 DEF FetchFail, RestoreOrigin
  <2> QED BY <1>1, <1>10, <2>1, <2>2 DEF FetchFail, UnlockAndReturn, Return, Goto, Rest
<1>11. CASE Revert(t)
  BY <1>1, <1>11 DEF Revert, Reverse, DeleteBlocks, DeleteByHash, DeleteTxns, Goto
<1>12. CASE AppendBlock(t)
  <2>1. Head(reply) \in Block /\ AddBlock(Head(reply)) /\ Update(Head(reply)) /\ pc' = pc
    BY <1>12 DEF AppendBlock, IInv, TypeOK
  <2> QED BY <2>1, AddBlockIndex
<1>13. CASE AppendDone(t)
  BY <1>1, <1>13 DEF AppendDone, UnlockAndReturn, Return, Goto, Rest, store
<1> QED BY <1>2, <1>3, <1>4, <1>5, <1>6, <1>7, <1>8, <1>9, <1>10, <1>11, <1>12, <1>13
       DEF SyncStep

LEMMA NextIndex ==
    ASSUME IInv, IndexInv, [Next]_vars
    PROVE  IndexInv'
<1>1. pc \in [Thread -> Steps]
  BY DEF IInv, TypeOK
<1>2. ASSUME NEW b \in Block, NEW a \in Peer, GossipBlock(b, a)
      PROVE  IndexInv'
  BY <1>1, <1>2 DEF IndexInv, GossipBlock, Goto, store
<1>3. CASE GossipApply
  <2>1. arg \in Block /\ AddBlock(arg) /\ Update(arg)
    BY <1>3 DEF GossipApply, IInv, HandlerInv
  <2>2. \A t \in Thread : pc'[t] \notin {"genesis", "reindex", "txnReindex"}
    BY <1>1, <1>3 DEF IndexInv, GossipApply, Return, Goto, Rest
  <2> QED BY <2>1, <2>2, AddBlockIndex DEF IndexInv
<1>4. ASSUME NEW b \in HeadGossip, GossipBlockHead(b)
      PROVE  IndexInv'
  BY <1>4 DEF IndexInv, GossipBlockHead
<1>5. ASSUME NEW t \in Thread, LockStep(t)
      PROVE  IndexInv'
  BY <1>1, <1>5
     DEF IndexInv, LockStep, SyncNotNeeded, SyncStart, Return, Goto, Rest, store
<1>6. ASSUME NEW p \in Peer, PeerMoves(p)
      PROVE  IndexInv'
  BY <1>6 DEF IndexInv, PeerMoves, store
<1>7. CASE UNCHANGED vars
  BY <1>7 DEF IndexInv, vars, store
<1> QED BY <1>2, <1>3, <1>4, <1>5, <1>6, <1>7, SyncStepIndex DEF Next

\* The indexes keep step when the node does not begin with an empty store.
THEOREM IndexInvariance ==
    ASSUME ~TornReplies, Nil \notin Starts
    PROVE  Spec => []IndexInv
<1>1. Init => IndexInv
  BY DEF Init, IndexInv, Rest
<1>2. IInv /\ IndexInv /\ [Next]_vars => IndexInv'
  BY NextIndex
<1>3. Spec => []IInv
  BY Invariance
<1> QED BY <1>1, <1>2, <1>3, PTL DEF Spec

\* Between synchronisations the transaction index is that of the main chain.
THEOREM AlwaysTxnIndexIsChain ==
    ASSUME ~TornReplies, Nil \notin Starts
    PROVE  Spec => []TxnIndexIsChain
<1>1. IndexInv => TxnIndexIsChain
  BY DEF IndexInv, TxnIndexIsChain
<1> QED BY <1>1, IndexInvariance, PTL

\* Between synchronisations the UTXO set has all blocks of the main chain.
THEOREM AlwaysUtxoCoversChain ==
    ASSUME ~TornReplies, Nil \notin Starts
    PROVE  Spec => []UtxoCoversChain
<1>1. IInv /\ IndexInv => UtxoCoversChain
  BY DEF IInv, IndexInv, StoreInv, StoreTip, BlocksOf, UtxoCoversChain
<1> QED BY <1>1, Invariance, IndexInvariance, PTL

-----------------------------------------------------------------------------
(* Refinement *)

\* Every step leaves the committed chain alone or replaces it as LongestChain
\* allows: the three exceptions are bootstrap, a gossiped successor, and the
\* end of an adoption.
LEMMA CommittedStep ==
    ASSUME ~TornReplies, IInv, [Next]_vars
    PROVE  \/ Committed' = Committed
           \/ Committed = Nil /\ Committed' = Genesis
           \/ /\ Committed # Nil /\ Committed' \in Block
              /\ Height(Committed') > Height(Committed)
<1> USE DEF IInv
<1>1. ASSUME UNCHANGED <<lastest, syncMutex, originHash>>
      PROVE  Committed' = Committed
  BY <1>1 DEF Committed
<1>2. ASSUME NEW t \in Thread, Sync(t) \/ Reindex(t) \/ TxnReindex(t) \/ Search(t)
                \/ GetBlocks(t) \/ ServeBlock(t) \/ Revert(t) \/ SyncNotNeeded(t)
      PROVE  Committed' = Committed
  BY <1>1, <1>2 DEF Sync, Reindex, TxnReindex, Search, GetBlocks, ServeBlock, Revert,
                    SyncNotNeeded, store, job
<1>3. ASSUME NEW t \in Thread, NEW a \in Peer, SendVersion(t, a)
      PROVE  Committed' = Committed
  BY <1>1, <1>3 DEF SendVersion, store, job
<1>4. ASSUME NEW t \in Thread, SyncStart(t)
      PROVE  Committed' = Committed
  BY <1>4, ConstFacts DEF SyncStart, Committed, Thread
<1>5. ASSUME NEW t \in Thread, SearchFail(t)
      PROVE  Committed' = Committed
  <2>1. lastest = originHash /\ syncMutex = t
    BY <1>5 DEF SearchFail, SearchInv, LockInv, Held
  <2> QED BY <1>5, <2>1, ConstFacts DEF SearchFail, UnlockAndReturn, Committed, Thread, store
<1>6. ASSUME NEW t \in Thread, Rewind(t) \/ AppendBlock(t)
      PROVE  Committed' = Committed
  <2>1. syncMutex = t /\ syncMutex' = syncMutex /\ originHash' = originHash
    BY <1>6 DEF Rewind, AppendBlock, LockInv, Held
  <2> QED BY <2>1, ConstFacts DEF Committed, Thread
<1>7. ASSUME NEW t \in Thread, FetchFail(t)
      PROVE  Committed' = Committed
  <2>1. pc[t] \in {"fetch", "serve"} /\ syncMutex = t
    BY <1>7 DEF FetchFail, LockInv, Held
  <2>2. lastest' = originHash /\ syncMutex' = Free
    BY <1>7, <2>1, InvImpliesNoNil
       DEF FetchFail, RestoreOrigin, UnlockAndReturn, NoNilBlock
  <2> QED BY <2>1, <2>2, ConstFacts DEF Committed, Thread
<1>8. ASSUME NEW t \in Thread, AppendDone(t)
      PROVE  /\ Committed # Nil /\ Committed' \in Block
             /\ Height(Committed') > Height(Committed)
  <2>1. /\ syncMutex = t /\ lastest \in Block /\ lastest' = lastest
        /\ Height(lastest) = newHeight[t]
    BY <1>8, AppendDoneFacts
  <2>2. originHash \in Block /\ newHeight[t] > Height(originHash)
    BY <2>1, <1>8 DEF AppendDone, CallInv, Held
  <2>3. Committed = originHash /\ Committed' = lastest
    BY <1>8, <2>1, ConstFacts DEF AppendDone, UnlockAndReturn, Committed, Thread
  <2> QED BY <2>1, <2>2, <2>3, ConstFacts
<1>9. ASSUME NEW t \in Thread, GetGenesis(t)
      PROVE  Committed' = Committed \/ (Committed = Nil /\ Committed' = Genesis)
  <2>1. UNCHANGED <<syncMutex, originHash>> /\ AddBlock(Genesis)
    BY <1>9 DEF GetGenesis, job
  <2>2. CASE lastest = Nil
    <3>1. syncMutex = Free
      BY <2>2 DEF BootInv, LockInv, TypeOK, Held
    <3>2. lastest' = lastest \/ lastest' = Genesis
      BY <2>1 DEF AddBlock, StoreBlock, store
    <3> QED BY <2>1, <2>2, <3>1, <3>2 DEF Committed
  <2>3. CASE lastest # Nil
    <3>1. lastest' = lastest
      BY <2>1, <2>3, GenesisFacts, ConstFacts DEF AddBlock, store, GetHeight, HeightOf, TypeOK
    <3> QED BY <2>1, <3>1 DEF Committed
  <2> QED BY <2>2, <2>3
<1>10. ASSUME GossipApply
       PROVE  \/ Committed' = Committed
              \/ /\ Committed # Nil /\ Committed' \in Block
                 /\ Height(Committed') > Height(Committed)
  <2>1. /\ syncMutex = Free /\ syncMutex' = Free /\ AddBlock(arg)
        /\ arg \in Block /\ lastest # Nil /\ lastest \in Block
    BY <1>10, ConstFacts DEF GossipApply, HandlerInv, BootInv, TypeOK, Thread
  <2>2. CASE GetHeight + 1 = Height(arg)
    <3>1. lastest' = arg /\ Height(arg) = Height(lastest) + 1
      BY <2>1, <2>2 DEF AddBlock, StoreBlock, GetHeight, HeightOf
    <3>2. Height(arg) > Height(lastest)
      BY <2>1, <3>1, ConstFacts
    <3> QED BY <2>1, <3>1, <3>2 DEF Committed
  <2>3. CASE GetHeight + 1 # Height(arg)
    BY <2>1, <2>3 DEF AddBlock, store, Committed
  <2> QED BY <2>2, <2>3
<1>11. ASSUME NEW b \in Block \ {Genesis}, NEW a \in Peer, GossipBlock(b, a)
       PROVE  Committed' = Committed
  BY <1>1, <1>11 DEF GossipBlock, store, job
<1>12. ASSUME NEW b \in HeadGossip, GossipBlockHead(b)
       PROVE  Committed' = Committed
  BY <1>1, <1>12 DEF GossipBlockHead, job
<1>13. ASSUME NEW p \in Peer, PeerMoves(p)
       PROVE  Committed' = Committed
  BY <1>1, <1>13 DEF PeerMoves, store
<1>14. CASE UNCHANGED vars
  BY <1>1, <1>14 DEF vars, store, job
<1>15. CASE Next
  BY <1>15, <1>2, <1>3, <1>4, <1>5, <1>6, <1>7, <1>8, <1>9, <1>10, <1>11, <1>12, <1>13
     DEF Next, SyncStep, LockStep
<1> QED BY <1>14, <1>15

\* The node implements LongestChain: whatever gossip, synchronisation, failing
\* peers and bootstrap do, the committed chain is only replaced by a higher one.
THEOREM Refinement ==
    ASSUME ~TornReplies
    PROVE  Spec => ImplementsLongestChain
<1>1. Init => LC!Init
  BY InitInv DEF IInv, TypeOK, Committed, LC!Init, Init
<1>2. IInv /\ [Next]_vars => [LC!Next]_Committed
  BY CommittedStep
     DEF LC!Next, LC!Bootstrap, LC!Adopt, LC!Genesis, LC!Height, Genesis, Height
<1>3. Spec => []IInv
  BY Invariance
<1> QED BY <1>1, <1>2, <1>3, PTL DEF Spec, ImplementsLongestChain, LC!Spec

=============================================================================
