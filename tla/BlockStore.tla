----------------------------- MODULE BlockStore -----------------------------
(***************************************************************************)
(* How the chain of one group gets into the database and stays there:      *)
(* core/blockchain.go and core/blockhead.go write it key by key, each key  *)
(* in a database transaction of its own, and keep the heights of the chain *)
(* and of the heads in memory.  The process can die between any two writes *)
(* and is then started again on the same file.                             *)
(*                                                                         *)
(* Two activities write: the one that has the synchronisation mutex        *)
(* ("chain": blocks that are appended, synchronisation with a peer) and    *)
(* the handler of block heads ("heads").  Other goroutines, such as the    *)
(* miner, ask for the height at any time.  Which blocks a node accepts is  *)
(* the subject of ChainSync, what they contain the subject of Ledger; here *)
(* a block contains its coinbase only.                                     *)
(***************************************************************************)
EXTENDS Database

CONSTANTS
    Starts,     \* heights of the chains that are stored at the beginning
    MaxNew,     \* how many heights above it the blocks reach
    MaxForks,   \* how many reorganisations happen
    MaxDepth,   \* how many blocks a reorganisation takes back
    MaxCrashes  \* how often the process is killed

\* A chain that is stored at the beginning has heights that can be stored.
ASSUME BlockStoreAssumption ==
    /\ Starts \subseteq Nat \cup {-1}
    /\ \A s \in Starts : \A h \in 0..s : CanSet(HeightToBytes(h))
    /\ Absent \notin [height : Int, fork : Int, prev : Int]
    /\ MaxNew \in Nat /\ MaxForks \in Nat /\ MaxDepth \in Nat /\ MaxCrashes \in Nat

VARIABLES
    file,       \* the database
    cache,      \* cacheHeight, Absent before its once has run
    loading,    \* the height that this once has read, Absent if it is not running
    headCache,  \* cacheBlockheadHeight, Absent before its once has run
    todo,       \* what each activity has still to do, in order
    top,        \* the greatest height for which there are blocks
    forks,      \* number of reorganisations
    crashes,    \* number of times the process was killed
    adding,     \* history: the block whose writes are under way, else Absent
    torn,       \* history: heights whose writes were cut off and not repeated
    headsCut    \* history: AddBlockhead was cut off, or met another one

vars == <<file, cache, loading, headCache, todo, top, forks, crashes, adding,
          torn, headsCut>>

memory == <<cache, loading, headCache>>
history == <<top, forks, crashes, adding, torn, headsCut>>

Activity == {"chain", "heads"}

\* A block: its height, the reorganisation after which it was made, and the same
\* of the block it follows.
NewBlock(h, f, p) == [height |-> h, fork |-> f, prev |-> p]

Hash(b) == [i \in 1..HashLength |->
                CASE i = 1 -> b.height [] i = 2 -> b.fork [] i = 3 -> b.prev
                  [] OTHER -> 0]

\* What decoding the encoding of no block gives: a block with all fields zero
\* that is nobody's predecessor.
NullBlock == NewBlock(0, -1, -1)

-----------------------------------------------------------------------------
(* Reading *)

GetLastest(f) == Get(f, "Blocks", Lastest)

LastestHeight(f) ==
    IF GetLastest(f) = Absent THEN -1 ELSE GetLastest(f).height

GetBlockByHash(f, hash) == Get(f, "Blocks", hash)

GetBlockByHeight(f, h) == GetBlockByHash(f, Get(f, "Blocks", HeightToBytes(h)))

GetBlockheadByHeight(f, h) == Get(f, "Blockheads", HeightToBytes(h))

\* Blockhead.GetHeight, which may read the database.
HeadHeight ==
    IF headCache # Absent THEN headCache
    ELSE IF Get(file, "Blockheads", Lastest) = Absent THEN -1
         ELSE Get(file, "Blockheads", Lastest).height

-----------------------------------------------------------------------------
(* Writing: lists of single steps *)

Write(bucket, key, value) == [do |-> "set", bucket |-> bucket, key |-> key, value |-> value]
Erase(bucket, key) == [do |-> "delete", bucket |-> bucket, key |-> key]
Empty(bucket) == [do |-> "clear", bucket |-> bucket]

\* On no block it stores the encoding of nil and then fails on its height.
SetLastest(b) ==
    IF b = Absent
    THEN <<Write("Blocks", Lastest, NullBlock), [do |-> "exit"]>>
    ELSE <<Write("Blocks", Lastest, b), [do |-> "cache", value |-> b.height]>>

\* AddBlockhead first looks whether the head is new and the next one.
AddBlockhead(b) == <<[do |-> "check", value |-> b]>>

\* Mutant: any height that has no head.
IsFreeHead(b) == GetBlockheadByHeight(file, b.height) = Absent

IsNextHead(b) ==
    /\ GetBlockheadByHeight(file, b.height) = Absent
    /\ HeadHeight + 1 = b.height

WriteHead(b) ==
    <<[do |-> "headCache", value |-> b.height],
      Write("Blockheads", HeightToBytes(b.height), b),
      Write("Blockheads", Lastest, b)>>

StoreBlock(b) ==
    SetLastest(b)
      \o <<Write("Blocks", Hash(b), b),
           Write("Blocks", HeightToBytes(b.height), Hash(b))>>
      \o AddBlockhead(b)
      \o <<Write("Txns", Hash(b), b)>>

Update(b) == <<Write("UTXOSet", Hash(b), b)>>

DeleteBlock(b) ==
    <<Erase("Blocks", Hash(b)), Erase("Blocks", HeightToBytes(b.height)),
      Erase("Blockheads", HeightToBytes(b.height)), Erase("Txns", Hash(b))>>

\* Mutant: the common block goes too.
DeleteDownFrom(h, r) ==
    IF h >= r THEN <<[do |-> "revert", from |-> h, to |-> r]>> ELSE <<>>

\* The blocks of heights h down to r + 1, if there are any, are still to be deleted.
DeleteDownTo(h, r) ==
    IF h > r THEN <<[do |-> "revert", from |-> h, to |-> r]>> ELSE <<>>

-----------------------------------------------------------------------------
(* The cached height *)

\* The first GetHeight of a process runs the once; all others wait for it.
LoadHeight ==
    /\ cache = Absent /\ loading = Absent
    /\ loading' = LastestHeight(file)
    /\ UNCHANGED <<file, cache, headCache, todo>> /\ UNCHANGED history

HeightLoaded ==
    /\ loading # Absent
    /\ cache' = loading
    /\ loading' = Absent
    /\ UNCHANGED <<file, headCache, todo>> /\ UNCHANGED history

\* Mutant: the height is taken from the database, and the once has not run.
HeightIsStored(h) == LastestHeight(file) = h

\* GetHeight has returned h.
HeightIs(h) == loading = Absent /\ cache = h

-----------------------------------------------------------------------------
(* What starts the writing *)

Idle(p) == todo[p] = <<>>

\* Its next step is of that kind.
Has(p, do) == todo[p] # <<>> /\ Head(todo[p]).do = do

\* It is between the check and the last write of AddBlockhead.
InAddBlockhead(p) ==
    \/ Has(p, "headCache")
    \/ Has(p, "set") /\ Head(todo[p]).bucket = "Blockheads"

\* CreateBlockchain, or the first synchronisation of a node without a chain.
AddGenesis ==
    /\ Idle("chain") /\ HeightIs(-1) /\ top >= 0
    /\ LET b == NewBlock(0, 0, 0)
       IN  /\ todo' = [todo EXCEPT !["chain"] =
                           <<Empty("Blocks")>> \o StoreBlock(b)
                             \o <<Empty("UTXOSet")>> \o Update(b)
                             \o <<Empty("Txns"), Write("Txns", Hash(b), b)>>]
           /\ adding' = b
    /\ UNCHANGED file /\ UNCHANGED memory
    /\ UNCHANGED <<top, forks, crashes, torn, headsCut>>

\* GossipBlock, or the last loop of syncBlocks: a block that follows the lastest
\* one.
AddBlock ==
    /\ Idle("chain")
    /\ GetLastest(file) \notin {Absent, NullBlock}
    /\ \E h \in 0..top - 1 :
          LET b == NewBlock(h + 1, forks, GetLastest(file).fork)
          IN  /\ HeightIs(h)
              /\ todo' = [todo EXCEPT !["chain"] = StoreBlock(b) \o Update(b)]
              /\ adding' = b
    /\ UNCHANGED file /\ UNCHANGED memory
    /\ UNCHANGED <<top, forks, crashes, torn, headsCut>>

\* syncBlocks with a peer whose chain is longer and has the block of height r in
\* common.  Sync fails on a nil genesis.
SyncBlocks(r) ==
    /\ Idle("chain")
    /\ \E h \in r..top - 1 :
          /\ HeightIs(h)
          /\ r = h \/ (forks < MaxForks /\ h - r <= MaxDepth)
          /\ todo' = [todo EXCEPT !["chain"] =
                          SetLastest(GetBlockByHeight(file, r))
                            \o <<[do |-> "fetch", from |-> h, to |-> r,
                                  origin |-> Hash(GetLastest(file))]>>]
    /\ GetBlockByHeight(file, 0) # Absent
    /\ GetBlockByHeight(file, r) # Absent
    /\ UNCHANGED file /\ UNCHANGED memory /\ UNCHANGED history

\* The handler of block heads, for a head that is the next one.  (A height that
\* has no bytes would end the process here as it does in AddBlock.)
GossipBlockHead ==
    /\ Idle("heads")
    /\ LET b == NewBlock(HeadHeight + 1, forks, forks)
       IN  /\ b.height <= top
           /\ CanSet(HeightToBytes(b.height))
           /\ IsNextHead(b)
           /\ todo' = [todo EXCEPT !["heads"] = WriteHead(b)]
           /\ headsCut' = (headsCut \/ InAddBlockhead("chain"))
    /\ headCache' = HeadHeight
    /\ UNCHANGED <<file, cache, loading, top, forks, crashes, adding, torn>>

-----------------------------------------------------------------------------
(* The single steps *)

\* The rest of what p has to do; its last step completes a block.
GoOn(p, rest) ==
    /\ todo' = [todo EXCEPT ![p] = rest]
    /\ IF p = "chain" /\ rest = <<>> /\ adding # Absent
       THEN adding' = Absent /\ torn' = torn \ {adding.height}
       ELSE UNCHANGED <<adding, torn>>

DoSet(p) ==
    /\ Has(p, "set")
    /\ LET s == Head(todo[p])
       IN  CanSet(s.key) /\ file' = Set(file, s.bucket, s.key, s.value)
    /\ GoOn(p, Tail(todo[p]))
    /\ UNCHANGED memory /\ UNCHANGED <<top, forks, crashes, headsCut>>

DoDelete(p) ==
    /\ Has(p, "delete")
    /\ file' = Delete(file, Head(todo[p]).bucket, Head(todo[p]).key)
    /\ GoOn(p, Tail(todo[p]))
    /\ UNCHANGED memory /\ UNCHANGED <<top, forks, crashes, headsCut>>

DoClear(p) ==
    /\ Has(p, "clear")
    /\ file' = Clear(file, Head(todo[p]).bucket)
    /\ GoOn(p, Tail(todo[p]))
    /\ UNCHANGED memory /\ UNCHANGED <<top, forks, crashes, headsCut>>

DoCache(p) ==
    /\ Has(p, "cache")
    /\ cache' = Head(todo[p]).value
    /\ GoOn(p, Tail(todo[p]))
    /\ UNCHANGED <<file, loading, headCache, top, forks, crashes, headsCut>>

DoCheck(p) ==
    /\ Has(p, "check")
    /\ LET b == Head(todo[p]).value
       IN  IF IsNextHead(b)
           THEN /\ GoOn(p, WriteHead(b) \o Tail(todo[p]))
                /\ headsCut' = (headsCut \/ InAddBlockhead("heads"))
           ELSE GoOn(p, Tail(todo[p])) /\ UNCHANGED headsCut
    /\ headCache' = HeadHeight
    /\ UNCHANGED <<file, cache, loading, top, forks, crashes>>

DoHeadCache(p) ==
    /\ Has(p, "headCache")
    /\ headCache' = Head(todo[p]).value
    /\ GoOn(p, Tail(todo[p]))
    /\ UNCHANGED <<file, cache, loading, top, forks, crashes, headsCut>>

\* CallbackGetBlocks returns the blocks: the node's own ones will be deleted.
Fetched ==
    /\ Has("chain", "fetch")
    /\ LET s == Head(todo["chain"])
       IN  /\ GoOn("chain", DeleteDownTo(s.from, s.to))
           /\ forks' = IF s.to < s.from THEN forks + 1 ELSE forks
    /\ UNCHANGED file /\ UNCHANGED memory /\ UNCHANGED <<top, crashes, headsCut>>

\* One round of the loop: a height that has no block is passed over.
DoRevert ==
    /\ Has("chain", "revert")
    /\ LET s == Head(todo["chain"])
           b == GetBlockByHeight(file, s.from)
       IN  GoOn("chain", (IF b = Absent THEN <<>> ELSE DeleteBlock(b))
                           \o DeleteDownTo(s.from - 1, s.to))
    /\ UNCHANGED file /\ UNCHANGED memory
    /\ UNCHANGED <<top, forks, crashes, headsCut>>

\* CallbackGetBlocks fails: lastest goes back to where it was.
FetchFails ==
    /\ Has("chain", "fetch")
    /\ GoOn("chain", SetLastest(GetBlockByHash(file, Head(todo["chain"]).origin)))
    /\ UNCHANGED file /\ UNCHANGED memory /\ UNCHANGED <<top, forks, crashes, headsCut>>

\* The memory is gone, and with it what was still to do.
Restart ==
    /\ cache' = Absent /\ loading' = Absent /\ headCache' = Absent
    /\ todo' = [p \in Activity |-> <<>>]
    /\ torn' = IF adding = Absent THEN torn ELSE torn \cup {adding.height}
    /\ adding' = Absent
    /\ headsCut' = (headsCut \/ \E p \in Activity : InAddBlockhead(p))
    /\ UNCHANGED <<file, top, forks>>

Crash ==
    /\ crashes < MaxCrashes
    /\ crashes' = crashes + 1
    /\ Restart

\* The program ends itself: a key that cannot be stored, or a nil block.
Exit(p) ==
    /\ \/ Has(p, "set") /\ ~CanSet(Head(todo[p]).key)
       \/ Has(p, "exit")
    /\ UNCHANGED crashes
    /\ Restart

\* A chain of height s, stored without interruption.
StoredChain(s) ==
    LET Entries(b) ==
            {<<<<"Blocks", Hash(b)>>, b>>,
             <<<<"Blocks", HeightToBytes(b.height)>>, Hash(b)>>,
             <<<<"Blockheads", HeightToBytes(b.height)>>, b>>,
             <<<<"Txns", Hash(b)>>, b>>,
             <<<<"UTXOSet", Hash(b)>>, b>>}
            \cup (IF b.height < s THEN {}
                  ELSE {<<<<"Blocks", Lastest>>, b>>, <<<<"Blockheads", Lastest>>, b>>})
        all == UNION {Entries(NewBlock(h, 0, 0)) : h \in 0..s}
    IN  [x \in {e[1] : e \in all} |-> (CHOOSE e \in all : e[1] = x)[2]]

Init ==
    /\ \E s \in Starts : top = s + MaxNew /\ file = StoredChain(s)
    /\ cache = Absent /\ loading = Absent /\ headCache = Absent
    /\ todo = [p \in Activity |-> <<>>]
    /\ forks = 0 /\ crashes = 0 /\ adding = Absent /\ torn = {} /\ headsCut = FALSE

Next ==
    \/ LoadHeight \/ HeightLoaded
    \/ AddGenesis \/ AddBlock \/ GossipBlockHead
    \/ \E r \in 0..top : SyncBlocks(r)
    \/ Fetched \/ FetchFails \/ DoRevert \/ Crash
    \/ \E p \in Activity :
          \/ DoSet(p) \/ DoDelete(p) \/ DoClear(p) \/ DoCache(p)
          \/ DoCheck(p) \/ DoHeadCache(p) \/ Exit(p)

Spec == Init /\ [][Next]_vars

-----------------------------------------------------------------------------
(* Properties *)

\* The database holds only keys that are not empty; heights are heights.
TypeOK ==
    /\ \A x \in DOMAIN file : x[1] \in Bucket /\ x[2] # <<>>
    /\ {cache, loading, headCache} \subseteq {Absent} \cup (-1..top)
    /\ \A p \in Activity : \A i \in DOMAIN todo[p] :
          todo[p][i].do \in {"set", "delete", "clear", "cache", "check",
                             "headCache", "fetch", "revert", "exit"}
    /\ forks \in 0..MaxForks /\ crashes \in 0..MaxCrashes
    /\ torn \subseteq 0..top /\ headsCut \in BOOLEAN

\* What GetHeight returns is the height of the stored lastest block, except
\* between the two steps of SetLastest: no goroutine's first GetHeight puts an
\* old height over a new one, and a restart finds the height again.
CacheFresh ==
    cache # Absent /\ ~Has("chain", "cache") /\ ~Has("chain", "exit")
        => cache = LastestHeight(file)

\* The heights whose blocks must be there.
Whole ==
    {h \in 0..LastestHeight(file) :
        h \notin torn /\ (adding = Absent \/ h # adding.height)}

\* Whatever heights become which bytes, and wherever the process was killed: up
\* to lastest every height gives a block of that height that follows the one
\* below, except for blocks whose own writes were cut off.
ChainOnDisk ==
    \A h \in Whole :
        LET b == GetBlockByHeight(file, h)
        IN  /\ b # Absent
            /\ b.height = h
            /\ h - 1 \in Whole => b.prev = GetBlockByHeight(file, h - 1).fork
            /\ h = LastestHeight(file) /\ GetLastest(file) # NullBlock
                   => b = GetLastest(file)

\* For these blocks the transaction index and the UTXO set were written as well.
IndexesFollow ==
    \A h \in Whole :
        LET hash == Get(file, "Blocks", HeightToBytes(h))
        IN  /\ Get(file, "Txns", hash) # Absent
            /\ Get(file, "UTXOSet", hash) # Absent

\* No head is stored above the height to which the heads are thought to reach:
\* AddBlockhead would refuse it and all after it for ever.  It takes a second
\* AddBlockhead at the same time, or a crash in the middle of one.
HeadsReachable ==
    ~headsCut /\ headCache # Absent /\ (\A p \in Activity : ~InAddBlockhead(p))
        => \A h \in 0..top : GetBlockheadByHeight(file, h) # Absent => h <= headCache

=============================================================================
