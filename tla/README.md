# A TLA+ verification of the YouDad blockchain node

The repository is a proof-of-work blockchain whose state is split into groups
(shards). Every node is one process: a beego HTTP server that answers remote
calls, goroutines that keep the network together and synchronise the chain, and
optionally a mining loop. This directory holds TLA+ models of the node, the TLC
configurations that check them, and TLAPS proofs about them.

## 1. Inventory

| Part | State | Operations | Correct when |
|---|---|---|---|
| Block store (`core/blockchain.go`) | per group: `lastest`, blocks by hash, height index, transaction index, cached height | `AddBlock`, `DeleteBlock`, `SetLastest`, `GetHeight`, `GetBlockByHeight`, iterator, `TxnReindex` | the height index is the hash chain of `lastest`; nothing else is stored |
| Block heads (`core/blockhead.go`) | height -> head, cached head height | `AddBlockhead`, `Delete` | the heads are those of one chain, without holes |
| UTXO set (`core/utxo_set.go`) | txn hash -> unspent outputs | `Update`, `Reverse`, `Reindex`, `CreateTransaction`, `UTXOMemVerifyTransaction` | equals what the main chain leaves unspent |
| Synchronisation (`api/sync.go`, `api/version.go`) | `syncMutex`, the bounds of a binary search, the old tip | `Sync`, `syncBlocks` | the chain is only ever replaced by a higher one; the node catches up |
| Gossip handlers (`api/db.go`) | one mutex per handler | `GossipBlock`, `GossipBlockHead`, `GossipTxn`, `GossipRelayTxn`; readers `GetHash`, `GetBlocks`, `GetGenesis`, `GetBalance` | late, repeated and reordered messages do no harm |
| Mempool (`global/mempool`) | pool of transactions, one mutex | `AddTxn`, `Delete`, `GetTxns` (topological order, at most 50), `ExpandTxnOutput` | no double spend, parents before children |
| Cross-group relay (`api/db.go`, `commands/mining.go`, `types/transaction.go`) | none of its own | `GossipRelayTxn`, `RelayVerify` | a transaction reaches its target group once |
| Mining (`commands/mining.go`, `core/proof_of_work.go`, `core/merkle_tree.go`) | batch of blocks, nonce | `MineBlocks`, `NewPOW`, `Run`, `FindPath`, `Verify` | a mined block verifies; the difficulty stays usable |
| Database (`global/database.go`, `bolt_db.go`, `inherit_db.go`) | one bolt file, one mutex | `Get`, `Set`, `Delete`, `Foreach`, `Clear`, key encoding | different keys are different |
| Network (`global/known_nodes.go`, `network/*`) | known nodes, delays, sorted nodes | heartbeat, `CallInnerGroup`, gossip calls | calls reach nodes of the group |
| Locks (`global/mutex.go`, plus one per component) | `syncMutex`, `updateMutex`, mempool, bolt, ... | | no deadlock |
| Reaction times (`types/queue.go`) | ring buffer per known node | `Push`, `Pop`, `Get` | the last five times, in order |
| Logging (`log/log.go`) | two mutexes | `SetCallerLevel`, `Debugln`, `Errln`, ... | only the mutexes and the exit are modelled |
| Wallets, commands, routers | | key files, flags, wiring | not modelled: cryptography and I/O |

How they interact. A mined or received block enters through the `GossipBlock`
handler. It is either the successor of `lastest` (`AddBlock` and `Update` under
`syncMutex`) or a reason to synchronise. `syncBlocks` finds the last common
block with the sender by binary search, moves `lastest` down to it, fetches the
sender's blocks, removes its own from there on and appends the others. A
periodic goroutine starts the same synchronisation every fifteen seconds. All
other readers (`GetBlocks` and `GetHash` for other nodes, the gossip handler's
first look at `lastest`, the bootstrap part of `Sync`) take no lock.

What is hard: `lastest` is rewound in public before the peer has answered; the
handler's check is stale by the time it holds the lock; a peer's answer is put
together without a lock; replaced blocks must leave five indexes; every remote
call can fail; a block is written key by key and the process may die in between;
remote calls are made with mutexes held; a payment to another group is confirmed
twice, by miners that know nothing of each other. `PROJECT.json` lists each of these hazards at its line, with the
properties that would catch it going wrong.

## 2. Modules

| Module | Models |
|---|---|
| `BlockTree` | the blocks of a group: height, predecessor, ancestors (`types/block.go`) |
| `LongestChain` | abstract: what a node promises about its chain |
| `ChainSync`, `MCChainSync` | block store, gossip of blocks and heads, synchronisation |
| `Ledger`, `MCLedger` | transactions, mempool, UTXO set, transaction gossip, mempool clean-up in `AddBlock` |
| `LockPaths`, `Locks`, `MCLocks` | the mutexes every function takes, and goroutines of several nodes that take them |
| `Database` | the bolt file: buckets, keys, the bytes of a height |
| `BlockStore`, `MCBlockStore` | the writes of the block store one by one, cached heights, crashes; uses `Database` |
| `Window` | abstract: the last few values |
| `ReactTimes` | the ring buffer of reaction times; implements `Window` |
| `Membership`, `MCMembership` | how nodes come to know each other, and whom they ask |
| `Merkle` | Merkle trees, paths and walks |
| `Relay`, `MCRelay` | payments between groups: miners, relay messages, pools, UTXO sets; uses `Merkle` |
| `Mining` | batches, proof of work, difficulty; uses `Merkle` |
| `ChainSyncProofs`, `LocksProofs`, `LedgerProofs`, `BlockStoreProofs`, `ReactTimesProofs`, `MembershipProofs`, `MiningProofs`, `RelayProofs` | theorems about the modules they are named after |

No module declares a `RECURSIVE` operator, so all of them can be proved about.
`BlockStore` refines the grain of `ChainSync` (a crash between two writes) where
`ChainSync` refines its concurrency; `Relay` composes the UTXO sets, pools and
chains of two groups, which `Ledger` treats in more detail for one.

Every safety property of the passing runs is proved (section 5); liveness is
model-checked.

## 3. How ChainSync corresponds to the code

A block is its path from genesis: its hash covers its predecessor's hash, so a
block determines all below it, and equal hashes mean equal paths (no
collisions). Blocks are assumed valid in the sense of `Block.Verify`; genesis is
common to all nodes (`SendVersion` refuses a peer with another one).

| Variable | Code |
|---|---|
| `lastest`, `blocks`, `byHeight` | keys `"lastest"`, hash and height of the blocks database; `GetHeight` is the cached height, which follows `SetLastest` |
| `heads`, `headHeight` | the blockheads database and `cacheBlockheadHeight` |
| `txns`, `utxo` | transaction index and UTXO set, as the blocks whose coinbase they hold |
| `syncMutex`, `l`, `r`, `lastestHeight`, `originHash`, `lastestHash`, `reply` | the lock and the locals of `syncBlocks` |
| `pc`, `newHeight`, `address`, `arg` | where the handler and the periodic goroutine are, and their arguments |
| `peer`, `failures`, `moved` | the environment; `moved` is history: the peer changed since the lock was taken |

Actions are the stretches of code between two points where another goroutine
can make a difference: a remote call, a lock, a publicly visible write.

| Action | Code |
|---|---|
| `GossipBlock`, `GossipApply` | handler up to the wait for the lock; with the lock |
| `GossipBlockHead` | handler of heads |
| `Sync`, `GetGenesis`, `Reindex`, `TxnReindex`, `SendVersion` | the parts of `Sync`, none with the lock |
| `SyncNotNeeded`, `SyncStart` | the start of `syncBlocks`, with and without early return |
| `Search`, `SearchFail` | one round of the binary search |
| `Rewind` | `SetLastest(r)` |
| `GetBlocks`, `ServeBlock`, `FetchFail` | the call, block by block as the peer's loop reads them; the error path puts the old tip back |
| `Revert` | `Reverse` and `DeleteBlock` for all replaced blocks |
| `AppendBlock`, `AppendDone` | one round of the append loop; its end |
| `PeerMoves` | another node replaces its chain by a higher one |

Abstractions. `AddBlock` with `Update` is one step, so are all deletions of a
reorganisation: their writes happen under `syncMutex`, and a reader in between
sees a state the model has too, or one that only a crash would leave
(`BlockStore`). The exception is `Sync`'s bootstrap, whose three writes are
separate steps. A block carries only its coinbase here; the clean-up of the
mempool in `AddBlock` and spending are in `Ledger`. A peer that is
itself in the middle of a reorganisation answers like one with a shorter chain,
or with an error: the first is covered because the gossip handler may be given
any height, the second by `failures`. `TornReplies` says whether a peer may
change its chain while the reply loop runs.

### How Ledger corresponds to the code

`Ledger` looks at the transactions of one group on one node. It takes the chain
as given by the environment: blocks are mined or arrive, and a reorganisation
(`Revert`) removes some before at least one more arrives, which is what
`ChainSync` shows of complete replies.

| Variable | Code |
|---|---|
| `txn` | the transactions that exist; the position stands for the hash. Coinbases are there from the start, `SendCMD` makes the others |
| `chain`, `index` | the main chain's transactions, and the transaction index behind `FindTxn` |
| `utxo` | the UTXO database, entry by entry, in the order the entry stores the outputs; `<<>>` is no entry |
| `pool` | the mempool of the group |
| `pc`, `arg` | the `GossipTxn` handler, of which `mutexGossipTxn` lets one run |
| `owed` | the rest of a reorganisation, during which `syncBlocks` holds `syncMutex` |
| `exited` | which assertion (`log.Errln`) has ended the process |
| `raced`, `reorgs` | history and bound |

| Action | Code |
|---|---|
| `SendCMD` | `CreateTransaction`: `findUTXOs` through `ExpandTxnOutput`, outputs, `SignTransaction` with its assertion |
| `GossipTxn`, `UTXOMemVerifyTransaction`, `AddTxn` | the handler: checks without a lock, the check under `syncMutex`, the write |
| `MineBlock`, `ReceiveBlock` | `AddBlock` with the clean-up of the pool, then `Update` with its fallback to `Reindex` and `TxnReindex` |
| `Revert` | `Reverse` and `DeleteBlock` for each replaced block |
| `Restart` | a start after `log.Errln`: the pool is gone, the database is not |

Where the code ranges over a map or reads the database in the order of hashes
the model takes any order. The depth-first and in-degree details of `GetTxns`
are abstracted to "some topological order, cut off at the limit"; its removal
of cycles cannot happen because a transaction's hash covers its parents'. Other
miners' blocks hold unconfirmed transactions, parents first, but may spend an
output twice: `GossipBlock` does not check that. Gossip may be late, repeated
or lost, since `GossipTxn` may be taken at any time, again or never. The
assumption that all owners belong to the group leaves out the branches for
inputs of other groups (see `Relay`).

### How Locks corresponds to the code

`LockPaths` writes down, function by function, which mutexes are held when which
others are taken. A function is the set of its *nestings*, the sequences of
mutexes held at some moment; calling a function is a union, `Lock` ... `Unlock`
around a body is `Holding(m, body)`. A remote call keeps the caller waiting with
all it holds, so the mutexes of the handler on the other node are part of the
nesting (`Remote`). `sync.Once` counts as the mutex it is. In `Locks` goroutines
begin a path (a request, a round of a loop) on a node, possibly calling another
node or their own, and move from one nesting of the path to the next: `GoOn` is
one `Lock` that returns with the `Unlock`s that follow, `Return` the end of the
path. `want[g]` is the nesting `g` is about to enter. The mutexes of the
mempools of different groups count as one.

### How Database and BlockStore correspond to the code

`Database` is `interfaceToBytes` and the methods of `boltDB`. The arithmetic of
`HeightToBytes` wraps around as int32 does: with `Radix = 256` and `Width = 4`
the limit for the fourth byte is zero, so heights from 2^24 on get no bytes, and
`Put` refuses them. The run uses `Radix = 3`, where the same happens at 27.

In `BlockStore` every database write is a step of its own, and so are the writes
to the two cached heights. An operation puts the list of its writes into `todo`
(`StoreBlock`, `DeleteBlock`, `SetLastest`, `WriteHead`), and `DoSet`, `DoDelete`,
`DoClear`, `DoCache`, `DoHeadCache` carry them out; `DoCheck` is the condition of
`AddBlockhead` at the moment the code evaluates it, and `DoRevert` is one round of
the loop in `syncBlocks` that takes blocks back. `Crash` forgets `todo` and
the caches and keeps the file; `Exit` is a `log.Err` or a nil block on the way.
`LoadHeight` and `HeightLoaded` are the two halves of the `sync.Once` of
`GetHeight`, started by any goroutine. `torn`, `adding` and `headsCut` are history:
they name the blocks whose own writes were cut off. A node that finds lastest
without its entries fails in `syncBlocks`, or in `Sync` for genesis: those states
have no such step.

### How ReactTimes and Membership correspond to the code

`ReactTimes` is `types/queue.go` with the calls of `UpdateNode`; `Get` is mapped
to `Window`'s variable. In `Membership` a node has its map of known nodes
(`known`), its `sortedNodes` (`sorted`) and nothing on disk. `Start` is `Register`;
`GetKnownNodes` the first step of the loop of `StartServer`, with the handler of
the node that answers; `UpdateSortedNodes` its last step, with any order of the
list, since Go's maps and the shuffle are random. `GossipRace` is two gossips that
shuffle the list at the same time. Heartbeats only feed `ReactTimes`.

### How Merkle and Relay correspond to the code

A hash is what was hashed, so equal hashes have equal contents; that of a piece of
data is never that of two hashes, which the program owes to the length of its data.
`NewMerkleTree` builds the levels with the last node of an odd level doubled, `FindPath` walks
down by the code's own comparison and collects what lies beside, `Walk` is the
loop of `RelayVerify` and `Block.Hash`.

`Relay` is a node that serves all groups. Its wallets are honest (see
`RelayAssumption`): the inputs of a transaction have one owner, as `CreateTransaction`
makes them, and no owner has two outputs of one transaction, so an entry of the UTXO
set is a set of indexes. `FindUTXO` says which outputs the loop from the last block to
the first collects: those that no input seen before spends. `GossipTxn` takes a payment into the
pool of the group it spends from; `MineBlock` is `AddBlock`, `Update` with its
fallback to `Reindex`, the clean-up of the pool, and the relay by the miner, whose
own group is that of its coinbase; `MineInVain` is a block that came too late and
is relayed all the same; `GossipRelayTxn` is the handler, which any message may
reach at any time, again or never. `Restart` follows the assertion of
`UTXOMemVerifyTransaction`. The payments of `MCRelay` go both ways, one with
change, one that spends the change, one that spends what was relayed.

### How Mining corresponds to the code

`Start`, `BuildBlock` (once per group, on what is then its last block), `NewPOW`,
`Run`, `BlockchainChange` and `CallSelfBlock` are the stages of the mining loop; in
between other miners append (`OtherBlock`) or replace (`Fork`) blocks. The search
is a choice of a *level*, the greatest difficulty the hash is good for; a block
whose own hash is not the one found gets a level of its own. Targets are exact
fractions, rounded down where `GetTarget` and `Verify` do. A difficulty of zero,
where the code divides by zero, leads to `panicked`.

## 4. Runs

| Run | Instance | Result |
|---|---|---|
| `safety` | 7 blocks with forks at heights 1 and 2, height up to 3, 2 peers, any initial chain, 1 failing call | all invariants, and the refinement of `LongestChain`, hold |
| `chainsync_live` | 6 blocks, 1 peer, any store or none, gossiped heads | no nil block is used, `LongestChain` is refined, `CatchUp` holds |
| `ledger` | 2 owners, 3 blocks, 2 transactions, 1 reorganisation | `CoinsKept`, `PoolClosed`, `IndexIsChain` hold |
| `locks_order` | 2 nodes, 2 goroutines, all paths but `SendCMD` | `Ordered`, `NoCircularWait` hold |
| `locks_send` | 1 node, `Sync` and `SendCMD` | `EveryRunEnds` violated (finding) |
| `store` | empty store, store below the first two-byte height, store below the last height with a key; 2 new heights, 1 reorganisation, 1 crash | `CacheFresh`, `ChainOnDisk`, `IndexesFollow`, `HeadsReachable` hold |
| `react_times` | size 5 as in the code, 3 times | `Window` is implemented |
| `membership` | 3 nodes, 3 groups, one range around the end, 2 stops, 1 race | `GroupsTrue`, `AllKnown`, `NeighboursFound` hold |
| `relay` | 2 groups, 4 payments, 4 blocks by miners of both groups, 1 in vain | `RelayedIsConfirmed`, `CoinsArrive` hold |
| `relay_backed` | the same, none in vain | `PoolBacked` violated (finding) |
| `relay_announced` | the same, none in vain | `Announced` violated (finding) |
| `mining` | 3 groups, a batch of 2 around the end, difficulty change every 2 blocks, height 3, 1 fork | `SharedWork`, `TargetFollows`, `WorkDone` hold |

The bounds suffice for the cases that matter. In `ChainSync`: a fork of length one
and two on either side, a search of two rounds, a reply of one to three blocks,
gossip of either fork at every step, a failure of any call, and a peer that changes
its chain between any two calls. For the properties that are also proved the bounds
do not matter. In `Locks` two goroutines on two nodes are every pair of paths, which
is what a cycle of length two needs; longer cycles are excluded by `Ordered`, which
concerns one goroutine at a time. In `BlockStore` the crash can come between any two
writes of any operation, and before and after a reorganisation; the starting
heights are chosen at the edges of the key encoding. In `Membership` three nodes
let news travel through a third. In `Mining` two periods of the difficulty let it
rise and fall.

For the ledger, two transactions are what a double spend or a parent with its
child needs. `ledger`, `store`, `relay` and `mining` say `CHECK_DEADLOCK FALSE`: when
every block and transaction of the instance has been used the node has nothing to
do. `PoolClosed` and `IndexIsChain` are stated for the runs of the handler that no
block interrupts and pools within the limit of `GetTxns` (`~raced`): a block that
comes between its checks and `AddTxn` can leave a confirmed transaction in the pool,
which is then confirmed twice, and a reorganisation that removes one copy removes
the index entry of both. `CoinsKept` is stated for histories without a reorganisation,
whatever has raced, and for reorganisations without a race and with true indexes
(`IndexesTrue`); in both cases without payments to oneself. The indexes must be true
because `findUTXOs` takes the place of an output in the stored entry for its index
(`core/utxo_set.go:204`). Let a transaction pay bob and alice, in this order. Bob spends
his output, the entry shrinks, and alice's spend names index 1, which is bob's. That
is harmless: bob's output is spent. But when a reorganisation takes bob's spend back
and a double spend makes `Update` fall back to `FindUTXO`, bob's output is left out of
the set although nobody has spent it. This takes four blocks and four transactions,
more than the instance of the run; an attempt to prove `CoinsKept` without the
condition led to it, and TLC found it on the larger instance.

Fairness. In `ChainSync`, `SyncStep` is weakly fair: a goroutine that can run does,
and a remote call returns (a failing one returns an error, at most `MaxFailures`
times; without that bound a network that always fails keeps the node behind for
ever). The lock is granted with strong fairness: Go's mutex hands over to a
waiter that has starved for a millisecond. Gossip, gossiped heads and the peers'
moves have no fairness, so `CatchUp` rests on the periodic goroutine alone. In
`Locks`, `Return` is strongly fair for the same reason: a goroutine whose calls of
`Lock` return comes to the end of its path. In `Membership` a stopped node is
started again, the loop of a running node goes on, and a random order puts the
seed first again and again (`SeedFirst`, strong fairness); stops are bounded, and a
node that runs answers.

Findings. `locks_send`: `findUTXOs` takes the pool's mutex with the database mutex
held, `AddBlock` the other way round. `relay_backed`: a payment with change is
relayed back to the group it came from and pooled a second time, because
`GossipRelayTxn` looks in the pool only; the next check of the pool ends the
process. `relay_announced`: a miner names its own group for the blocks of all its
groups, so payments in the others are not announced.

### Further statements that TLC refutes

These configurations state what comments and assertions of the code say, or leave
out an assumption of the passing runs; TLC finds a counterexample with each.

| Configuration | Statement | What happens |
|---|---|---|
| `ChainSync_tornlink` | `ChainLinked` with `TornReplies` | a peer that reorganises during its answer makes the receiver's chain shrink, and a waiting handler appends a block of the old chain to it (`api/db.go:302`, "satisfies the hash chain") |
| `ChainSync_reverse` | `RevertedOutputsGone` | `Reverse` skips the coinbase, so the rewards of abandoned blocks stay spendable (`api/sync.go:117`) |
| `ChainSync_stale` | `OnlyStoredBlocksApplied` | the handler applies a block's outputs although `AddBlock` has refused the block (`api/db.go:306`) |
| `Ledger_self` | `CoinsKept` with payments to oneself | an input takes all outputs of its owner out of the entry, so change paid to oneself is lost (`core/utxo_set.go:65`) |
| `Ledger_unspent` | `OnlyUnspent` | `FindUTXO` collects outputs before it has seen the inputs of the same block that spend them (`core/blockchain.go:359`) |
| `Ledger_fork` | `NoForkInPool` | the check of a new transaction forgets that an entry was fully spent and lets a second spend into the pool (`core/utxo_set.go:264`) |
| `Ledger_inputs` | `InputsExist` | a transaction confirmed while its handler was about to add it to the pool is mined twice, and signing a spend of it ends the process (`core/utxo_set.go:204`) |

`SharedWork` fails with `BatchSize = 3`: for three and more leaves `FindPath` gives
most indexes a path that does not lead to the root. From an empty store the
transaction index and the UTXO set of `ChainSync` can stay behind (bootstrap without
the lock); no line of the repository promises otherwise.

## 5. Proofs

The theorems hold for all values of the constants that satisfy the `ASSUME` of the
module (`...Assumption`) and what a theorem assumes besides. TLC evaluates every
`ASSUME` on the instances of the runs.

| Theorem | States | Assumes besides |
|---|---|---|
| `ChainSyncProofs` `Invariance`, `TypeCorrect`, `ChainAlwaysLinked`, `StoreAlwaysChain`, `NeverNilBlock`, `AlwaysForkPoint`, `AlwaysWholeReply` | the invariants of the `safety` run | `~TornReplies` |
| `ChainSyncProofs` `Refinement` | `ChainSync` implements `LongestChain` with `tip <- Committed`, the chain that was current when the lock was taken | `~TornReplies` |
| `ChainSyncProofs` `AlwaysTxnIndexIsChain`, `AlwaysUtxoCoversChain` | the indexes are those of the main chain, or cover it | `~TornReplies`, `Nil \notin Starts` |
| `LocksProofs` `TypeCorrect`, `AlwaysOrdered`, `NeverCircularWait`, `NeverStandstill` | any number of goroutines and nodes: mutexes are taken in one order, so nobody waits in a circle, so somebody goes on | `"SendCMD" \notin Runs` |
| `LedgerProofs` `AlwaysIndexIsChain`, `AlwaysPoolClosed` | the transaction index is that of the chain; no pooled transaction lacks a parent | |
| `LedgerProofs` `TypeCorrect` | any owners, blocks, transactions and reorganisations: what is stored are outputs of owners, worth at most the subsidy | |
| `LedgerProofs` `AlwaysCoinsKept` | whatever mixture of `Update`, `Reverse` and `FindUTXO` has built the UTXO set, no unspent output is missing from it, under the conditions on races and indexes that section 4 gives | `~SelfPayment` |
| `BlockStoreProofs` `TypeCorrect`, `AlwaysCacheFresh` | chains of any height, any crashes: keys, values and heights have their types, and the cached height is the stored one | |
| `BlockStoreProofs` `AlwaysChainOnDisk`, `AlwaysIndexesFollow`, `AlwaysHeadsReachable` | what the file holds up to `lastest` after any crash: the chain, by height and by hash, with its indexes; no head above the cached height | |
| `ReactTimesProofs` `TypeCorrect`, `Refinement` | the ring implements `Window` for every size | |
| `MembershipProofs` `TypeCorrect`, `AlwaysGroupsTrue`, `AlwaysNeighboursServe` | what nodes believe of each other is true; whom they ask serves the group | |
| `MiningProofs` `TypeCorrect`, `AlwaysTargetFollows`, `AlwaysWorkDone` | every block has the prescribed target and the work for it | |
| `MiningProofs` `AlwaysSharedWork` | the hash that is tried is that of every block of the batch, whichever groups the miner has | `BatchSize <= 2` |
| `RelayProofs` `MerkleSound` | a path from a hash to the root of a Merkle tree proves that its data are in the tree, for trees and paths of any length | |
| `RelayProofs` `TypeCorrect`, `AlwaysRelayedIsConfirmed`, `AlwaysCoinsArrive` | any groups, transactions, blocks and messages: what a group pools or confirms is confirmed where its coins come from, and no coin is lost on the way | |

Why the assumptions. Without `~TornReplies`, `"SendCMD" \notin Runs` and `~SelfPayment`
the statements are false (`ChainSync_tornlink`, `locks_send`, `Ledger_self`). `Nil \notin Starts`: a node that begins
with an empty store writes its first block without a lock, and the indexes can stay
behind. `MembershipAssumption` has the nodes finite in number, since a node lists all
it knows. `DatabaseAssumption` has a height shorter than the word `lastest`, as the
program's four bytes are; `BlockStoreAssumption` has chains in the file whose heights
have keys, since `Put` refuses any other.

Hardly any invariant is inductive alone. The arguments:

* `ChainSync`. `ChainLinked` survives `GossipApply` only because the block that waits
  for the lock either follows the tip or is too low to be added when the lock is free
  again (`HandlerInv`). That needs the adoption to end at least at the announced
  height, hence a complete reply (`ReplyInv`), hence a reply read from one chain
  (`ServeInv`, and here `~TornReplies` is used), hence the agreement found at `r`
  (`WindowInv`) and the fact that the store holds the old chain throughout the window
  (`StoreInv`). TLC checks `IInv` itself in the `safety` run. `IndexInv` says of the
  indexes what they lack at each stage of a synchronisation. The facts about ancestors
  (an ancestor is a block, has its height, and ancestors of ancestors are ancestors)
  come first.
* `Locks`. Each path of `LockPaths` is shown to climb in `Rank`, from the functions
  that call no other upwards. In a circle of waiting goroutines each one waits for one
  whose next mutex has a higher rank; there are only seven ranks.
* `Ledger`. `DeleteBlock` removes index entries whether or not another block holds the
  transaction too. So the index hangs on no transaction being in two blocks, this on
  the pool holding nothing confirmed, and this on the transaction a handler is about
  to add, which is where `~raced` comes in. That the clean-up of `AddBlock` leaves a
  closed pool rests on its recursive function having a fixed point, the greatest
  closed subset of the pool.
  The coins have an invariant of their own, `CoinInv`. Its types: an input spends an
  output its parent has, an entry holds outputs of its transaction (`Fits`), change is
  less than the last coin taken, so no value exceeds the subsidy, and every block has
  a coinbase of its own, which bounds the blocks that a reorganisation owes (`Headed`).
  `Update` loses nothing since what an input takes is the one output of its owner
  (`~SelfPayment`). `FindUTXO` loses nothing because what it leaves out is named, by
  index, by a confirmed input: `Placing` says that an entry has its outputs at their
  places or has lost a spent one, so an index read off a place names the right output
  or a spent one. `Reverse` loses nothing because no transaction is in two blocks,
  which comes from the invariant of the index. What a fold over a sequence computes is
  shown for each fold by a lemma about its run, with induction over a set of numbers
  (`SetInduction`), since a lemma cannot take the folded operator as a parameter.
* `BlockStore`. Keys cannot be mistaken for each other, since a height has fewer bytes
  than `lastest` and a hash more; so what is read has the type the reader expects. In
  the list of what is still to be written every write of `lastest` is followed at once
  by that of the cache (`Orderly`), the bucket is cleared only when the cached height
  is -1 already, and the list is empty while the once of `GetHeight` runs (`Fresh`).
  That two heights with bytes have different ones (`HeightsDiffer`) is shown from the
  last byte down: digits below `Radix` and equal remainders give equal numbers.
  `HeadsInv` says that of the steps of `AddBlockhead` a list holds none, or the end of
  one. `DiskInv` says what the list of the chain is while it is being worked off: it
  stores all that is missing of one block above a chain that stands (`Adds`), or moves
  `lastest` along a chain that stands, which a crash may interrupt anywhere (`Syncs`,
  `Falls`), or only deletes above `lastest` (`RevertList`). A chain stands up to a height
  if all its blocks but the torn ones are there and each follows the one below.
* `ReactTimes`. The contents are described by length and by the place of the i-th
  element; `UpdateNode` is a shift of these, around the end of the array or not.
* `Membership`. `GroupsTrue` needs that every running node has the seed in its map:
  else an answer would replace the guess about the seed.
* `Mining`. A block is judged by the chain it was made for, so `IInv` says of the
  chains that the blocks in work follow what it says of the chains of the groups, and
  that times grow along them: this keeps the divisor of the new target from being 0.
  `SharedWork` needs that the groups of the batch are consecutive until the search
  ends (`OrderInv`); then a block's leaf number, counted around the last group, is its
  place, and the paths of trees with one and two leaves are worked out.
* `Relay`. A walk that ends at the root is followed backwards: every hash of a tree is
  that of a piece of data or of two hashes of the tree, and since equal hashes have
  equal contents each step of the walk was at such a node, down to the data
  (`MerkleSound`). So a message that passes `Proved` names a transaction of a block that
  is in the chain of `fromGroup`, for which the property holds already, wherever the
  message comes from; of messages only their groups and types matter (`MessagesInv`).
  `CoinsArrive` holds through `Update` because what `UpdateTxn` takes is named by an
  input (owners have one output of a transaction), and through `FindUTXO` because an
  output it leaves out is spent by an input in the chain.

The inductive invariants were tried with TLC on the instances of the runs before they
were proved.

Model-checked only: liveness, which is beyond the prover (`CatchUp`, `AllKnown`,
`NeighboursFound`; `EveryRunEnds` is refuted by `locks_send`).

`PoolBacked` and `Announced` of `Relay` are false (findings).

## 6. Not modelled

* SHA-256, ECDSA and base58: abstract, or irrelevant to the state. Signatures that
  fail because of a leading zero byte are listed as a hazard.
* JSON and HTTP: a call reaches a node or fails, and it returns. `http.Post` has no
  timeout, so a peer that never answers would hold `syncMutex` for ever.
* Printing, flags and wiring, the wallet file, the text of the log.
* Data races on Go maps (`GetMempool`) and on `sortedNodes` beyond a list in which
  elements are doubled or missing.
* In `Relay`: reorganisations after a relay, and heads that have not arrived;
  nodes that serve one group only, which drop the heads of the others
  (`api/db.go:341`) and so never accept a relayed payment.
* In `Mining`: rounding of float64, an elapsed time of zero, the speed limit.
* Blocks whose content is not valid: `GossipBlock` does not call `Verify`.
