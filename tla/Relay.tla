------------------------------- MODULE Relay --------------------------------
(***************************************************************************)
(* Payments from one group to another.  A transaction is confirmed in the  *)
(* group of the owner of its inputs; the miner of that block then sends it *)
(* to the groups of its outputs with a Merkle path, and there it is        *)
(* checked against the head of the block (api/db.go), pooled and confirmed *)
(* once more.  The model is a node that serves all groups and follows      *)
(* their main chains, and the miners, each with the group of its own       *)
(* address (commands/mining.go).                                           *)
(*                                                                         *)
(* The transactions that wallets make are given.  They are honest: no two  *)
(* spend the same output and no owner has two outputs of one transaction,  *)
(* so that what Ledger shows about those does not disturb the picture; the *)
(* steps of a handler, too, are Ledger's.  The inputs of a transaction     *)
(* have one owner (CreateTransaction), and a coinbase has one output       *)
(* (NewCoinbaseTxn).                                                       *)
(***************************************************************************)
EXTENDS Integers, Sequences, FiniteSets, SequencesExt, Merkle

CONSTANTS
    Group,      \* groups
    GroupOf,    \* GroupOf[o]: GetGroupByPubKeyHash of owner o's key
    Txn,        \* transactions, by their hashes
    Vin,        \* Vin[t]: set of [hash, index]; empty for a coinbase
    Vout,       \* Vout[t]: owners of the outputs
    Genesis,    \* Genesis[g]: the coinbase of the first block of group g
    MaxLost     \* how many blocks are mined in vain

ASSUME RelayAssumption ==
    /\ GroupOf \in [DOMAIN GroupOf -> Group]
    /\ Vout \in [Txn -> Seq(DOMAIN GroupOf)]
    /\ \A t \in Txn : \A i, j \in DOMAIN Vout[t] : Vout[t][i] = Vout[t][j] => i = j
    /\ \A t \in Txn : \A v \in Vin[t] : v.hash \in Txn /\ v.index \in DOMAIN Vout[v.hash]
    /\ \A t \in Txn : \A v, w \in Vin[t] :
          Vout[v.hash][v.index] = Vout[w.hash][w.index]
    /\ \A t \in Txn : Vin[t] = {} => Len(Vout[t]) = 1
    /\ Genesis \in [Group -> {t \in Txn : Vin[t] = {}}]
    /\ MaxLost \in Nat

VARIABLES
    chain,      \* chain[g]: main chain of g, sequence of sequences of transactions
    utxo,       \* utxo[g][t]: outputs of t in the UTXO set of g, a set of indexes
    pool,       \* pool[g]: mempool of g
    messages,   \* GossipRelayTxn's arguments ever sent
    mined,      \* coinbases used
    lost        \* number of blocks mined in vain

vars == <<chain, utxo, pool, messages, mined, lost>>

Coinbase == {t \in Txn : Vin[t] = {}}

Parents(t) == {v.hash : v \in Vin[t]}

OwnerOf(v) == Vout[v.hash][v.index]

\* The group of a transaction's inputs.
Source(t) == GroupOf[OwnerOf(CHOOSE v \in Vin[t] : TRUE)]

Targets(t) == {GroupOf[Vout[t][i]] : i \in DOMAIN Vout[t]}

Confirmed(c) == UNION {ToSet(c[i]) : i \in DOMAIN c}

-----------------------------------------------------------------------------
(* The UTXO set of a group *)

Outputs(t) == DOMAIN Vout[t]

\* An input of this group that has no entry; of another group it is left out.
Misses(g, u, t) == \E v \in Vin[t] : u[v.hash] = {} /\ GroupOf[OwnerOf(v)] = g

\* The inputs take away their owners' outputs; all outputs are entered, those to
\* other groups too.
UpdateTxn(u, t) ==
    [p \in Txn |->
        IF p = t THEN Outputs(t)
        ELSE {i \in u[p] : ~\E v \in Vin[t] : v.hash = p /\ Vout[p][i] = OwnerOf(v)}]

\* Is output i of t named by an input that FindUTXO sees before it comes to the j-th
\* transaction of block k?  It goes from the last block to the first, and within a
\* block from the first transaction on.
SeenBefore(c, k, j, t, i) ==
    \E m \in DOMAIN c : \E n \in DOMAIN c[m] :
        /\ m > k \/ (m = k /\ n < j)
        /\ \E v \in Vin[c[m][n]] : v.hash = t /\ v.index = i

\* All outputs of every transaction of the chain c but those seen spent before.
FindUTXO(c) ==
    [t \in Txn |->
        {i \in Outputs(t) :
            \E k \in DOMAIN c : \E j \in DOMAIN c[k] :
                c[k][j] = t /\ ~SeenBefore(c, k, j, t, i)}]

\* Mutant: an input of another group without an entry ends the update.
UpdateStops(g, u, b, c) ==
    LET missing(w, t) == \E v \in Vin[t] : w[v.hash] = {}
        after[n \in 0..Len(b)] ==
            IF n = 0 THEN u
            ELSE IF \E k \in 1..n : missing(after[k - 1], b[k]) THEN after[n - 1]
            ELSE UpdateTxn(after[n - 1], b[n])
    IN  after[Len(b)]

\* The set u after the first transactions of block b, as many as given.
Updates(u, b) ==
    LET after[n \in 0..Len(b)] == IF n = 0 THEN u ELSE UpdateTxn(after[n - 1], b[n])
    IN  after

\* Update by block b, which ends the chain c: where an entry is missing, Reindex.
Update(g, u, b, c) ==
    LET after == Updates(u, b)
    IN  IF \E n \in DOMAIN b : Misses(g, after[n - 1], b[n]) THEN FindUTXO(c)
        ELSE after[Len(b)]

-----------------------------------------------------------------------------
(* The mempool of a group *)

\* What AddBlock leaves in the pool p: neither what is in the block b nor what has
\* an ancestor that is neither confirmed nor in the pool.  A relayed transaction,
\* whose parents belong to another group, thus does not outlive the next block.
AfterBlock(p, confirmed, b) ==
    LET left == p \ ToSet(b)
        verify[n \in 0..Cardinality(left)] ==
            \* those whose ancestors are known, n generations deep
            IF n = 0 THEN {}
            ELSE LET known == confirmed \cup verify[n - 1]
                 IN  {t \in left : Parents(t) \subseteq known}
    IN  verify[Cardinality(left)]

\* What the pool leaves of the outputs of p.
MemLeft(g, p) ==
    LET outs == IF p \in pool[g] THEN DOMAIN Vout[p] ELSE utxo[g][p]
    IN  {i \in outs : ~\E t \in pool[g] : \E v \in Vin[t] :
                         v.hash = p /\ OwnerOf(v) = Vout[p][i]}

\* An input is looked at only if the pool has touched its parent and left something.
UTXOMemVerifyTransaction(g, t) ==
    \A v \in Vin[t] :
        LET touched == v.hash \in pool[g] \cup UNION {Parents(s) : s \in pool[g]}
            left == MemLeft(g, v.hash)
        IN  touched /\ left # {} => \E i \in left : Vout[v.hash][i] = OwnerOf(v)

\* Before that it goes through the pool, where every input of this group must have
\* an entry, unless its parent is in the pool too; otherwise log.Errln.
Backed(g) ==
    \A t \in pool[g] : \A v \in Vin[t] :
        GroupOf[OwnerOf(v)] = g => v.hash \in pool[g] \/ utxo[g][v.hash] # {}

-----------------------------------------------------------------------------
(* Actions *)

\* A wallet's transaction, in the group it spends from: new, its parents known.
GossipTxn(t) ==
    LET g == Source(t)
    IN  /\ t \notin pool[g] \cup Confirmed(chain[g])
        /\ Parents(t) \subseteq pool[g] \cup Confirmed(chain[g])
        /\ Backed(g)
        /\ UTXOMemVerifyTransaction(g, t)
        /\ pool' = [pool EXCEPT ![g] = @ \cup {t}]
        /\ UNCHANGED <<chain, utxo, messages, mined, lost>>

MerkleRoot(b) == Root(NewMerkleTree(b))

\* The group of the miner's address, to which its coinbase pays.
Base(coinbase) == GroupOf[Vout[coinbase][1]]

\* Mutant: a transaction is relayed to the group it comes from as well.
RelayGroupsAll(t, base) == Targets(t)

\* All groups of its outputs, without the miner's own group.
RelayGroups(t, base) == Targets(t) \ {base}

\* What the miner sends after it has mined block b: whatever the group of the
\* block is, it names its own group as the one the block belongs to.
RelayTxns(b, height) ==
    LET base == Base(b[1])
        message(i, to) == [fromGroup |-> base, toGroup |-> to, height |-> height,
                           path |-> FindPath(NewMerkleTree(b), i - 1), txn |-> b[i]]
    IN  UNION {{message(i, to) : to \in RelayGroups(b[i], base)} : i \in DOMAIN b}

\* Does GetTxns return ts, now or before the last few transactions arrived?
Packable(g, ts) ==
    /\ ToSet(ts) \subseteq pool[g]
    /\ \A i \in DOMAIN ts : Parents(ts[i]) \cap pool[g] \subseteq {ts[j] : j \in 1..i - 1}

\* A block of group g: AddBlock, Update, and a second later the relay.
MineBlock(g, coinbase, ts) ==
    LET b == <<coinbase>> \o ts
        c == Append(chain[g], b)
    IN  /\ coinbase \notin mined
        /\ Packable(g, ts)
        /\ chain' = [chain EXCEPT ![g] = c]
        /\ utxo' = [utxo EXCEPT ![g] = Update(g, @, b, c)]
        /\ pool' = [pool EXCEPT ![g] = AfterBlock(@, Confirmed(c), b)]
        /\ messages' = messages \cup RelayTxns(b, Len(c) - 1)
        /\ mined' = mined \cup {coinbase}
        /\ UNCHANGED lost

\* A block that another one has forestalled: nobody adds it, but its transactions
\* are relayed all the same.
MineInVain(g, coinbase, ts) ==
    /\ coinbase \notin mined
    /\ lost < MaxLost
    /\ Packable(g, ts)
    /\ messages' = messages \cup RelayTxns(<<coinbase>> \o ts, Len(chain[g]))
    /\ mined' = mined \cup {coinbase}
    /\ lost' = lost + 1
    /\ UNCHANGED <<chain, utxo, pool>>

\* Mutant: the path is not followed.
RelayVerifyNothing(t, root, path) == TRUE

RelayVerify(t, root, path) == Walk(Hash(t), path) = root

\* GetBlockheadByHeight, if there is such a head, and the check against it.
Proved(m) ==
    /\ m.height + 1 \in DOMAIN chain[m.fromGroup]
    /\ RelayVerify(m.txn, MerkleRoot(chain[m.fromGroup][m.height + 1]), m.path)

\* The handler; the transaction is new if the pool does not have it.
GossipRelayTxn(m) ==
    /\ m.txn \notin pool[m.toGroup]
    /\ Proved(m)
    /\ Backed(m.toGroup)
    /\ UTXOMemVerifyTransaction(m.toGroup, m.txn)
    /\ pool' = [pool EXCEPT ![m.toGroup] = @ \cup {m.txn}]
    /\ UNCHANGED <<chain, utxo, messages, mined, lost>>

\* log.Errln has ended the process, and it is started again without its pools.
Restart ==
    /\ \E g \in Group : ~Backed(g)
    /\ pool' = [g \in Group |-> {}]
    /\ UNCHANGED <<chain, utxo, messages, mined, lost>>

Init ==
    /\ chain = [g \in Group |-> <<<<Genesis[g]>>>>]
    /\ utxo = [g \in Group |-> [t \in Txn |->
                  IF t = Genesis[g] THEN Outputs(t) ELSE {}]]
    /\ pool = [g \in Group |-> {}]
    /\ messages = {}
    /\ mined = {Genesis[g] : g \in Group}
    /\ lost = 0

\* Any sequence without repetition of elements of a set.
Sequences(S) == UNION {SetToSeqs(T) : T \in SUBSET S}

Next ==
    \/ \E t \in Txn \ Coinbase : GossipTxn(t)
    \/ \E g \in Group, c \in Coinbase : \E ts \in Sequences(pool[g]) :
          MineBlock(g, c, ts) \/ MineInVain(g, c, ts)
    \/ \E m \in messages : GossipRelayTxn(m)
    \/ Restart

Spec == Init /\ [][Next]_vars

-----------------------------------------------------------------------------
(* Properties *)

TypeOK ==
    /\ chain \in [Group -> Seq(Seq(Txn))]
    /\ utxo \in [Group -> [Txn -> SUBSET Nat]]
    /\ \A g \in Group, t \in Txn : utxo[g][t] \subseteq Outputs(t)
    /\ pool \in [Group -> SUBSET (Txn \ Coinbase)]
    /\ \A m \in messages : m.toGroup \in Group /\ m.txn \in Txn /\ m.fromGroup # m.toGroup
    /\ mined \subseteq Coinbase /\ lost \in 0..MaxLost

\* Coins come from somewhere: whatever group has a transaction in its pool or its
\* chain, the transaction is confirmed in the group whose coins it spends.  Blocks
\* mined in vain are relayed too, and miners name the wrong group: it is
\* RelayVerify that keeps their transactions out.
RelayedIsConfirmed ==
    \A g \in Group : \A t \in (pool[g] \cup Confirmed(chain[g])) \ Coinbase :
        Source(t) = g \/ t \in Confirmed(chain[Source(t)])

SpentIn(g, t, i) ==
    \E s \in Confirmed(chain[g]) : \E v \in Vin[s] : v.hash = t /\ v.index = i

\* No coin is lost on its way: what the chain of a group has given its owners and
\* not taken again is in its UTXO set, whether the coin comes from the group itself
\* or from another one, however often its transaction is confirmed again and the
\* set is rebuilt.
CoinsArrive ==
    \A g \in Group : \A t \in Confirmed(chain[g]) : \A i \in Outputs(t) :
        GroupOf[Vout[t][i]] = g => SpentIn(g, t, i) \/ i \in utxo[g][t]

\* The assertion of UTXOMemVerifyTransaction, log.Errln("[FAIL] len(outBytes) == 0")
\* in core/utxo_set.go, is never hit.
PoolBacked == \A g \in Group : Backed(g)

\* "Send AMOUNT of coins from FROM address to TO" (commands/send.go): when a payment
\* to another group is confirmed, a message that convinces that group has been sent.
Announced ==
    \A g \in Group : \A t \in Confirmed(chain[g]) \ Coinbase :
        Source(t) = g =>
            \A to \in Targets(t) \ {g} :
                \E m \in messages : m.txn = t /\ m.toGroup = to /\ Proved(m)

=============================================================================
