------------------------------- MODULE Ledger -------------------------------
(***************************************************************************)
(* The transactions of one group on one node: the main chain with its      *)
(* transaction index, the UTXO set (core/utxo_set.go), the pool of         *)
(* unconfirmed transactions (global/mempool) and the handler of gossiped   *)
(* transactions (api/db.go), which takes its decisions in three steps.     *)
(* How the chain itself is chosen is the subject of ChainSync; here blocks *)
(* arrive, and a reorganisation removes some before others arrive.         *)
(*                                                                         *)
(* A transaction is known by its position in txn, which stands for its     *)
(* hash.  Signatures are taken to be valid and all owners to belong to the *)
(* group.                                                                  *)
(***************************************************************************)
EXTENDS Integers, Sequences, FiniteSets, SequencesExt

CONSTANTS
    Owner,      \* owners of a key
    Amount,     \* amounts that are sent
    Subsidy,    \* value of a coinbase output
    Miners,     \* owners of the coinbases that are ever made, genesis first
    MaxSent,    \* how many transactions are ever sent
    PackLimit,  \* how many transactions GetTxns returns (50 in the code)
    MaxReorg,   \* how many reorganisations happen
    SelfPayment \* may an owner pay himself?

ASSUME LedgerAssumption ==
    /\ Amount \subseteq 1..Subsidy
    /\ Subsidy \in Nat \ {0}
    /\ Miners \in Seq(Owner) /\ Miners # <<>>
    /\ MaxSent \in Nat
    /\ PackLimit \in Nat \ {0}
    /\ MaxReorg \in Nat
    /\ SelfPayment \in BOOLEAN

VARIABLES
    txn,        \* all coinbases, and the transactions sent so far: [vin, vout]
    chain,      \* main chain: sequence of sequences of transactions
    index,      \* transaction index
    utxo,       \* transaction -> outputs in the UTXO set, <<>> if no entry
    pool,       \* the mempool
    pc,         \* where the GossipTxn handler is
    arg,        \* the transaction it handles, 0 if none
    owed,       \* blocks a reorganisation has still to append
    reorgs,     \* number of reorganisations
    exited,     \* where log.Errln has ended the process, "no" if it runs
    raced       \* history: a block came or went while the handler was between
                \* its checks and AddTxn, or the pool was too large to clean up

vars == <<txn, chain, index, utxo, pool, pc, arg, owed, reorgs, exited, raced>>

Coinbase == 1..Len(Miners)
Id == 1..Len(Miners) + MaxSent
Made == 1..Len(txn)
Sent == Made \ Coinbase

IsCoinbase(t) == t \in Coinbase

Parents(t) == {v.hash : v \in ToSet(txn[t].vin)}

Confirmed(c) == UNION {ToSet(c[i]) : i \in DOMAIN c}

-----------------------------------------------------------------------------
(* The mempool *)

\* The topological orders of a pool, cut off at the limit: GetTxns returns
\* one of them.  (No cycle exists: an input names the hash of its parent.)
GetTxns(p) ==
    {SubSeq(s, 1, Min({PackLimit, Len(s)})) :
        s \in {o \in SetToSeqs(p) :
                  \A i, j \in DOMAIN o : o[j] \in Parents(o[i]) => j < i}}

\* Mutant: nothing is thrown out.
CleanUpNothing(p, order, idx) == p

\* What AddBlock keeps of a pool p when the index is idx: of the transactions
\* that GetTxns returns, those whose ancestors are all known.
CleanUp(p, order, idx) ==
    LET verify[t \in Id] ==
            \A q \in Parents(t) : q \in idx \/ (q \in p /\ verify[q])
    IN  p \ {t \in ToSet(order) : ~verify[t]}

\* Where the coins of an output have gone within the pool, for the owner: the
\* last generation of outputs found by following his spendings.
ExpandTxnOutput(coin, order) ==
    LET kept(t, o) ==
            FlattenSeq([i \in DOMAIN txn[t].vout |->
                IF txn[t].vout[i].owner = o
                  THEN <<[hash |-> t, index |-> i, owner |-> o,
                          value |-> txn[t].vout[i].value]>>
                  ELSE <<>>])
        spends(v, c) == v.hash = c.hash /\ v.owner = c.owner /\ v.value = c.value
        children(c) ==
            FlattenSeq([k \in DOMAIN order |->
                FlattenSeq([i \in DOMAIN txn[order[k]].vin |->
                    IF order[k] \in pool /\ spends(txn[order[k]].vin[i], c)
                      THEN kept(order[k], c.owner) ELSE <<>>])])
        generation[n \in 0..Len(order)] ==
            IF n = 0 THEN <<coin>>
            ELSE LET g == generation[n - 1]
                     next == FlattenSeq([i \in DOMAIN g |-> children(g[i])])
                 IN  IF next = <<>> THEN g ELSE next
    IN  generation[Len(order)]

-----------------------------------------------------------------------------
(* The UTXO set *)

\* Mutant: one input takes away the whole entry.
SpendEntry(u, v) == [u EXCEPT ![v.hash] = <<>>]

\* The outputs of the other owners.
Others(outs, owner) ==
    FlattenSeq([i \in DOMAIN outs |-> IF outs[i].owner = owner THEN <<>> ELSE <<outs[i]>>])

\* One input takes away every output of its owner.
Spend(u, v) == [u EXCEPT ![v.hash] = Others(@, v.owner)]

\* The entries a block leaves; miss is set if an input has no entry.
UpdateInput(s, v) ==
    IF s.miss \/ s.u[v.hash] = <<>>
      THEN [s EXCEPT !.miss = TRUE]
      ELSE [s EXCEPT !.u = Spend(@, v)]

UpdateTxn(s, t) ==
    LET spent == FoldLeft(UpdateInput, s, txn[t].vin)
    IN  IF spent.miss THEN spent ELSE [spent EXCEPT !.u[t] = txn[t].vout]

\* FindUTXO goes through the blocks from the last to the first, and through
\* the transactions of a block from the first to the last; it leaves out the
\* outputs that an input it has already seen names by its index.
FindTxnOutputs(s, t) ==
    LET left == FlattenSeq([i \in DOMAIN txn[t].vout |->
                    IF <<t, i>> \in s.stxos THEN <<>> ELSE <<txn[t].vout[i]>>])
    IN  [u |-> [s.u EXCEPT ![t] = @ \o left],
         stxos |-> s.stxos \cup {<<v.hash, v.index>> : v \in ToSet(txn[t].vin)}]

FindUTXO(c) ==
    FoldLeft(FindTxnOutputs,
             [u |-> [t \in Id |-> <<>>], stxos |-> {}],
             FlattenSeq(Reverse(c))).u

\* Update of the set by block b, which ends the chain c; if an input has no
\* entry, the set and the transaction index are rebuilt from c.
Update(b, c) ==
    LET s == FoldLeft(UpdateTxn, [u |-> utxo, miss |-> FALSE], b)
    IN  /\ utxo' = IF s.miss THEN FindUTXO(c) ELSE s.u
        /\ index' = IF s.miss THEN Confirmed(c) ELSE index \cup ToSet(b)

\* An input gives its output back, at the end of the entry.
ReverseInput(u, v) ==
    [u EXCEPT ![v.hash] = Append(@, [owner |-> v.owner, value |-> v.value])]

\* Coinbase transactions are skipped.
ReverseTxn(u, t) ==
    IF IsCoinbase(t) THEN u
    ELSE FoldLeft(ReverseInput, [u EXCEPT ![t] = <<>>], txn[t].vin)

ReverseBlocks(u, c) == FoldLeft(ReverseTxn, u, Reverse(FlattenSeq(c)))

-----------------------------------------------------------------------------
(* New transactions *)

\* The database and the pool are read in the order of hashes, which is any.
Orders(from) ==
    SetToSeqs(pool \cup {t \in Made : \E out \in ToSet(utxo[t]) : out.owner = from})

\* The coins of an owner in the order the database holds the entries.
Coins(from, order) ==
    FlattenSeq([k \in DOMAIN order |->
        LET t == order[k]
        IN  FlattenSeq([i \in DOMAIN utxo[t] |->
                IF utxo[t][i].owner = from
                  THEN ExpandTxnOutput([hash |-> t, index |-> i, owner |-> from,
                                        value |-> utxo[t][i].value], order)
                  ELSE <<>>])])

AddValue(n, coin) == n + coin.value

Total(coins) == FoldLeft(AddValue, 0, coins)

\* As many coins as are needed.
FindUTXOs(from, amount, order) ==
    LET all == Coins(from, order)
        enough == {n \in DOMAIN all : Total(SubSeq(all, 1, n)) >= amount}
    IN  IF enough = {} THEN all ELSE SubSeq(all, 1, Min(enough))

\* SendCMD: a wallet makes a transaction, and gossips it: every node, this one
\* included, gets it at any time, repeatedly or never.
SendCMD(from, to, amount, order) ==
    LET ins == FindUTXOs(from, amount, order)
        change == Total(ins) - amount
        pay == <<[owner |-> to, value |-> amount]>>
    IN  /\ exited = "no"
        /\ SelfPayment \/ from # to
        /\ Len(txn) < Len(Miners) + MaxSent
        /\ change >= 0
        /\ \A v \in ToSet(ins) : v.hash \in index \cup pool
        /\ \/ /\ \A v \in ToSet(ins) : v.index <= Len(txn[v.hash].vout)
              /\ txn' = Append(txn,
                    [vin |-> ins,
                     vout |-> IF change = 0 THEN pay
                              ELSE Append(pay, [owner |-> from, value |-> change])])
              /\ UNCHANGED exited
           \/ /\ \E v \in ToSet(ins) : v.index > Len(txn[v.hash].vout)
              /\ exited' = "sign"
              /\ UNCHANGED txn
        /\ UNCHANGED <<chain, index, utxo, pool, pc, arg, owed, reorgs, raced>>

-----------------------------------------------------------------------------
(* The GossipTxn handler *)

IsNew(t) == t \notin pool /\ t \notin index

\* First part, without a lock: new, and all its parents are known.
GossipTxn(t) ==
    /\ exited = "no"
    /\ pc = "idle"
    /\ IsNew(t)
    /\ Parents(t) \subseteq index \cup pool
    /\ pc' = "verify"
    /\ arg' = t
    /\ UNCHANGED <<txn, chain, index, utxo, pool, owed, reorgs, exited, raced>>

\* The outputs that the transactions of the pool leave, as far as they touch
\* them.  An entry that becomes empty is deleted.
MemInput(s, v) ==
    LET outs == IF s.u[v.hash] # <<>> THEN s.u[v.hash] ELSE utxo[v.hash]
    IN  [u |-> [s.u EXCEPT ![v.hash] = Others(outs, v.owner)],
         miss |-> s.miss \/ outs = <<>>]

MemTxn(s, t) ==
    [FoldLeft(MemInput, s, txn[t].vin) EXCEPT !.u[t] = txn[t].vout]

UtxoMem(order) == FoldLeft(MemTxn, [u |-> [t \in Id |-> <<>>], miss |-> FALSE], order)

\* An input is looked at only if its parent has an entry there.
MemVerifies(u, t) ==
    \A v \in ToSet(txn[t].vin) :
        u[v.hash] # <<>> => \E o \in ToSet(u[v.hash]) : o.owner = v.owner

\* Second part, with syncMutex, updateMutex and the mutex of the pool.
UTXOMemVerifyTransaction(order) ==
    LET s == UtxoMem(order)
    IN  /\ exited = "no"
        /\ pc = "verify"
        /\ owed = 0
        /\ exited' = IF s.miss THEN "memory" ELSE "no"
        /\ IF ~s.miss /\ MemVerifies(s.u, arg)
             THEN pc' = "add" /\ UNCHANGED arg
             ELSE pc' = "idle" /\ arg' = 0
        /\ UNCHANGED <<txn, chain, index, utxo, pool, owed, reorgs, raced>>

\* Mutant: AddTxn does not depend on the outcome of the check.
AddTxnUnchecked ==
    /\ exited = "no"
    /\ pool' = pool \cup {arg}
    /\ pc' = "idle"
    /\ arg' = 0
    /\ UNCHANGED <<txn, chain, index, utxo, owed, reorgs, exited, raced>>

\* Third part, with the mutex of the pool.
AddTxn ==
    /\ exited = "no"
    /\ pc = "add"
    /\ pool' = pool \cup {arg}
    /\ pc' = "idle"
    /\ arg' = 0
    /\ UNCHANGED <<txn, chain, index, utxo, owed, reorgs, exited, raced>>

-----------------------------------------------------------------------------
(* Blocks *)

\* AddBlock and Update, under syncMutex.
AddBlock(b) ==
    LET idx == index \cup ToSet(b)
        left == pool \ ToSet(b)
    IN  /\ chain' = Append(chain, b)
        /\ \E order \in GetTxns(left) : pool' = CleanUp(left, order, idx)
        /\ raced' = (raced \/ pc # "idle" \/ Cardinality(left) > PackLimit)
        /\ Update(b, chain')

\* This node has mined a block: a coinbase and what GetTxns returned.  A change
\* of the chain would have stopped the search; a block of what the pool held
\* earlier is one that ReceiveBlock may add.
MineBlock(coinbase, order) ==
    /\ exited = "no"
    /\ owed = 0
    /\ coinbase \notin Confirmed(chain)
    /\ AddBlock(<<coinbase>> \o order)
    /\ UNCHANGED <<txn, pc, arg, owed, reorgs, exited>>

\* A block of another miner: transactions that have not been confirmed, the
\* parents of each confirmed or before it.
Packable(ts) ==
    \A i \in DOMAIN ts :
        Parents(ts[i]) \subseteq Confirmed(chain) \cup {ts[j] : j \in 1..i - 1}

ReceiveBlock(coinbase, ts) ==
    /\ exited = "no"
    /\ coinbase \notin Confirmed(chain)
    /\ Packable(ts)
    /\ AddBlock(<<coinbase>> \o ts)
    /\ owed' = IF owed > 0 THEN owed - 1 ELSE 0
    /\ UNCHANGED <<txn, pc, arg, reorgs, exited>>

\* Mutant: DeleteBlock leaves the transaction index alone.
KeepTxns(ts) == index' = index

DeleteTxns(ts) == index' = index \ ts

\* syncBlocks takes the last n blocks back, the last one first; a higher chain
\* is appended before it lets the lock go.
Revert(n) ==
    LET stay == Len(chain) - n
        gone == SubSeq(chain, stay + 1, Len(chain))
    IN  /\ exited = "no"
        /\ reorgs < MaxReorg
        /\ owed = 0
        /\ stay > 0
        /\ Coinbase \ Confirmed(chain) # {}
        /\ chain' = SubSeq(chain, 1, stay)
        /\ utxo' = ReverseBlocks(utxo, gone)
        /\ DeleteTxns(Confirmed(gone))
        /\ owed' = n + 1
        /\ reorgs' = reorgs + 1
        /\ raced' = (raced \/ pc # "idle")
        /\ UNCHANGED <<txn, pool, pc, arg, exited>>

\* After log.Errln has ended the process the node is started again: the pool
\* is lost, the database stays.
Restart ==
    /\ exited # "no"
    /\ exited' = "no"
    /\ pool' = {}
    /\ pc' = "idle"
    /\ arg' = 0
    /\ UNCHANGED <<txn, chain, index, utxo, owed, reorgs, raced>>

-----------------------------------------------------------------------------

Init ==
    /\ txn = [i \in Coinbase |->
                 [vin |-> <<>>, vout |-> <<[owner |-> Miners[i], value |-> Subsidy]>>]]
    /\ chain = <<<<1>>>>
    /\ index = {1}
    /\ utxo = [t \in Id |-> IF t = 1 THEN txn[1].vout ELSE <<>>]
    /\ pool = {}
    /\ pc = "idle"
    /\ arg = 0
    /\ owed = 0
    /\ reorgs = 0
    /\ exited = "no"
    /\ raced = FALSE

Next ==
    \/ \E from, to \in Owner, amount \in Amount :
          \E order \in Orders(from) : SendCMD(from, to, amount, order)
    \/ \E t \in Sent : GossipTxn(t)
    \/ \E order \in GetTxns(pool) : UTXOMemVerifyTransaction(order)
    \/ AddTxn
    \/ \E c \in Coinbase, order \in GetTxns(pool) : MineBlock(c, order)
    \/ \E c \in Coinbase : \E S \in SUBSET (Sent \ Confirmed(chain)) :
          Cardinality(S) <= PackLimit /\ \E ts \in SetToSeqs(S) : ReceiveBlock(c, ts)
    \/ \E n \in 1..Len(chain) - 1 : Revert(n)
    \/ Restart

Spec == Init /\ [][Next]_vars

-----------------------------------------------------------------------------
(* Properties *)

\* An output as the UTXO set stores it.
Output == [owner : Owner, value : 1..Subsidy]

\* Every variable has its type: transactions named by chain, index and pool
\* have been made, and the set holds outputs of owners.
TypeOK ==
    /\ Len(txn) \in Id
    /\ chain \in Seq(Seq(Made))
    /\ index \subseteq Made
    /\ utxo \in [Id -> Seq(Output)]
    /\ pool \subseteq Made
    /\ pc \in {"idle", "verify", "add"}
    /\ arg \in Made \cup {0}
    /\ owed \in 0..Len(Miners)
    /\ reorgs \in 0..MaxReorg
    /\ exited \in {"no", "sign", "memory"}

\* Every transaction in the pool can be packed: each of its parents is confirmed
\* or in the pool too.  AddBlock sees to that when a reorganisation has removed
\* a parent, as long as the handler was not in the middle of its work.
PoolClosed ==
    owed = 0 /\ ~raced => \A t \in pool : Parents(t) \subseteq index \cup pool

\* The transaction index holds what the main chain has confirmed, after
\* reorganisations (DeleteBlock) and rebuilds (TxnReindex) as well: FindTxn
\* never finds what is gone nor misses what is there.
IndexIsChain == owed = 0 /\ ~raced => index = Confirmed(chain)

\* Is output out of transaction t spent on the main chain?
SpentOnChain(t, out) ==
    \E s \in Confirmed(chain) : \E v \in ToSet(txn[s].vin) :
        v.hash = t /\ v.owner = out.owner /\ v.value = out.value

\* Does every input name its output by the index as well?  FindUTXO looks at
\* nothing else.
IndexesTrue ==
    \A t \in Made : \A v \in ToSet(txn[t].vin) :
        txn[v.hash].vout[v.index] = [owner |-> v.owner, value |-> v.value]

\* No coin is lost: an output of the main chain that nobody has spent is in the
\* UTXO set, whatever mixture of Update and Reindex has built it ("Unspent
\* TxnOutputs", core/utxo_set.go).  A wrong index does no harm as long as blocks
\* only come: the output it names has been spent.  When they go too, indexes must
\* be true and no race may have let a transaction into the chain twice, which a
\* reorganisation would take back twice.
CoinsKept ==
    reorgs = 0 \/ (~raced /\ IndexesTrue) =>
        \A t \in Confirmed(chain) : \A out \in ToSet(txn[t].vout) :
            ~SpentOnChain(t, out) => out \in ToSet(utxo[t])

\* "Unspent TxnOutputs" (core/utxo_set.go): an output in the set has not been
\* spent on the main chain.
OnlyUnspent ==
    owed = 0 =>
        \A t \in Confirmed(chain) : \A out \in ToSet(utxo[t]) : ~SpentOnChain(t, out)

\* "Checks a new transaction against UTXO set and mempool, to prevent forks"
\* (core/utxo_set.go): no two transactions of the pool spend the same output.
NoForkInPool ==
    \A t, s \in pool : t # s =>
        \A v \in ToSet(txn[t].vin), w \in ToSet(txn[s].vin) :
            ~(v.hash = w.hash /\ v.owner = w.owner /\ v.value = w.value)

\* The assertion of Sign (types/transaction.go) is never hit: an input that
\* CreateTransaction has chosen names an output its parent has.
InputsExist == exited # "sign"

=============================================================================
