------------------------------- MODULE Mempool -------------------------------
(***************************************************************************)
(* The memory pool (txmempool.cpp), the orphan transactions (main.cpp) and *)
(* what AcceptToMemoryPool, the "tx" message, ConnectTip and DisconnectTip *)
(* do to them.  All of it runs under cs_main, so that each is one step;    *)
(* what is hard is that the pool, mapNextTx and the orphan indexes must    *)
(* follow the chain in both directions.                                    *)
(*                                                                         *)
(* A transaction is a model value with a set of inputs (pairs of a         *)
(* transaction and an output number).  Fees, scripts and standardness are  *)
(* a property of the transaction: NonStandard ones are mined but not       *)
(* pooled, Invalid ones are neither.  Zerocoin spends, which are not in    *)
(* mapNextTx, and transaction locks (module SwiftTX) are not modelled.     *)
(***************************************************************************)
EXTENDS Integers, Sequences, FiniteSets, Functions

CONSTANTS Tx,
          Ins,          \* the outpoints a transaction spends
          Outs,         \* how many outputs it has
          CoinBase,     \* the transactions that are coinbases
          CoinStake,    \* the transactions that are coinstakes
          Hash,         \* the order of the hashes, which respects dependencies
          NonStandard, Invalid,
          Peer,
          nMaxOrphanTx, \* -maxorphantx
          Maturity,     \* Params().Maturity()
          MaxHeight     \* blocks on top of each other: a bound for TLC

\* Coinbases and coinstakes that are invalid would only make a block that leaves no trace
ASSUME MempoolAssumption ==
  /\ IsFiniteSet(Tx) /\ Ins \in [Tx -> SUBSET (Tx \X Nat)] /\ Outs \in [Tx -> Nat]
  /\ CoinBase \subseteq Tx /\ CoinStake \subseteq Tx \ CoinBase
  /\ NonStandard \subseteq Tx /\ Invalid \subseteq Tx \ (CoinBase \cup CoinStake)
  /\ \A t \in Tx : Ins[t] = {} <=> t \in CoinBase
  /\ \A t \in Tx : \A o \in Ins[t] : o[2] \in 1..Outs[o[1]] /\ Hash[o[1]] < Hash[t]
  /\ Hash \in [Tx -> Nat] /\ IsInjective(Hash)
  /\ nMaxOrphanTx \in Nat /\ Maturity \in Nat /\ MaxHeight \in Nat

VARIABLES chain,        \* the active chain: a sequence of sets of transactions
          mapTx, mapNextTx, totalTxSize,
          mapOrphanTransactions,        \* orphan -> the peer it came from
          mapOrphanTransactionsByPrev   \* transaction -> orphans that spend it

poolVars == <<mapTx, mapNextTx, totalTxSize>>
orphanVars == <<mapOrphanTransactions, mapOrphanTransactionsByPrev>>
nodeVars == <<chain, poolVars, orphanVars>>

PoolInit ==
  /\ chain = <<>>
  /\ mapTx = {} /\ mapNextTx = <<>> /\ totalTxSize = 0
  /\ mapOrphanTransactions = <<>> /\ mapOrphanTransactionsByPrev = <<>>

-----------------------------------------------------------------------------
(* The coins of a chain c *)

Confirmed(c) == UNION Range(c)
HeightOf(t, c) == CHOOSE h \in DOMAIN c : t \in c[h]
Outpoints(t) == {t} \X (1..Outs[t])
Unspent(c) ==
  (UNION {Outpoints(t) : t \in Confirmed(c)}) \ (UNION {Ins[t] : t \in Confirmed(c)})
HaveCoins(t, c) == Outpoints(t) \cap Unspent(c) # {}
Immature(o, c) ==
  o[1] \in (CoinBase \cup CoinStake) \cap Confirmed(c) /\ Len(c) + 1 - HeightOf(o[1], c) < Maturity

-----------------------------------------------------------------------------
(* A pool is a record of the three fields of CTxMemPool, so that the functions below can
   be applied one after the other within a step. *)

Pool == [tx |-> mapTx, next |-> mapNextTx, size |-> totalTxSize]

SetPool(p) == mapTx' = p.tx /\ mapNextTx' = p.next /\ totalTxSize' = p.size

\* addUnchecked (every transaction has size 1)
addUnchecked(p, t) ==
  [tx |-> p.tx \cup {t},
   next |-> [o \in DOMAIN p.next \cup Ins[t] |-> IF o \in Ins[t] THEN t ELSE p.next[o]],
   size |-> p.size + 1]

\* Transactions of the pool that spend an output of one of ts, according to mapNextTx
Children(p, ts) == {p.next[o] : o \in {o \in DOMAIN p.next : o[1] \in ts}}

\* ts and all that depends on it: what every set with ts that is closed under Children has
Descendants(p, ts) ==
  {u \in ts \cup p.tx : \A s \in SUBSET (ts \cup p.tx) :
     ts \subseteq s /\ Children(p, s) \subseteq s => u \in s}

\* Mutant: mapNextTx keeps the inputs
Without_KeepsNext(p, ts) ==
  [tx |-> p.tx \ ts, next |-> p.next, size |-> p.size - Cardinality(ts)]

Without(p, ts) ==
  LET spent == UNION {Ins[t] : t \in ts}
  IN  [tx |-> p.tx \ ts,
       next |-> [o \in DOMAIN p.next \ spent |-> p.next[o]],
       size |-> p.size - Cardinality(ts)]

\* remove with fRecursive, one call for each of ts: what one takes out, the next no longer
\* finds.  The children of a transaction that is not in the pool go, too.
removeRecursive(p, ts) == Without(p, Descendants(p, ts) \cap p.tx)

remove(p, t, fRecursive) ==
  IF fRecursive THEN removeRecursive(p, {t}) ELSE Without(p, {t} \cap p.tx)

removeConflicts(p, t) == removeRecursive(p, {p.next[o] : o \in Ins[t] \cap DOMAIN p.next} \ {t})

\* A transaction of a block leaves the pool, and what conflicts with it
removeConfirmed(p, t) == removeConflicts(remove(p, t, FALSE), t)

\* removeForBlock: the pool after the first i transactions of the block
AfterBlockTxs(p, block) ==
  LET after[i \in 0..Len(block)] ==
        IF i = 0 THEN p ELSE removeConfirmed(after[i - 1], block[i])
  IN  after

removeForBlock(p, block) == AfterBlockTxs(p, block)[Len(block)]

\* removeCoinbaseSpends; pool transactions whose coins are gone go too
removeCoinbaseSpends(p, c) ==
  removeRecursive(p, {t \in p.tx : \E o \in Ins[t] :
                        o[1] \notin p.tx /\ (~HaveCoins(o[1], c) \/ Immature(o, c))})

-----------------------------------------------------------------------------
(* AcceptToMemoryPool: "ok", "missing" inputs, "invalid" if the peer misbehaves, or "no" *)

\* CCoinsViewMemPool: the pool on top of the coins
ViewHas(p, c, t) == t \in p.tx \/ HaveCoins(t, c)

IsStandardTx(t) == t \notin NonStandard

\* CheckInputs, as far as it does not depend on the chain: values and scripts
CheckInputs(t) == t \notin Invalid

AcceptResult(p, c, t) ==
  IF \/ t \in CoinBase \cup CoinStake \/ ~IsStandardTx(t)
     \/ t \in p.tx \/ Ins[t] \cap DOMAIN p.next # {}
     \/ HaveCoins(t, c) THEN "no"
  ELSE IF \E o \in Ins[t] : ~ViewHas(p, c, o[1]) THEN "missing"
  ELSE IF \E o \in Ins[t] : o[1] \notin p.tx /\ (o \notin Unspent(c) \/ Immature(o, c)) THEN "no"
  ELSE IF ~CheckInputs(t) THEN "invalid" ELSE "ok"

-----------------------------------------------------------------------------
(* Orphans *)

\* AddOrphanTx
WithOrphan(t, peer) ==
  [x \in DOMAIN mapOrphanTransactions \cup {t} |->
     IF x = t THEN peer ELSE mapOrphanTransactions[x]]

ByPrevWith(t) ==
  LET prevs == {o[1] : o \in Ins[t]}
      old(x) == IF x \in DOMAIN mapOrphanTransactionsByPrev
                  THEN mapOrphanTransactionsByPrev[x] ELSE {}
  IN  [x \in DOMAIN mapOrphanTransactionsByPrev \cup prevs |->
         IF x \in prevs THEN old(x) \cup {t} ELSE old(x)]

\* EraseOrphanTx for every orphan of ts, on given maps
EraseOrphans(orphans, ts) == [t \in DOMAIN orphans \ ts |-> orphans[t]]

\* Mutant: an orphan stays indexed by all its inputs but one
EraseByPrev_First(byPrev, ts) ==
  LET left(x) == {t \in byPrev[x] : t \notin ts \/ \E o \in Ins[t] : Hash[o[1]] < Hash[x]}
  IN  [x \in {x \in DOMAIN byPrev : left(x) # {}} |-> left(x)]

EraseByPrev(byPrev, ts) ==
  [x \in {x \in DOMAIN byPrev : byPrev[x] \ ts # {}} |-> byPrev[x] \ ts]

EraseOrphanTx(ts) ==
  /\ mapOrphanTransactions' = EraseOrphans(mapOrphanTransactions, ts)
  /\ mapOrphanTransactionsByPrev' = EraseByPrev(mapOrphanTransactionsByPrev, ts)

InHashOrder(ts) ==
  [i \in 1..Cardinality(ts) |->
     CHOOSE t \in ts : Cardinality({u \in ts : Hash[u] <= Hash[t]}) = i]

WaitingFor(x) ==
  IF x \in DOMAIN mapOrphanTransactionsByPrev THEN mapOrphanTransactionsByPrev[x] ELSE {}

\* The orphan at the head of the queue is looked at again.  w has the queue, the pool, the
\* orphans to erase and the misbehaving peers.  vWorkQueue has the transactions that were
\* accepted; w.queue has the orphans that wait for them, in the order they are looked at.
RetryOrphan(w) ==
  LET t == Head(w.queue)
      peer == mapOrphanTransactions[t]
      result == IF peer \in w.bad THEN "skipped" ELSE AcceptResult(w.pool, chain, t)
  IN  [queue |-> Tail(w.queue) \o (IF result = "ok" THEN InHashOrder(WaitingFor(t)) ELSE <<>>),
       pool |-> IF result = "ok" THEN addUnchecked(w.pool, t) ELSE w.pool,
       erase |-> IF result \in {"skipped", "missing"} THEN w.erase ELSE w.erase \cup {t},
       bad |-> IF result = "invalid" THEN w.bad \cup {peer} ELSE w.bad]

\* A transaction is accepted once, so that an orphan is queued once for each of its inputs
Retries ==
  Cardinality(UNION {{x} \X mapOrphanTransactionsByPrev[x] : x \in DOMAIN mapOrphanTransactionsByPrev})

\* The loop over vWorkQueue, orphan by orphan
ProcessOrphans(w) ==
  LET after[i \in 0..Retries] ==
        IF i = 0 THEN w
        ELSE IF after[i - 1].queue = <<>> THEN after[i - 1] ELSE RetryOrphan(after[i - 1])
  IN  after

-----------------------------------------------------------------------------
(* The "tx" message *)

\* A transaction is accepted, then the orphans that waited for it, then theirs
TxAccepted(t) ==
  /\ AcceptResult(Pool, chain, t) = "ok"
  /\ LET w == ProcessOrphans([queue |-> InHashOrder(WaitingFor(t)), pool |-> addUnchecked(Pool, t),
                              erase |-> {}, bad |-> {}])[Retries]
     IN  SetPool(w.pool) /\ EraseOrphanTx(w.erase)
  /\ UNCHANGED chain

\* LimitOrphanTxSize evicts random orphans
Evicted(orphans) ==
  {ts \in SUBSET DOMAIN orphans :
     Cardinality(ts) = IF Cardinality(DOMAIN orphans) > nMaxOrphanTx
                         THEN Cardinality(DOMAIN orphans) - nMaxOrphanTx ELSE 0}

TxOrphaned(t, peer) ==
  /\ AcceptResult(Pool, chain, t) = "missing"
  /\ t \notin DOMAIN mapOrphanTransactions
  /\ LET orphans == WithOrphan(t, peer)
     IN  \E ts \in Evicted(orphans) :
           /\ mapOrphanTransactions' = EraseOrphans(orphans, ts)
           /\ mapOrphanTransactionsByPrev' = EraseByPrev(ByPrevWith(t), ts)
  /\ UNCHANGED <<chain, poolVars>>

\* FinalizeNode: a peer is gone, and its orphans
EraseOrphansFor(peer) ==
  /\ EraseOrphanTx({t \in DOMAIN mapOrphanTransactions : mapOrphanTransactions[t] = peer})
  /\ UNCHANGED <<chain, poolVars>>

-----------------------------------------------------------------------------
(* The chain *)

\* A block ConnectBlock accepts on top of the tip.  The coinbase of a proof-of-stake block is
\* empty, and its coinstake is the only one.
ValidBlock(b) ==
  /\ Cardinality(b \cap CoinBase) = 1 /\ Cardinality(b \cap CoinStake) <= 1
  /\ b \cap CoinStake # {} => \A t \in b \cap CoinBase : Outs[t] = 0
  /\ b \cap (Invalid \cup Confirmed(chain)) = {}
  /\ \A t \in b : \A o \in Ins[t] :
       /\ o \in Unspent(chain) \/ o[1] \in b \ (CoinBase \cup CoinStake)
       /\ ~Immature(o, chain)
       /\ \A u \in b \ {t} : o \notin Ins[u]

ConnectTip(b) ==
  /\ Len(chain) < MaxHeight
  /\ ValidBlock(b)
  /\ SetPool(removeForBlock(Pool, InHashOrder(b)))
  /\ chain' = Append(chain, b)
  /\ UNCHANGED orphanVars

\* A transaction of a disconnected block goes back to the pool, or all that depends on it
\* leaves it
Resurrect(c, p, t) ==
  IF AcceptResult(p, c, t) = "ok" THEN addUnchecked(p, t) ELSE remove(p, t, TRUE)

\* The pool after the first i transactions of the block
Resurrected(c, p, block) ==
  LET after[i \in 0..Len(block)] ==
        IF i = 0 THEN p ELSE Resurrect(c, after[i - 1], block[i])
  IN  after

\* Mutant: coinbases that become immature are not looked at
AfterDisconnect_NoMaturity(c, block) == Resurrected(c, Pool, block)[Len(block)]

AfterDisconnect(c, block) == removeCoinbaseSpends(Resurrected(c, Pool, block)[Len(block)], c)

Below(c) == SubSeq(c, 1, Len(c) - 1)

DisconnectTip ==
  /\ chain # <<>>
  /\ SetPool(AfterDisconnect(Below(chain), InHashOrder(chain[Len(chain)])))
  /\ chain' = Below(chain)
  /\ UNCHANGED orphanVars

\* CTxMemPool::clear, when CreateNewBlock has made a block that is not valid
clear == SetPool([tx |-> {}, next |-> <<>>, size |-> 0])

\* Every step, with the transactions of ts around
PoolNext(ts) ==
  \/ \E t \in ts : TxAccepted(t)
  \/ \E t \in ts, peer \in Peer : TxOrphaned(t, peer)
  \/ \E peer \in Peer : EraseOrphansFor(peer)
  \/ \E b \in SUBSET ts : ConnectTip(b)
  \/ DisconnectTip

-----------------------------------------------------------------------------
(* Properties *)

\* mapNextTx has exactly the inputs of the pool's transactions, each with the one that
\* spends it: no two of them spend the same output, and no entry outlives its transaction
\* (an entry points into mapTx); totalTxSize is the size of what is left.  CTxMemPool::check
\* asserts all of it
NextTxExact ==
  /\ totalTxSize = Cardinality(mapTx)
  /\ DOMAIN mapNextTx = UNION {Ins[t] : t \in mapTx}
  /\ \A t \in mapTx : \A o \in Ins[t] : mapNextTx[o] = t

\* Everything in the pool could be in the next block: its inputs are outputs of pool
\* transactions, or unspent and mature in the chain, after blocks were connected and
\* disconnected in any order (CTxMemPool::check runs CheckInputs on all of it)
PoolMinable ==
  \A t \in mapTx : \A o \in Ins[t] :
    \/ o[1] \in mapTx
    \/ o \in Unspent(chain) /\ ~Immature(o, chain)

\* An orphan is found through each transaction it waits for and only as long as it is
\* stored, otherwise the "tx" handler's mapOrphanTransactions[orphanHash] would make an
\* empty transaction; and there are never more than -maxorphantx
OrphansIndexed ==
  /\ \A x \in Tx :
       LET waiting == {t \in DOMAIN mapOrphanTransactions : \E o \in Ins[t] : o[1] = x}
       IN  IF x \in DOMAIN mapOrphanTransactionsByPrev
             THEN mapOrphanTransactionsByPrev[x] = waiting /\ waiting # {}
             ELSE waiting = {}
  /\ Cardinality(DOMAIN mapOrphanTransactions) <= nMaxOrphanTx

=============================================================================
