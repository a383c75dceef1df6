--------------------------- MODULE BlockConnection ---------------------------
(***************************************************************************)
(* What connecting and disconnecting blocks does to the node's databases   *)
(* (main.cpp): the unspent coins, the undo data, the transaction index and *)
(* zerocoinDB, which records the serials that were spent and the coins     *)
(* that were minted.                                                       *)
(*                                                                         *)
(* The coins and the block index live in memory and reach the disk         *)
(* together, in FlushStateToDisk.  zerocoinDB and the transaction index    *)
(* are written while the block is connected or disconnected.  A crash can  *)
(* fall in between; at the next start VerifyDB disconnects and reconnects  *)
(* the last blocks.                                                        *)
(*                                                                         *)
(* The coin views under the coins are CoinsViewCache; here they are the    *)
(* map that module is proved to implement.                                 *)
(***************************************************************************)
EXTENDS Integers, Sequences, FiniteSets, Functions

CONSTANTS
  Block, Genesis, \* block hashes, and the one the chain starts with
  Prev,           \* hashPrevBlock of each block
  Bodies,         \* the vtx each block may turn out to have
  Txid,           \* transaction ids
  TxData,         \* [Txid -> transaction]
  ZKey,           \* zerocoin serials and public coins
  None,           \* no entry in a database
  Maturity,       \* Params().Maturity()
  CheckDepth      \* -checkblocks

\* Every block goes back to the genesis block.
ASSUME ConnectionAssumption ==
  /\ Genesis \notin Block
  /\ Prev \in [Block -> Block \cup {Genesis}]
  /\ \A S \in SUBSET Block : (\A b \in S : Prev[b] \in S) => S = {}
  /\ None \notin Block \cup {Genesis} \cup Txid
  /\ IsFiniteSet(Txid)
  /\ Maturity \in Nat
  /\ CheckDepth \in Nat

\* What CheckTransaction accepts: inputs, none of them twice.  A coinbase mints
\* and spends no zerocoins, and only a zerocoin spend redeems any.
ASSUME TxAssumption ==
  \A t \in Txid :
    /\ TxData[t].coinbase \in BOOLEAN /\ TxData[t].coinstake \in BOOLEAN
    /\ TxData[t].serials \subseteq ZKey /\ TxData[t].mints \subseteq ZKey
    /\ TxData[t].coinbase => TxData[t].serials = {} /\ TxData[t].mints = {}
    /\ ~TxData[t].coinbase /\ TxData[t].serials = {} => TxData[t].vin # <<>>
    /\ TxData[t].vin \in Seq([hash : Txid, n : Nat])
    /\ TxData[t].vout \in [DOMAIN TxData[t].vout -> Int] /\ IsFiniteSet(DOMAIN TxData[t].vout)
    /\ TxData[t].burnt \in Int /\ TxData[t].redeemed \in Int
    /\ TxData[t].serials = {} => TxData[t].redeemed = 0
    /\ \A i, j \in DOMAIN TxData[t].vin :
         TxData[t].vin[i] = TxData[t].vin[j] => i = j

VARIABLES
  vtx,        \* the contents of every block, fixed from the start
  tip,        \* chainActive.Tip()
  coins,      \* the unspent coins of pcoinsTip
  index,      \* what mapBlockIndex remembers of the blocks once connected
  pending,    \* [tip, coins]: the view of ConnectTip or DisconnectTip
  zdb,        \* zerocoinDB: the transaction that spent or minted
  txindex,    \* pblocktree: the block a transaction was last connected in
  durable,    \* [tip, coins, index] as of the last FlushStateToDisk
  phase,      \* "run"; "connected", "disconnected": pending is not yet flushed to
              \* pcoinsTip; or the stage of VerifyDB: "down", "up", "failed"
  check       \* [at, coins, clean]: pindexState and the view of VerifyDB

vars == <<vtx, tip, coins, index, pending, zdb, txindex, durable, phase, check>>

-----------------------------------------------------------------------------
(* Chains of blocks. *)

\* The blocks from b down to the one after the genesis block.
Chain[b \in Block \cup {Genesis}] ==
  IF b = Genesis THEN {} ELSE {b} \cup Chain[Prev[b]]

nHeight(b) == Cardinality(Chain[b])

\* What CheckBlock and ContextualCheckBlock accept: the first transaction is the
\* only coinbase and names the height; no serial is spent twice in a block.
ASSUME BodiesAssumption ==
  /\ DOMAIN Bodies = Block
  /\ \A b \in Block : \A v \in Bodies[b] :
       /\ v \in Seq(Txid) /\ v # <<>>
       /\ \A i \in DOMAIN v : TxData[v[i]].coinbase <=> i = 1
       /\ \A i, j \in DOMAIN v :
            i # j => TxData[v[i]].serials \cap TxData[v[j]].serials = {}
       /\ \A c \in Block : \A w \in Bodies[c] :
            v[1] = w[1] => nHeight(b) = nHeight(c)

\* IsTransactionInChain, for the active chain.
InChain(t) == txindex[t] \in Chain[tip]

\* IsSerialInBlockchain, and the test of ContextualCheckZerocoinMint.
IsKnown(z) == zdb[z] # None /\ InChain(zdb[z])

-----------------------------------------------------------------------------
(* CCoins.  vout maps the unspent outputs to their values; a CCoins without *)
(* any is Empty, as operator== has it.                                      *)

NoOutputs == [n \in {} |-> 0]

\* The map f with the entry for x set to v (an operator of its own, because the
\* provers know nothing of :> and @@).
Put(f, x, v) == [k \in DOMAIN f \cup {x} |-> IF k = x THEN v ELSE f[k]]

Empty ==
  [fCoinBase |-> FALSE, fCoinStake |-> FALSE, vout |-> NoOutputs,
   nHeight |-> 0, nVersion |-> 0]

IsPruned(c) == DOMAIN c.vout = {}

FromTx(t, h) ==
  IF DOMAIN TxData[t].vout = {}
  THEN Empty
  ELSE [fCoinBase |-> TxData[t].coinbase, fCoinStake |-> TxData[t].coinstake,
        vout |-> TxData[t].vout, nHeight |-> h, nVersion |-> TxData[t].version]

\* CCoins::Spend: the coins left over.
Spend(c, n) ==
  IF DOMAIN c.vout = {n}
  THEN Empty
  ELSE [c EXCEPT !.vout = Restrict(c.vout, DOMAIN c.vout \ {n})]

\* Mutant: the height is not saved with the last output.
SpendUndo_NoHeight(c, n) ==
  [txout |-> c.vout[n], fCoinBase |-> c.fCoinBase, fCoinStake |-> c.fCoinStake,
   nHeight |-> 0, nVersion |-> c.nVersion]

\* CCoins::Spend: the CTxInUndo.  Only the last output saves the metadata.
SpendUndo(c, n) ==
  IF DOMAIN c.vout = {n}
  THEN [txout |-> c.vout[n], fCoinBase |-> c.fCoinBase,
        fCoinStake |-> c.fCoinStake, nHeight |-> c.nHeight,
        nVersion |-> c.nVersion]
  ELSE [txout |-> c.vout[n], fCoinBase |-> FALSE, fCoinStake |-> FALSE,
        nHeight |-> 0, nVersion |-> 0]

\* A transaction with inputs in the coins (zerocoin spends have none).
HasInputs(t) == ~TxData[t].coinbase /\ TxData[t].serials = {}

Inputs(t) == IF HasInputs(t) THEN TxData[t].vin ELSE <<>>

\* UpdateCoins spends the inputs in order: view after the first j of them.
AfterInputs(view, t) ==
  LET after[j \in 0..Len(Inputs(t))] ==
        IF j = 0
        THEN view
        ELSE LET out == Inputs(t)[j]
             IN  [after[j - 1] EXCEPT ![out.hash] = Spend(@, out.n)]
  IN  after

\* UpdateCoins: the coins, and the CTxUndo.
UpdateCoins(view, t, h) ==
  [AfterInputs(view, t)[Len(Inputs(t))] EXCEPT ![t] = FromTx(t, h)]

TxUndo(view, t) ==
  [j \in 1..Len(Inputs(t)) |->
    LET out == Inputs(t)[j]
    IN  SpendUndo(AfterInputs(view, t)[j - 1][out.hash], out.n)]

-----------------------------------------------------------------------------
(* ConnectBlock. *)

\* HaveInputs and the maturity rule of CheckInputs.
InputsOK(view, t, h) ==
  HasInputs(t) =>
    \A i \in DOMAIN TxData[t].vin :
      LET out == TxData[t].vin[i]
          c == view[out.hash]
      IN  /\ out.n \in DOMAIN c.vout \ TxData[out.hash].mintOuts
          /\ c.fCoinBase \/ c.fCoinStake => h - c.nHeight >= Maturity

\* Mutant: the serials are not looked up.
ZerocoinOK_NoSerialCheck(t, h, verifying) ==
  TxData[t].serials # {} /\ InChain(t) => verifying /\ h <= nHeight(txindex[t])

\* The zerocoin checks.  While verifying, a spend may find itself in the chain.
ZerocoinOK(t, h, verifying) ==
  /\ TxData[t].serials # {} /\ InChain(t)
       => verifying /\ h <= nHeight(txindex[t])
  /\ \A z \in TxData[t].serials \cup TxData[t].mints : ~IsKnown(z)

TxsOf(b) == Range(vtx[b])
ZKeysOf(t) == TxData[t].serials \cup TxData[t].mints

\* The sum of some of the values of f, and of all of them (operators of their own,
\* because the provers cannot reason about folds).
SumOver(f) ==
  LET sum[S \in SUBSET DOMAIN f] ==
        IF S = {} THEN 0
        ELSE LET x == CHOOSE x \in S : TRUE IN f[x] + sum[S \ {x}]
  IN  sum

Total(f) == SumOver(f)[DOMAIN f]

\* Mutant: redeemed zerocoins are not counted.
ValueIn_NoZerocoin(view, t) ==
  IF HasInputs(t)
  THEN Total([j \in DOMAIN TxData[t].vin |->
                view[TxData[t].vin[j].hash].vout[TxData[t].vin[j].n]])
  ELSE 0

\* GetValueIn, or the denominations a zerocoin spend redeems.
ValueIn(view, t) ==
  IF HasInputs(t)
  THEN Total([j \in DOMAIN TxData[t].vin |->
                view[TxData[t].vin[j].hash].vout[TxData[t].vin[j].n]])
  ELSE TxData[t].redeemed

ValueOut(t) == Total(TxData[t].vout) + TxData[t].burnt

\* ConnectBlock on view: the coins after the first i of the transactions txs.
AfterTxs(view, txs, h) ==
  LET after[i \in 0..Len(txs)] ==
        IF i = 0 THEN view ELSE UpdateCoins(after[i - 1], txs[i], h)
  IN  after

\* No transaction makes ConnectBlock return early.
BlockOK(b, view, verifying) ==
  \A i \in 1..Len(vtx[b]) :
    /\ InputsOK(AfterTxs(view, vtx[b], nHeight(b))[i - 1], vtx[b][i], nHeight(b))
    /\ ZerocoinOK(vtx[b][i], nHeight(b), verifying)

BlockCoins(b, view) == AfterTxs(view, vtx[b], nHeight(b))[Len(vtx[b])]

\* blockundo: the first transaction has none.
BlockUndo(view, txs, h) ==
  [i \in 1..(Len(txs) - 1) |-> TxUndo(AfterTxs(view, txs, h)[i], txs[i + 1])]

\* nValueOut - nValueIn.
BlockValue(view, txs, h) ==
  Total([i \in 1..Len(txs) |->
           ValueOut(txs[i]) - ValueIn(AfterTxs(view, txs, h)[i - 1], txs[i])])

\* What the block index keeps: the undo data, written once, and nMoneySupply.
IndexEntry(b, view) ==
  [undo   |-> IF b \in DOMAIN index THEN index[b].undo
              ELSE BlockUndo(view, vtx[b], nHeight(b)),
   supply |-> BlockValue(view, vtx[b], nHeight(b))
              + IF Prev[b] = Genesis THEN 0 ELSE index[Prev[b]].supply]

\* WriteCoinSpendBatch, WriteCoinMintBatch.  Two transactions of a block may
\* mint the same coin; either of them leads to the block.
ZdbConnect(b) ==
  [z \in ZKey |-> IF \E t \in TxsOf(b) : z \in ZKeysOf(t)
                  THEN CHOOSE t \in TxsOf(b) : z \in ZKeysOf(t) ELSE zdb[z]]

\* WriteTxIndex.
TxIndexConnect(b) == [t \in Txid |-> IF t \in TxsOf(b) THEN b ELSE txindex[t]]

-----------------------------------------------------------------------------
(* DisconnectBlock. *)

\* Mutant: fCoinBase is not restored either.
RestoreInput_NoCoinBase(acc, out, undo) ==
  LET c == acc.coins[out.hash]
      base == IF undo.nHeight # 0
              THEN [Empty EXCEPT !.nHeight = undo.nHeight, !.nVersion = undo.nVersion]
              ELSE c
  IN  [coins |-> [acc.coins EXCEPT ![out.hash] =
                    [base EXCEPT !.vout = Put(@, out.n, undo.txout)]],
       clean |-> acc.clean /\ (undo.nHeight # 0 <=> IsPruned(c))]

\* An input is put back.  The metadata comes with the last output spent;
\* fCoinStake is in the undo data but is not restored.
RestoreInput(acc, out, undo) ==
  LET c == acc.coins[out.hash]
      base == IF undo.nHeight # 0
              THEN [Empty EXCEPT !.fCoinBase = undo.fCoinBase,
                                 !.nHeight = undo.nHeight,
                                 !.nVersion = undo.nVersion]
              ELSE c
  IN  [coins |-> [acc.coins EXCEPT ![out.hash] =
                    [base EXCEPT !.vout = Put(@, out.n, undo.txout)]],
       clean |-> /\ acc.clean
                 /\ (undo.nHeight # 0 <=> IsPruned(c))
                 /\ out.n \notin DOMAIN base.vout]

\* A transaction taken off acc: its outputs, then its inputs, last to first;
\* what is left when all but the first j have been put back.
BeforeInputs(acc, t, h, undo) ==
  LET before[j \in 0..Len(Inputs(t))] ==
        IF j = Len(Inputs(t))
        THEN [coins |-> [acc.coins EXCEPT ![t] = Empty],
              clean |-> acc.clean /\ acc.coins[t] = FromTx(t, h)]
        ELSE RestoreInput(before[j + 1], Inputs(t)[j + 1], undo[j + 1])
  IN  before

\* DisconnectBlock: the transactions, last to first.
BeforeTxs(view, txs, h, undo) ==
  LET before[i \in 0..Len(txs)] ==
        IF i = Len(txs)
        THEN [coins |-> view, clean |-> TRUE]
        ELSE BeforeInputs(before[i + 1], txs[i + 1], h, undo[i])[0]
  IN  before

DisconnectResult(b, view) ==
  BeforeTxs(view, vtx[b], nHeight(b), index[b].undo)[0]

\* Mutant: zerocoinDB keeps the entries of a disconnected block.
ZdbDisconnect_Keeps(b) == zdb

\* EraseCoinSpend, EraseCoinMint.
ZdbDisconnect(b) ==
  [z \in ZKey |-> IF \E t \in TxsOf(b) : z \in ZKeysOf(t) THEN None ELSE zdb[z]]

-----------------------------------------------------------------------------
NoCoins == [t \in Txid |-> Empty]
NoView == [tip |-> Genesis, coins |-> NoCoins]
NoCheck == [at |-> Genesis, coins |-> NoCoins, clean |-> TRUE]

Init ==
  /\ vtx \in {f \in [Block -> UNION Range(Bodies)] : \A b \in Block : f[b] \in Bodies[b]}
  /\ tip = Genesis
  /\ coins = NoCoins
  /\ index = [b \in {} |-> 0]
  /\ pending = NoView
  /\ zdb = [z \in ZKey |-> None]
  /\ txindex = [t \in Txid |-> None]
  /\ durable = [tip |-> tip, coins |-> coins, index |-> index]
  /\ phase = "run"
  /\ check = NoCheck

\* ConnectBlock from ConnectTip.  A block that fails leaves no trace: the view
\* is dropped before anything is written.
ConnectBlock(b) ==
  /\ phase = "run"
  /\ Prev[b] = tip
  /\ BlockOK(b, coins, FALSE)
  /\ index' = Put(index, b, IndexEntry(b, coins))
  /\ zdb' = ZdbConnect(b)
  /\ txindex' = TxIndexConnect(b)
  /\ pending' = [tip |-> b, coins |-> BlockCoins(b, coins)]
  /\ phase' = "connected"
  /\ UNCHANGED <<vtx, tip, coins, durable, check>>

\* DisconnectBlock from DisconnectTip.  zerocoinDB is changed whether or not
\* the block turns out to disconnect cleanly.
DisconnectBlock ==
  LET r == DisconnectResult(tip, coins)
  IN  /\ phase = "run"
      /\ tip # Genesis
      /\ zdb' = ZdbDisconnect(tip)
      /\ IF r.clean
         THEN /\ pending' = [tip |-> Prev[tip], coins |-> r.coins]
              /\ phase' = "disconnected"
         ELSE UNCHANGED <<pending, phase>>
      /\ UNCHANGED <<vtx, tip, coins, index, txindex, durable, check>>

\* The rest of ConnectTip and DisconnectTip: view.Flush(), FlushStateToDisk
\* (always after a disconnect, else if needed), UpdateTip.
UpdateTip ==
  /\ phase \in {"connected", "disconnected"}
  /\ tip' = pending.tip
  /\ coins' = pending.coins
  /\ pending' = NoView
  /\ phase' = "run"
  /\ \/ durable' = [tip |-> tip', coins |-> coins', index |-> index]
     \/ phase = "connected" /\ UNCHANGED durable
  /\ UNCHANGED <<vtx, index, zdb, txindex, check>>

\* FlushStateToDisk, periodic or at a clean shutdown.
FlushStateToDisk ==
  /\ phase = "run"
  /\ durable' = [tip |-> tip, coins |-> coins, index |-> index]
  /\ UNCHANGED <<vtx, tip, coins, index, pending, zdb, txindex, phase, check>>

\* The process dies, or is asked to shut down during VerifyDB, and starts
\* again: LoadBlockIndexDB, then VerifyDB unless the chain is just genesis.
Restart ==
  /\ tip' = durable.tip
  /\ coins' = durable.coins
  /\ index' = durable.index
  /\ pending' = NoView
  /\ phase' = IF tip' = Genesis THEN "run" ELSE "down"
  /\ check' = [at |-> tip', coins |-> coins', clean |-> TRUE]
  /\ UNCHANGED <<vtx, zdb, txindex, durable>>

\* VerifyDB goes down to nHeight >= chainActive.Height() - nCheckDepth.
MoreToCheck ==
  /\ check.at # Genesis
  /\ nHeight(check.at) >= nHeight(tip) - CheckDepth

VerifyDisconnect ==
  LET r == DisconnectResult(check.at, check.coins)
  IN  /\ phase = "down"
      /\ MoreToCheck
      /\ check' = [at |-> Prev[check.at], coins |-> r.coins,
                   clean |-> check.clean /\ r.clean]
      /\ zdb' = ZdbDisconnect(check.at)
      /\ UNCHANGED <<vtx, tip, coins, index, pending, txindex, durable, phase>>

\* Mutant: VerifyDB stops at level 3.
VerifyTurn_Level3 ==
  /\ phase = "down"
  /\ ~MoreToCheck
  /\ phase' = IF check.clean THEN "run" ELSE "failed"
  /\ UNCHANGED <<vtx, tip, coins, index, pending, zdb, txindex, durable, check>>

VerifyTurn ==
  /\ phase = "down"
  /\ ~MoreToCheck
  /\ phase' = IF check.clean THEN "up" ELSE "failed"
  /\ UNCHANGED <<vtx, tip, coins, index, pending, zdb, txindex, durable, check>>

\* Level 4: chainActive.Next(pindex) is connected to the same view.
VerifyConnect(b) ==
  /\ phase = "up"
  /\ b \in Chain[tip] /\ Prev[b] = check.at
  /\ IF BlockOK(b, check.coins, TRUE)
     THEN /\ check' = [at |-> b, coins |-> BlockCoins(b, check.coins), clean |-> check.clean]
          /\ index' = Put(index, b, IndexEntry(b, check.coins))
          /\ zdb' = ZdbConnect(b)
          /\ txindex' = TxIndexConnect(b)
          /\ UNCHANGED phase
     ELSE phase' = "failed" /\ UNCHANGED <<check, index, zdb, txindex>>
  /\ UNCHANGED <<vtx, tip, coins, pending, durable>>

VerifyDone ==
  /\ phase = "up"
  /\ check.at = tip
  /\ phase' = "run"
  /\ check' = NoCheck
  /\ UNCHANGED <<vtx, tip, coins, index, pending, zdb, txindex, durable>>

Next ==
  \/ \E b \in Block : ConnectBlock(b) \/ VerifyConnect(b)
  \/ DisconnectBlock
  \/ UpdateTip
  \/ FlushStateToDisk
  \/ Restart
  \/ VerifyDisconnect
  \/ VerifyTurn
  \/ VerifyDone

Spec == Init /\ [][Next]_vars

-----------------------------------------------------------------------------
(* What the databases should say, read off the chain of blocks alone. *)

TxsIn(b) == UNION {TxsOf(c) : c \in Chain[b]}

\* The outputs of t that the chain up to b spends.
SpentOutputs(b, t) ==
  {n \in DOMAIN TxData[t].vout :
     \E s \in TxsIn(b) : [hash |-> t, n |-> n] \in Range(Inputs(s))}

\* The unspent coins after block b.
ExpectedCoins(b) ==
  [t \in Txid |->
    IF t \notin TxsIn(b)
    THEN Empty
    ELSE LET home == CHOOSE c \in Chain[b] : t \in TxsOf(c)
             left == DOMAIN TxData[t].vout \ SpentOutputs(b, t)
         IN  IF left = {}
             THEN Empty
             ELSE [FromTx(t, nHeight(home)) EXCEPT !.vout = Restrict(@, left)]]

-----------------------------------------------------------------------------
(* Properties. *)

\* After any number of connects, disconnects and restarts, the coins in memory
\* and those on disk are the ones the chain they belong to says: no output
\* spent in an abandoned branch stays spent, none comes back twice, and the
\* height and kind of its transaction are right.
CoinsMatchChain ==
  /\ coins = ExpectedCoins(tip)
  /\ durable.coins = ExpectedCoins(durable.tip)

\* The tip can always be disconnected: its undo data is there, DisconnectBlock
\* finds nothing wrong, and what it leaves is the parent's coins.
TipCanBeUndone ==
  tip # Genesis =>
    /\ tip \in DOMAIN index
    /\ LET r == DisconnectResult(tip, coins)
       IN  r.clean /\ r.coins = ExpectedCoins(Prev[tip])

\* Whenever the node runs, zerocoinDB and the transaction index tell of every
\* serial spent and every coin minted in the active chain, although both are
\* written out of step with the chain state and a crash may come in between.
ZerocoinsOfChainAreKnown ==
  phase = "run" =>
    \A t \in TxsIn(tip) : \A z \in ZKeysOf(t) : IsKnown(z)

\* No serial is spent by two transactions of the chain, and no coin is minted in
\* two of its blocks (that one block mints a coin twice is not ruled out).
NoSerialSpentTwice ==
  /\ \A s, t \in TxsIn(tip) : s # t => TxData[s].serials \cap TxData[t].serials = {}
  /\ \A b, c \in Chain[tip] : b # c =>
       \A s \in TxsOf(b), t \in TxsOf(c) : ZKeysOf(s) \cap ZKeysOf(t) = {}

\* VerifyDB accepts every database the node itself has left behind.
StartupSucceeds == phase # "failed"

\* nMoneySupply of the tip is what the unspent coins add up to, less the
\* zerocoins redeemed (their mints stay unspent), plus what was burnt.
SupplyMatchesCoins ==
  phase = "run" /\ tip # Genesis =>
    index[tip].supply =
      Total([t \in Txid |-> Total(coins[t].vout)])
      + Total([t \in TxsIn(tip) |-> TxData[t].burnt - TxData[t].redeemed])

=============================================================================
