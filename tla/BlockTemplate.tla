---------------------------- MODULE BlockTemplate ----------------------------
(***************************************************************************)
(* A thread that makes blocks (miner.cpp) beside the pool and the chain of *)
(* module Mempool.  BitcoinMiner reads the tip, CreateNewBlock lets the    *)
(* wallet look for a coin to stake (CreateCoinStake), and only then takes  *)
(* cs_main and mempool.cs to fill the block: the tip, the coin and the     *)
(* masternode to pay may have changed since.  A block that is not valid is *)
(* thrown away together with the whole pool.                               *)
(*                                                                         *)
(* Priorities and fees only choose among the transactions that may come    *)
(* next: any of them may, or may be left out.  Every transaction has size  *)
(* 1.  Whether the reward and the masternode payment of a coinstake fit is *)
(* decided in module MasternodePayments; here they fit the height they     *)
(* were made for until the votes change (PaymentChanges), and may or may   *)
(* not fit another one.  Zerocoin stakes are not modelled, nor a search    *)
(* for a nonce that is given up.                                           *)
(***************************************************************************)
EXTENDS Mempool

CONSTANTS StakeDepth,   \* confirmations the wallet asks of a coin it stakes
          BlockSize,    \* transactions of the pool that fit into a block
          Worlds        \* sets of transactions, each with whether the node makes blocks

ASSUME TemplateAssumption ==
  /\ StakeDepth \in Nat /\ BlockSize \in Nat
  /\ Worlds \subseteq [tx : SUBSET Tx, mining : BOOLEAN]
  /\ "none" \notin Tx

VARIABLES miner,        \* the thread: where it is, and what it has read so far
          world         \* the member of Worlds this behaviour is in: a bound for TLC

vars == <<nodeVars, miner, world>>

Idle == [pc |-> "idle"]
NoStake == "none"

Init == PoolInit /\ miner = Idle /\ world \in Worlds

-----------------------------------------------------------------------------
(* Before cs_main is taken *)

\* AvailableCoins and SelectStakeCoins: the coinstakes whose coin is in the chain, deep and
\* mature enough, and not spent by a transaction of the pool, all of which the wallet knows
SelectStakeCoins ==
  {s \in (CoinStake \cap world.tx) \ Confirmed(chain) : \A o \in Ins[s] :
     /\ o \in Unspent(chain) /\ ~Immature(o, chain)
     /\ Len(chain) + 1 - HeightOf(o[1], chain) >= StakeDepth
     /\ o \notin DOMAIN mapNextTx}

\* BitcoinMiner reads the tip; the coins to stake are selected, unless this is proof of work.
\* A tip that moves between the two is, for the height read here, one that moves afterwards.
StartMining ==
  /\ world.mining
  /\ miner = Idle
  /\ \E s \in SelectStakeCoins \cup {NoStake} :
       miner' = [pc |-> IF s = NoStake THEN "ready" ELSE "selected",
                 height |-> Len(chain) + 1, stake |-> s, minted |-> Len(chain) + 1,
                 fits |-> TRUE]
  /\ UNCHANGED <<nodeVars, world>>

\* CreateCoinStake found a kernel: the reward and the payee are those of the height after the
\* tip there is now
CreateCoinStake ==
  /\ miner.pc = "selected"
  /\ miner' = [miner EXCEPT !.pc = "ready", !.minted = Len(chain) + 1]
  /\ UNCHANGED <<nodeVars, world>>

\* There is no kernel among the coins, and so no block
StakeNotFound ==
  /\ miner.pc = "selected"
  /\ miner' = Idle
  /\ UNCHANGED <<nodeVars, world>>

\* The votes, the sporks or the budget change what the next block has to pay
PaymentChanges ==
  /\ miner.pc = "ready" /\ miner.stake # NoStake
  /\ miner' = [miner EXCEPT !.fits = FALSE]
  /\ UNCHANGED <<nodeVars, world>>

-----------------------------------------------------------------------------
(* CreateNewBlock, once it holds the locks *)

\* setDependsOn: the inputs whose transactions have no coins in the chain
DependsOn(t) == {u \in {o[1] : o \in Ins[t]} : ~HaveCoins(u, chain)}

\* CCoinsViewCache::HaveInputs and CheckInputs on the view after the transactions of added
InputsOK(t, added) ==
  /\ \A o \in Ins[t] : o \in Unspent(chain) \/ o[1] \in added
  /\ \A o \in Ins[t] : ~Immature(o, chain) /\ \A u \in added : o \notin Ins[u]
  /\ CheckInputs(t)

\* Mutant: a transaction does not wait for the ones it depends on, and is not looked at again
MayFollow_Unordered(t, vtx) == Len(vtx) < BlockSize

\* May t be taken off the queue and added to a block that has vtx?
MayFollow(t, vtx) ==
  /\ Len(vtx) < BlockSize
  /\ DependsOn(t) \subseteq Range(vtx)
  /\ InputsOK(t, Range(vtx))

\* What the loop over vecPriority can make of the pool: each transaction could follow those
\* before it
Fillings ==
  {vtx \in UNION {[1..n -> mapTx] : n \in 0..BlockSize} : \A i \in DOMAIN vtx :
     LET before == SubSeq(vtx, 1, i - 1)
     IN  vtx[i] \notin Range(before) /\ MayFollow(vtx[i], before)}

\* ConnectBlock wants the transactions of a block in an order in which they can be spent
ParentsFirst(vtx) ==
  \A i, j \in DOMAIN vtx : vtx[j] \in {o[1] : o \in Ins[vtx[i]]} => j < i

\* The transactions of the block made from vtx: a coinbase, the coinstake if there is one
BlockOf(cb, s, vtx) == {cb} \cup ({s} \ {NoStake}) \cup Range(vtx)

\* TestBlockValidity, apart from what a coinstake pays
TestBlockValidity(b, vtx) == ValidBlock(b) /\ ParentsFirst(vtx)

\* The coinstake is for this height and pays what it should
StakeFits == miner.fits /\ (miner.stake # NoStake => miner.minted = Len(chain) + 1)

\* The coinbase CreateNewBlock makes is empty in a proof-of-stake block
NewCoinBase ==
  {cb \in (CoinBase \cap world.tx) \ Confirmed(chain) : Outs[cb] = 0 <=> miner.stake # NoStake}

\* A block for the tip there is now, whose coinbase then gets the height BitcoinMiner has read
TemplateMade ==
  /\ miner.pc = "ready"
  /\ miner.fits
  /\ \E cb \in NewCoinBase : \E vtx \in Fillings :
       LET b == BlockOf(cb, miner.stake, vtx)
       IN  /\ TestBlockValidity(b, vtx)
           /\ miner' = [pc |-> "made", height |-> miner.height, prev |-> chain, block |-> b]
  /\ UNCHANGED <<nodeVars, world>>

\* TestBlockValidity fails: there is no block, and no pool any more
TemplateRefused ==
  /\ miner.pc = "ready"
  /\ \E cb \in NewCoinBase : \E vtx \in Fillings :
       ~StakeFits \/ ~TestBlockValidity(BlockOf(cb, miner.stake, vtx), vtx)
  /\ clear
  /\ miner' = Idle
  /\ UNCHANGED <<chain, orphanVars, world>>

-----------------------------------------------------------------------------
(* ProcessBlockFound *)

\* The block is connected like one from a peer; its coinbase must state the height
BlockAccepted ==
  /\ miner.pc = "made" /\ miner.prev = chain
  /\ miner.height = Len(chain) + 1
  /\ ConnectTip(miner.block)
  /\ miner' = Idle
  /\ UNCHANGED world

\* The tip has moved since, or moved while the block was made
BlockDropped ==
  /\ miner.pc = "made"
  /\ miner.prev # chain \/ miner.height # Len(chain) + 1
  /\ miner' = Idle
  /\ UNCHANGED <<nodeVars, world>>

Next ==
  \/ PoolNext(world.tx) /\ UNCHANGED <<miner, world>>
  \/ StartMining \/ CreateCoinStake \/ StakeNotFound \/ PaymentChanges
  \/ TemplateMade \/ TemplateRefused
  \/ BlockAccepted \/ BlockDropped

Spec == Init /\ [][Next]_vars

-----------------------------------------------------------------------------
(* Properties *)

\* CreateNewBlock clears the pool when TestBlockValidity refuses its block.  What it selects
\* from the pool is never the reason, whatever blocks were connected and disconnected before:
\* only a coinstake that went stale since the coin was selected is, because the height or the
\* payment changed, or because the coin was spent in the chain or in the pool, or lost.
PoolClearedForStaleStakeOnly ==
  [][(miner.pc = "ready" /\ miner' = Idle) =>
       \/ ~StakeFits
       \/ miner.stake # NoStake /\ \E o \in Ins[miner.stake] :
            o \notin Unspent(chain) \/ Immature(o, chain) \/ o \in DOMAIN mapNextTx]_vars

=============================================================================
