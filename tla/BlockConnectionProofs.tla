----------------------- MODULE BlockConnectionProofs -----------------------
(***************************************************************************)
(* Proofs about connecting, disconnecting and verifying blocks.            *)
(*                                                                         *)
(* The coins after some transactions have been connected are a function of *)
(* the set of these transactions and of their heights, View(S, ht): each   *)
(* transaction of S keeps the outputs that none of S spends.  UpdateCoins  *)
(* takes View(S) to View(S with t) (TxConnected), undoing t takes it back  *)
(* (TxDisconnected), and so for whole blocks (BlockConnected,              *)
(* BlockDisconnected).                                                     *)
(*                                                                         *)
(* The theorems assume StakesKept, that the blocks spend no coinstake      *)
(* completely: DisconnectBlock does not restore fCoinStake, and the coins  *)
(* would differ from then on.                                              *)
(*                                                                         *)
(* IInv relates the chain state, in memory and on disk, to the chain, and  *)
(* says which blocks zerocoinDB may lack at each stage: none while the     *)
(* node runs, only the tip between DisconnectBlock and UpdateTip, and only *)
(* blocks that VerifyDB disconnects and reconnects after a restart.        *)
(*                                                                         *)
(* SupplyInv says that nMoneySupply of every block in the index is what    *)
(* the coins of View add up to, with the zerocoins redeemed and the        *)
(* outputs burnt; the lemmas about sums are proved by induction over       *)
(* finite sets.                                                            *)
(***************************************************************************)
EXTENDS BlockConnection, FiniteSetTheorems, TLAPS

\* The contents the blocks may have
Contents == {v \in [Block -> UNION Range(Bodies)] : \A b \in Block : v[b] \in Bodies[b]}

\* What is left of transaction t, connected at height h, when the outputs L are unspent
Left(t, h, L) ==
  IF L = {}
  THEN Empty
  ELSE [fCoinBase |-> TxData[t].coinbase, fCoinStake |-> TxData[t].coinstake,
        vout |-> [n \in L |-> TxData[t].vout[n]], nHeight |-> h,
        nVersion |-> TxData[t].version]

Spends(s, t, n) == [hash |-> t, n |-> n] \in Range(Inputs(s))

Unspent(S, t) == {n \in DOMAIN TxData[t].vout : \A s \in S : ~Spends(s, t, n)}

\* The coins when the transactions S have been connected, each at height ht[t]
View(S, ht) == [t \in Txid |-> IF t \in S THEN Left(t, ht[t], Unspent(S, t)) ELSE Empty]

\* The transactions of S spend only outputs of transactions of S
Closed(S) == \A s \in S : \A j \in DOMAIN Inputs(s) : Inputs(s)[j].hash \in S

Txs(v, b) == UNION {Range(v[c]) : c \in Chain[b]}

HeightIn(v, b) == [t \in Txid |-> nHeight(CHOOSE c \in Chain[b] : t \in Range(v[c]))]

Expected(v, b) == View(Txs(v, b), HeightIn(v, b))

\* Block b connects to its parent's coins, and its serials and mints are new
Good(v, b) ==
  /\ \A i \in 1..Len(v[b]) :
       InputsOK(AfterTxs(Expected(v, Prev[b]), v[b], nHeight(b))[i - 1], v[b][i], nHeight(b))
  /\ \A s \in Txs(v, Prev[b]), t \in Range(v[b]) : ZKeysOf(s) \cap ZKeysOf(t) = {}

GoodChain(v, b) == \A c \in Chain[b] : Good(v, c)

\* Some output of every coinstake is never spent
StakesKept(v) ==
  \A t \in Txid : TxData[t].coinstake =>
    \/ DOMAIN TxData[t].vout = {}
    \/ \E n \in DOMAIN TxData[t].vout :
         \A b \in Block : \A s \in Range(v[b]) : ~Spends(s, t, n)

-----------------------------------------------------------------------------
UndoOf(v, b) == BlockUndo(Expected(v, Prev[b]), v[b], nHeight(b))

\* The coins are those of the chain, and the index has the undo data of the chain
StateOK(v, t, c, ix) ==
  /\ t \in Block \cup {Genesis} /\ GoodChain(v, t)
  /\ c = Expected(v, t)
  /\ Chain[t] \subseteq DOMAIN ix /\ DOMAIN ix \subseteq Block
  /\ \A b \in DOMAIN ix : ix[b].undo = UndoOf(v, b)

\* zerocoinDB leads from the serials and coins of block b to a transaction of b
Recorded(b) ==
  \A t \in TxsOf(b) : \A z \in ZKeysOf(t) : zdb[z] \in TxsOf(b) /\ z \in ZKeysOf(zdb[z])

\* The transaction index leads from there to b
Indexed(b) == \A t \in TxsOf(b) : ZKeysOf(t) # {} => txindex[t] = b

Erased(b) == \A t \in TxsOf(b) : \A z \in ZKeysOf(t) : zdb[z] = None

\* Block b is below those that VerifyDB looks at
Far(b) == nHeight(b) < nHeight(tip) - CheckDepth

Verifying == phase \in {"down", "up"}

ChainState ==
  /\ vtx \in Contents
  /\ StateOK(vtx, tip, coins, index)
  /\ StateOK(vtx, durable.tip, durable.coins, durable.index)
  /\ Chain[durable.tip] \subseteq Chain[tip]

\* A view that is to be flushed is that of a child or of the parent of the tip
PendingOK ==
  phase \in {"connected", "disconnected"} =>
    /\ StateOK(vtx, pending.tip, pending.coins, index)
    /\ IF phase = "connected"
       THEN pending.tip \in Block /\ Prev[pending.tip] = tip
       ELSE tip \in Block /\ pending.tip = Prev[tip]

\* VerifyDB is at a block of the chain that was on disk
CheckOK ==
  Verifying =>
    /\ durable.tip = tip
    /\ check.at \in Chain[tip] \cup {Genesis}
    /\ check.coins = Expected(vtx, check.at)
    /\ check.clean

\* What is recorded of the zerocoins of the chain
Zerocoins ==
  /\ zdb \in [ZKey -> Txid \cup {None}] /\ txindex \in [Txid -> Block \cup {None}]
  /\ \A b \in Chain[tip] :
       /\ Indexed(b)
       /\ phase \in {"run", "connected"} => Recorded(b)
       /\ phase = "disconnected" /\ b # tip => Recorded(b)
       /\ Verifying /\ Far(b) => Recorded(b)
       /\ phase = "up" /\ b \in Chain[check.at] => Recorded(b)
       /\ Verifying /\ b \notin Chain[check.at] => Erased(b)
  /\ phase = "connected" => Indexed(pending.tip) /\ Recorded(pending.tip)

Phases == {"run", "connected", "disconnected", "down", "up"}

IInv == ChainState /\ PendingOK /\ CheckOK /\ Zerocoins /\ phase \in Phases

-----------------------------------------------------------------------------
(* Chains of blocks *)

Node == Block \cup {Genesis}

ClosedDown(S) == \A x \in S : Prev[x] \in S \cup {Genesis}
Closure(b) == {x \in Block : \A S \in SUBSET Block : b \in S /\ ClosedDown(S) => x \in S}

\* The recursive definition of Chain has a solution: the least set of blocks with b that is
\* closed under Prev
LEMMA ChainDef ==
  Chain = [b \in Node |-> IF b = Genesis THEN {} ELSE {b} \cup Chain[Prev[b]]]
<1> DEFINE G == [b \in Node |-> IF b = Genesis THEN {} ELSE Closure(b)]
<1>1. ASSUME NEW b \in Block PROVE Closure(b) = {b} \cup G[Prev[b]]
  <2>1. Prev[b] \in Node /\ b # Genesis
    BY ConnectionAssumption, Zenon DEF Node
  <2>2. b \in Closure(b) /\ Closure(b) \subseteq Block
    BY Zenon DEF Closure
  <2>3. CASE Prev[b] = Genesis
    <3>1. ClosedDown({b})
      BY <2>3, Zenon DEF ClosedDown
    <3> QED
      BY <2>2, <2>3, <3>1, Zenon DEF Closure, Node
  <2>4. CASE Prev[b] # Genesis
    <3>1. G[Prev[b]] = Closure(Prev[b]) /\ Prev[b] \in Block
      BY <2>1, <2>4, Zenon DEF Node
    <3>2. Closure(Prev[b]) \subseteq Closure(b) /\ Prev[b] \in Closure(Prev[b])
      BY <2>4, <3>1, Zenon DEF Closure, ClosedDown
    <3>3. ASSUME NEW x \in Closure(Prev[b]), Prev[x] # Genesis PROVE Prev[x] \in Closure(Prev[b])
      <4>1. x \in Block /\ Prev[x] \in Block
        BY <3>3, ConnectionAssumption, Zenon DEF Closure
      <4> QED
        BY <3>3, <4>1, Zenon DEF Closure, ClosedDown
    <3>4. ClosedDown({b} \cup Closure(Prev[b]))
      BY <3>2, <3>3, Zenon DEF ClosedDown
    <3>5. ({b} \cup Closure(Prev[b])) \in SUBSET Block
      BY Zenon DEF Closure
    <3>6. Closure(b) \subseteq {b} \cup Closure(Prev[b])
      BY <3>4, <3>5, Zenon DEF Closure
    <3> QED
      BY <2>2, <3>1, <3>2, <3>6, Zenon
  <2> QED
    BY <2>3, <2>4, Zenon
<1>2. G = [b \in Node |-> IF b = Genesis THEN {} ELSE {b} \cup G[Prev[b]]]
  BY <1>1, Zenon DEF Node
<1> HIDE DEF G
<1> QED
  BY <1>2, Zenon DEF Chain, Node

LEMMA ChainStep ==
  /\ Chain[Genesis] = {}
  /\ \A b \in Block : b # Genesis /\ b \in Node /\ Prev[b] \in Node /\ Chain[b] = {b} \cup Chain[Prev[b]]
BY ChainDef, ConnectionAssumption, Zenon DEF Node

\* What holds of the genesis block and of a block whenever it holds of its parent, holds of
\* every block: the counterexamples would be closed under Prev
LEMMA BlockInduction ==
  ASSUME NEW S, Genesis \in S, \A b \in Block : Prev[b] \in S => b \in S
  PROVE  Node \subseteq S
<1>1. \A b \in Block \ S : Prev[b] \in Block \ S
  BY ConnectionAssumption, Zenon
<1>2. Block \ S = {}
  BY <1>1, ConnectionAssumption, Zenon
<1> QED
  BY <1>2, Zenon DEF Node

\* Chains are finite sets of blocks, and a block is one higher than its parent
LEMMA ChainBasic ==
  \A b \in Node : /\ Chain[b] \subseteq Block /\ IsFiniteSet(Chain[b])
                  /\ \A c \in Chain[b] : Chain[c] \subseteq Chain[b]
<1> DEFINE S == {b \in Node : /\ Chain[b] \subseteq Block /\ IsFiniteSet(Chain[b])
                              /\ \A c \in Chain[b] : Chain[c] \subseteq Chain[b]}
<1>1. Genesis \in S
  BY ChainStep, FS_EmptySet, Zenon DEF Node
<1>2. ASSUME NEW b \in Block, Prev[b] \in S PROVE b \in S
  <2>1. IsFiniteSet(Chain[Prev[b]] \cup {b})
    BY <1>2, FS_AddElement, Zenon
  <2>2. Chain[b] = Chain[Prev[b]] \cup {b} /\ b \in Node
    BY ChainStep, Zenon
  <2>3. Chain[b] \subseteq Block /\ \A c \in Chain[b] : Chain[c] \subseteq Chain[b]
    BY <1>2, <2>2, Zenon
  <2> QED
    BY <2>1, <2>2, <2>3, Zenon
<1> HIDE DEF S
<1>3. Node \subseteq S
  BY <1>1, <1>2, BlockInduction, Zenon
<1> QED
  BY <1>3, Zenon DEF S

\* A block is not its parent's ancestor
LEMMA ChainAcyclic == \A b \in Block : b \notin Chain[Prev[b]]
<1> SUFFICES ASSUME NEW b \in Block, b \in Chain[Prev[b]] PROVE FALSE
  BY Zenon
<1> DEFINE S == {c \in Chain[Prev[b]] : b \in Chain[c]}
<1>1. S \in SUBSET Block /\ b \in S
  BY ChainStep, ChainBasic
<1>2. ASSUME NEW c \in S PROVE Prev[c] \in S
  <2>1. c \in Block /\ Chain[c] = {c} \cup Chain[Prev[c]] /\ Prev[c] \in Node /\ Prev[b] \in Node
    BY <1>1, ChainStep, Zenon
  <2>2. b \in Chain[Prev[c]]
    BY <2>1, Zenon
  <2>3. Prev[c] # Genesis
    BY <2>2, ChainStep, Zenon
  <2>4. Prev[c] \in Chain[Prev[c]]
    BY <2>1, <2>3, ChainStep DEF Node
  <2>5. Chain[c] \subseteq Chain[Prev[b]]
    BY <2>1, ChainBasic, Zenon
  <2> QED
    BY <2>1, <2>2, <2>4, <2>5, Zenon
<1> HIDE DEF S
<1> QED
  BY <1>1, <1>2, ConnectionAssumption, Zenon

\* Heights
LEMMA Heights ==
  /\ nHeight(Genesis) = 0
  /\ \A b \in Node : nHeight(b) \in Nat
  /\ \A b \in Block : nHeight(b) = nHeight(Prev[b]) + 1
  /\ \A b \in Node : \A c \in Chain[b] : nHeight(c) <= nHeight(b) /\ nHeight(c) # 0
<1>1. nHeight(Genesis) = 0
  BY ChainStep, FS_EmptySet, Zenon DEF nHeight
<1>2. \A b \in Node : nHeight(b) \in Nat
  BY ChainBasic, FS_CardinalityType, Zenon DEF nHeight
<1>3. ASSUME NEW b \in Block PROVE nHeight(b) = nHeight(Prev[b]) + 1
  <2>1. Prev[b] \in Node /\ Chain[b] = Chain[Prev[b]] \cup {b} /\ b \notin Chain[Prev[b]]
    BY ChainStep, ChainAcyclic, Zenon
  <2> QED
    BY <2>1, ChainBasic, FS_AddElement, Zenon DEF nHeight
<1>4. ASSUME NEW b \in Node, NEW c \in Chain[b] PROVE nHeight(c) <= nHeight(b) /\ nHeight(c) # 0
  <2>1. c \in Block /\ Prev[c] \in Node /\ c \in Node /\ Chain[c] \subseteq Chain[b] /\ IsFiniteSet(Chain[b])
    BY ChainBasic, ChainStep, Zenon
  <2>2. nHeight(c) <= nHeight(b)
    BY <2>1, FS_Subset, Zenon DEF nHeight
  <2>3. nHeight(c) = nHeight(Prev[c]) + 1 /\ nHeight(Prev[c]) \in Nat
    BY <2>1, <1>2, <1>3, Zenon
  <2> QED
    BY <2>2, <2>3
<1> QED
  BY <1>1, <1>2, <1>3, <1>4, Zenon

-----------------------------------------------------------------------------
(* Single outputs: CCoins::Spend, and an input put back *)

LEMMA SpendLeft ==
  ASSUME NEW t, NEW h, NEW L, NEW n \in L
  PROVE  /\ DOMAIN Left(t, h, L).vout = L
         /\ Spend(Left(t, h, L), n) = Left(t, h, L \ {n})
<1>1. L # {} /\ (L = {n} <=> L \ {n} = {})
  BY Zenon
<1>2. Left(t, h, L).vout = [m \in L |-> TxData[t].vout[m]]
  BY <1>1, Zenon DEF Left
<1>3. CASE L = {n}
  BY <1>1, <1>2, <1>3, Zenon DEF Spend, Left
<1>4. CASE L # {n}
  <2>1. Restrict(Left(t, h, L).vout, L \ {n}) = [m \in L \ {n} |-> TxData[t].vout[m]]
    BY <1>2, Zenon DEF Restrict
  <2>2. Spend(Left(t, h, L), n) = [Left(t, h, L) EXCEPT !.vout = [m \in L \ {n} |-> TxData[t].vout[m]]]
    BY <1>2, <1>4, <2>1, Zenon DEF Spend
  <2> QED
    BY <1>1, <1>2, <1>4, <2>2, Zenon DEF Left
<1> QED
  BY <1>2, <1>3, <1>4, Zenon

\* The coins that an input is put back to
Base(c, u) ==
  IF u.nHeight # 0
  THEN [Empty EXCEPT !.fCoinBase = u.fCoinBase, !.nHeight = u.nHeight, !.nVersion = u.nVersion]
  ELSE c

LEMMA RestoreDef ==
  ASSUME NEW view, NEW out, NEW u, NEW new, out.hash \in DOMAIN view,
         new = [Base(view[out.hash], u) EXCEPT !.vout = Put(@, out.n, u.txout)],
         (u.nHeight # 0 <=> IsPruned(view[out.hash])), out.n \notin DOMAIN Base(view[out.hash], u).vout
  PROVE  RestoreInput([coins |-> view, clean |-> TRUE], out, u)
           = [coins |-> [view EXCEPT ![out.hash] = new], clean |-> TRUE]
BY Zenon DEF RestoreInput, Base

\* The undo data of an output puts back what was there.  The last output of a coinstake is
\* excepted: fCoinStake is not restored
LEMMA RestoreLeft ==
  ASSUME NEW t \in Txid, NEW h \in Nat \ {0}, NEW L, NEW n \in L, L = {n} => ~TxData[t].coinstake,
         NEW view, t \in DOMAIN view, view[t] = Left(t, h, L \ {n}), NEW out, out.hash = t, out.n = n
  PROVE  RestoreInput([coins |-> view, clean |-> TRUE], out, SpendUndo(Left(t, h, L), n))
           = [coins |-> [view EXCEPT ![t] = Left(t, h, L)], clean |-> TRUE]
<1> DEFINE c == Left(t, h, L)
           u == SpendUndo(c, n)
           base == Base(view[out.hash], u)
           val == TxData[t].vout[n]
<1>1. c = [fCoinBase |-> TxData[t].coinbase, fCoinStake |-> TxData[t].coinstake,
           vout |-> [m \in L |-> TxData[t].vout[m]], nHeight |-> h, nVersion |-> TxData[t].version]
  BY Zenon DEF Left
<1>2. DOMAIN c.vout = L /\ c.vout[n] = val
  BY <1>1
<1>3. /\ (u.nHeight # 0 <=> IsPruned(view[t])) /\ n \notin DOMAIN base.vout /\ u.txout = val
      /\ [base EXCEPT !.vout = Put(@, n, val)] = c
  <2>1. CASE L = {n}
    <3>1. u = [txout |-> val, fCoinBase |-> TxData[t].coinbase, fCoinStake |-> TxData[t].coinstake,
               nHeight |-> h, nVersion |-> TxData[t].version]
      BY <1>1, <1>2, <2>1 DEF SpendUndo
    <3>2. u.txout = val /\ u.fCoinBase = TxData[t].coinbase /\ u.nHeight = h /\ u.nVersion = TxData[t].version
      BY <3>1
    <3>3. IsPruned(view[t])
      BY <2>1 DEF Left, Empty, NoOutputs, IsPruned
    <3> HIDE DEF u
    <3>4. base = [fCoinBase |-> TxData[t].coinbase, fCoinStake |-> FALSE, vout |-> NoOutputs,
                  nHeight |-> h, nVersion |-> TxData[t].version]
      BY <3>2, Zenon DEF Empty, Base
    <3>5. TxData[t].coinstake = FALSE
      BY <2>1, TxAssumption, Zenon
    <3>6. Put(NoOutputs, n, val) = [m \in L |-> TxData[t].vout[m]]
      BY <2>1, Zenon DEF NoOutputs, Put
    <3> HIDE DEF base, c
    <3>7. [base EXCEPT !.vout = Put(@, n, val)] = c
      <4>1. base.vout = NoOutputs
        BY <3>4, Zenon
      <4>2. Put(base.vout, n, val) = [m \in L |-> TxData[t].vout[m]]
        BY <3>6, <4>1, Zenon
      <4>3. base = [fCoinBase |-> TxData[t].coinbase, fCoinStake |-> TxData[t].coinstake, vout |-> NoOutputs,
                    nHeight |-> h, nVersion |-> TxData[t].version]
        BY <3>4, <3>5, Zenon
      <4> QED
        BY <1>1, <4>2, <4>3
    <3>8. n \notin DOMAIN base.vout
      BY <3>4, Zenon DEF NoOutputs
    <3> QED
      BY <3>2, <3>3, <3>7, <3>8, Zenon
  <2>2. CASE L # {n}
    <3>1. u = [txout |-> val, fCoinBase |-> FALSE, fCoinStake |-> FALSE, nHeight |-> 0, nVersion |-> 0]
      BY <1>1, <1>2, <2>2, Zenon DEF SpendUndo
    <3>2. u.txout = val /\ u.nHeight = 0
      BY <3>1
    <3> HIDE DEF u
    <3>3. base = [fCoinBase |-> TxData[t].coinbase, fCoinStake |-> TxData[t].coinstake,
                  vout |-> [m \in L \ {n} |-> TxData[t].vout[m]], nHeight |-> h,
                  nVersion |-> TxData[t].version]
      BY <2>2, <3>2, Zenon DEF Left, Base
    <3>4. base = view[t]
      BY <3>2, Zenon DEF Base
    <3> HIDE DEF base, c
    <3>5. base.vout = [m \in L \ {n} |-> TxData[t].vout[m]]
      BY <3>3, Zenon
    <3>6. Put(base.vout, n, val) = [m \in L |-> TxData[t].vout[m]]
      BY <3>5 DEF Put
    <3>7. [base EXCEPT !.vout = Put(@, n, val)] = c
      BY <1>1, <3>3, <3>6
    <3>8. DOMAIN base.vout = L \ {n} /\ ~IsPruned(view[t])
      BY <2>2, <3>4, <3>5, Zenon DEF IsPruned
    <3> QED
      BY <3>2, <3>7, <3>8, Zenon DEF IsPruned
  <2> QED
    BY <2>1, <2>2, Zenon
<1> HIDE DEF base, u, c, val
<1>4. RestoreInput([coins |-> view, clean |-> TRUE], out, u)
        = [coins |-> [view EXCEPT ![t] = c], clean |-> TRUE]
  <2>1. /\ c = [base EXCEPT !.vout = Put(@, out.n, u.txout)] /\ out.hash \in DOMAIN view
        /\ (u.nHeight # 0 <=> IsPruned(view[out.hash])) /\ out.n \notin DOMAIN base.vout
    BY <1>3, Zenon
  <2>2. /\ c = [Base(view[out.hash], u) EXCEPT !.vout = Put(@, out.n, u.txout)]
        /\ out.n \notin DOMAIN Base(view[out.hash], u).vout
    BY <2>1, Zenon DEF base
  <2>3. RestoreInput([coins |-> view, clean |-> TRUE], out, u)
          = [coins |-> [view EXCEPT ![out.hash] = c], clean |-> TRUE]
    BY ONLY <2>1, <2>2, Zenon DEF RestoreInput, Base
  <2> QED
    BY <2>3, Zenon
<1> QED
  BY <1>4, Zenon DEF u, c

-----------------------------------------------------------------------------
(* The recursive functions have solutions *)

\* A set of natural numbers that is not empty has a least element
LEMMA Least ==
  ASSUME NEW T \in SUBSET Nat, T # {}
  PROVE  \E x \in T : \A y \in T : x <= y
<1>1. \E R : IsWellFoundedOn(R, Nat) /\ \A x, y \in Nat : <<y, x>> \in R <=> y < x
  <2>1. \A x, y \in Nat : <<y, x>> \in OpToRel(<, Nat) <=> y < x
    BY Zenon DEF OpToRel
  <2> QED
    BY <2>1, NatLessThanWellFounded, Zenon
<1>2. PICK R : IsWellFoundedOn(R, Nat) /\ \A x, y \in Nat : <<y, x>> \in R <=> y < x
  BY <1>1, Zenon
<1>3. PICK x \in T : \A y \in T : ~(<<y, x>> \in R)
  BY <1>2, WFMin, Zenon
<1>4. ASSUME NEW y \in T PROVE x <= y
  <2>1. x \in Nat /\ y \in Nat
    BY Zenon
  <2>2. ~(y < x)
    BY <2>1, <1>2, <1>3, Zenon
  <2> QED
    BY <2>1, <2>2
<1> QED
  BY <1>4, Zenon

\* Induction: a least counterexample would have a predecessor that is none
LEMMA NatInd ==
  ASSUME NEW S, 0 \in S, \A n \in Nat : n \in S => n + 1 \in S
  PROVE  Nat \subseteq S
<1> SUFFICES ASSUME Nat \ S # {} PROVE FALSE
  BY Zenon
<1>1. PICK x \in Nat \ S : \A y \in Nat \ S : x <= y
  <2>1. (Nat \ S) \in SUBSET Nat
    BY Zenon
  <2> QED
    BY <2>1, Least, Zenon
<1>2. x \in Nat /\ x # 0
  BY Zenon
<1>3. x - 1 \in Nat /\ ~(x <= x - 1) /\ (x - 1) + 1 = x
  BY <1>2
<1>4. x - 1 \in S
  BY <1>1, <1>3, Zenon
<1> QED
  BY <1>3, <1>4, Zenon

-----------------------------------------------------------------------------
(* Sums *)

Any(S) == CHOOSE x \in S : TRUE

LEMMA AnyIn == \A S : S # {} => Any(S) \in S
BY Zenon DEF Any

LEMMA Smaller ==
  ASSUME NEW D, IsFiniteSet(D), NEW S \in SUBSET D
  PROVE  Cardinality(S) \in Nat /\ (Cardinality(S) = 0 <=> S = {})
<1>1. IsFiniteSet(S)
  BY FS_Subset, Zenon
<1> QED
  BY <1>1, FS_EmptySet, FS_CardinalityType, Zenon

LEMMA OneLess ==
  ASSUME NEW D, IsFiniteSet(D), NEW S \in SUBSET D, NEW x \in S
  PROVE  /\ S \ {x} \in SUBSET D /\ Cardinality(S \ {x}) \in Nat
         /\ Cardinality(S) = Cardinality(S \ {x}) + 1
<1>1. IsFiniteSet(S)
  BY FS_Subset, Zenon
<1>2. IsFiniteSet(S \ {x}) /\ Cardinality(S \ {x}) \in Nat
  BY <1>1, FS_RemoveElement, FS_CardinalityType, Zenon
<1>3. S = (S \ {x}) \cup {x} /\ x \notin S \ {x}
  BY Zenon
<1> QED
  BY <1>2, <1>3, FS_AddElement, Zenon

\* Induction over the subsets of a finite set
LEMMA SubsetInduction ==
  ASSUME NEW D, IsFiniteSet(D), NEW Q,
         \A S \in SUBSET D : (\A x \in S : S \ {x} \in Q) => S \in Q
  PROVE  SUBSET D \subseteq Q
<1> DEFINE N == {n \in Nat : \A S \in SUBSET D : Cardinality(S) = n => S \in Q}
<1>1. 0 \in N
  <2>1. ASSUME NEW S \in SUBSET D, Cardinality(S) = 0 PROVE S \in Q
    <3>1. S = {}
      BY <2>1, Smaller, Zenon
    <3> QED
      BY <3>1, Zenon
  <2>2. 0 \in Nat
    OBVIOUS
  <2> QED
    BY <2>1, <2>2, Zenon
<1>2. ASSUME NEW n \in Nat, n \in N PROVE n + 1 \in N
  <2>1. ASSUME NEW S \in SUBSET D, Cardinality(S) = n + 1 PROVE S \in Q
    <3>1. ASSUME NEW x \in S PROVE S \ {x} \in Q
      <4>1. S \ {x} \in SUBSET D /\ Cardinality(S \ {x}) \in Nat /\ Cardinality(S) = Cardinality(S \ {x}) + 1
        BY OneLess, Zenon
      <4>2. Cardinality(S \ {x}) = n
        BY <2>1, <4>1
      <4> QED
        BY <1>2, <4>1, <4>2, Zenon
    <3> QED
      BY <3>1, Zenon
  <2>2. n + 1 \in Nat
    OBVIOUS
  <2> QED
    BY <2>1, <2>2, Zenon
<1>3. Nat \subseteq N
  <2> HIDE DEF N
  <2> QED
    BY <1>1, <1>2, NatInd, Zenon
<1>4. ASSUME NEW S \in SUBSET D PROVE S \in Q
  <2>1. Cardinality(S) \in Nat
    BY Smaller, Zenon
  <2> QED
    BY <1>3, <2>1, Zenon
<1> QED
  BY <1>4, Zenon

LEMMA SumOverDef ==
  ASSUME NEW f, IsFiniteSet(DOMAIN f)
  PROVE  \A S \in SUBSET DOMAIN f :
           SumOver(f)[S] = IF S = {} THEN 0 ELSE f[Any(S)] + SumOver(f)[S \ {Any(S)}]
<1> DEFINE D == DOMAIN f
           Eq(g, S) == g[S] = IF S = {} THEN 0 ELSE f[Any(S)] + g[S \ {Any(S)}]
           Sol(g) == g = [S \in SUBSET D |-> IF S = {} THEN 0 ELSE f[Any(S)] + g[S \ {Any(S)}]]
           Upto(g, n) == \A S \in SUBSET D : Cardinality(S) <= n => Eq(g, S)
           N == {n \in Nat : \E g : Upto(g, n)}
<1>0. ASSUME NEW S \in SUBSET D, NEW x \in S
      PROVE  /\ S \ {x} \in SUBSET D /\ Cardinality(S \ {x}) \in Nat
             /\ Cardinality(S) = Cardinality(S \ {x}) + 1
  BY OneLess, Zenon
<1>1. (\E g : Sol(g)) => Sol(SumOver(f))
  BY Zenon DEF SumOver, Any
<1>2. 0 \in N
  <2> DEFINE g == [S \in SUBSET D |-> 0]
  <2>1. ASSUME NEW S \in SUBSET D, Cardinality(S) <= 0 PROVE Eq(g, S)
    <3>1. Cardinality(S) \in Nat /\ (Cardinality(S) = 0 <=> S = {})
      BY Smaller, Zenon
    <3>2. S = {}
      BY <2>1, <3>1
    <3> QED
      BY <3>2, Zenon
  <2> QED
    BY <2>1, Zenon
<1>3. ASSUME NEW n \in Nat, n \in N PROVE n + 1 \in N
  <2>1. PICK g : Upto(g, n)
    BY <1>3, Zenon
  <2> DEFINE h == [S \in SUBSET D |-> IF Cardinality(S) = n + 1 THEN f[Any(S)] + g[S \ {Any(S)}]
                                                                ELSE g[S]]
  <2>2. ASSUME NEW S \in SUBSET D, Cardinality(S) <= n + 1 PROVE Eq(h, S)
    <3>1. /\ Cardinality(S) \in Nat /\ (Cardinality(S) = 0 <=> S = {})
          /\ S # {} => /\ S \ {Any(S)} \in SUBSET D
                       /\ Cardinality(S \ {Any(S)}) \in Nat
                       /\ Cardinality(S) = Cardinality(S \ {Any(S)}) + 1
      <4>1. ASSUME NEW x \in S
            PROVE  /\ S \ {x} \in SUBSET D /\ Cardinality(S \ {x}) \in Nat
                   /\ Cardinality(S) = Cardinality(S \ {x}) + 1
        BY <1>0, Zenon
      <4>2. Cardinality(S) \in Nat /\ (Cardinality(S) = 0 <=> S = {})
        BY Smaller, Zenon
      <4> QED
        BY <4>1, <4>2, AnyIn, Zenon
    <3>2. S # {} => h[S \ {Any(S)}] = g[S \ {Any(S)}]
      <4>1. S # {} => Cardinality(S \ {Any(S)}) # n + 1
        BY <2>2, <3>1
      <4> QED
        BY <3>1, <4>1, Zenon
    <3>3. CASE Cardinality(S) = n + 1
      <4>1. S # {}
        BY <3>1, <3>3
      <4> QED
        BY <3>2, <3>3, <4>1, Zenon
    <3>4. CASE Cardinality(S) # n + 1
      <4>1. Cardinality(S) <= n
        BY <2>2, <3>1, <3>4
      <4> QED
        BY <2>1, <3>2, <3>4, <4>1, Zenon
    <3> QED
      BY <3>3, <3>4, Zenon
  <2> HIDE DEF h
  <2>3. Upto(h, n + 1)
    BY <2>2, Zenon
  <2>4. n + 1 \in Nat
    OBVIOUS
  <2> QED
    BY <2>3, <2>4, Zenon
<1>4. PICK g : Upto(g, Cardinality(D))
  <2>1. Cardinality(D) \in Nat
    BY FS_CardinalityType, Zenon
  <2>2. Nat \subseteq N
    <3> HIDE DEF N
    <3> QED
      BY <1>2, <1>3, NatInd, Zenon
  <2> QED
    BY <2>1, <2>2, Zenon
<1>5. \A S \in SUBSET D : Eq(g, S)
  <2>1. \A S \in SUBSET D : Cardinality(S) <= Cardinality(D)
    BY FS_Subset, Zenon
  <2> QED
    BY <1>4, <2>1, Zenon
<1>6. Sol([S \in SUBSET D |-> g[S]])
  <2> DEFINE h == [S \in SUBSET D |-> g[S]]
  <2>1. ASSUME NEW S \in SUBSET D
        PROVE  h[S] = IF S = {} THEN 0 ELSE f[Any(S)] + h[S \ {Any(S)}]
    <3>1. S \ {Any(S)} \in SUBSET D
      BY Zenon
    <3> QED
      BY <1>5, <3>1, Zenon
  <2>2. h = [S \in SUBSET D |-> h[S]]
    BY Zenon
  <2> HIDE DEF h
  <2>3. Sol(h)
    BY <2>1, <2>2, Zenon
  <2> QED
    BY <2>3, Zenon DEF h
<1>7. Sol(SumOver(f))
  BY <1>1, <1>6, Zenon
<1> QED
  BY <1>7, Zenon

\* A sum does not depend on the order in which its terms are taken
LEMMA SumInsert ==
  ASSUME NEW f, IsFiniteSet(DOMAIN f), \A x \in DOMAIN f : f[x] \in Int
  PROVE  \A S \in SUBSET DOMAIN f :
           /\ SumOver(f)[S] \in Int
           /\ \A x \in DOMAIN f \ S : SumOver(f)[S \cup {x}] = SumOver(f)[S] + f[x]
<1> DEFINE D == DOMAIN f
           s(S) == SumOver(f)[S]
           Fine(S) == s(S) \in Int /\ \A x \in D \ S : s(S \cup {x}) = s(S) + f[x]
           Q == {S \in SUBSET D : Fine(S)}
<1>1. \A S \in SUBSET D : s(S) = IF S = {} THEN 0 ELSE f[Any(S)] + s(S \ {Any(S)})
  BY SumOverDef, Zenon
<1> HIDE DEF s
<1>2. ASSUME NEW S \in SUBSET D, \A c \in S : S \ {c} \in Q
      PROVE  s(S) \in Int
  <2>1. CASE S = {}
    <3>1. s(S) = 0
      BY <1>1, <2>1, Zenon
    <3> QED
      BY <3>1
  <2>2. CASE S # {}
    <3>1. s(S) = f[Any(S)] + s(S \ {Any(S)}) /\ f[Any(S)] \in Int /\ s(S \ {Any(S)}) \in Int
      BY <1>1, <1>2, <2>2, AnyIn, Zenon
    <3> QED
      BY <3>1
  <2> QED
    BY <2>1, <2>2, Zenon
<1>3. ASSUME NEW S \in SUBSET D, s(S) \in Int, NEW x \in D \ S,
             \A c \in S : S \ {c} \in Q
      PROVE  s(S \cup {x}) = s(S) + f[x]
  <2> DEFINE T == S \cup {x}
             c == Any(T)
  <2>1. T \in SUBSET D /\ T # {} /\ c \in T
    BY AnyIn, Zenon
  <2>2. s(T) = f[c] + s(T \ {c}) /\ f[c] \in Int /\ f[x] \in Int
    BY <1>1, <2>1, Zenon
  <2>3. CASE c = x
    <3>1. T \ {c} = S
      BY <2>3, Zenon
    <3> HIDE DEF T, c
    <3>2. s(T) = f[x] + s(S)
      BY <2>2, <2>3, <3>1, Zenon
    <3>3. s(T) = s(S) + f[x]
      BY <1>3, <2>2, <3>2
    <3> QED
      BY <3>3, Zenon DEF T
  <2>4. CASE c # x
    <3>1. c \in S
      BY <2>1, <2>4, Zenon
    <3>2. T \ {c} = (S \ {c}) \cup {x} /\ S = (S \ {c}) \cup {c}
      BY <2>4, <3>1, Zenon
    <3>3. x \in D \ (S \ {c}) /\ c \in D \ (S \ {c})
      BY <2>1, Zenon
    <3> HIDE DEF T, c
    <3>4. /\ s(S \ {c}) \in Int
          /\ s((S \ {c}) \cup {x}) = s(S \ {c}) + f[x]
          /\ s((S \ {c}) \cup {c}) = s(S \ {c}) + f[c]
      BY <1>3, <3>1, <3>3, Zenon
    <3>5. /\ s(T) = f[c] + (s(S \ {c}) + f[x])
          /\ s(S) = s(S \ {c}) + f[c]
      BY <2>2, <3>2, <3>4, Zenon
    <3>6. s(T) = s(S) + f[x]
      <4> DEFINE m == s(S \ {c})
      <4> HIDE DEF m
      <4>1. s(T) = f[c] + (m + f[x]) /\ s(S) = m + f[c] /\ m \in Int
        BY <3>4, <3>5, Zenon DEF m
      <4> QED
        BY <2>2, <4>1
    <3> QED
      BY <3>6, Zenon DEF T
  <2> QED
    BY <2>3, <2>4, Zenon
<1>4. ASSUME NEW S \in SUBSET D, \A c \in S : S \ {c} \in Q PROVE S \in Q
  BY <1>2, <1>3, <1>4, Zenon
<1>5. SUBSET D \subseteq Q
  <2>1. IsFiniteSet(D)
    BY Zenon
  <2> HIDE DEF Q, D
  <2> QED
    BY ONLY <1>4, <2>1, SubsetInduction, Zenon
<1> QED
  BY <1>5, Zenon DEF s

\* Equal terms have equal sums
LEMMA SumSame ==
  ASSUME NEW f, NEW g, IsFiniteSet(DOMAIN f), IsFiniteSet(DOMAIN g),
         NEW D \in SUBSET (DOMAIN f \cap DOMAIN g), \A x \in D : f[x] = g[x]
  PROVE  SumOver(f)[D] = SumOver(g)[D]
<1> DEFINE Q == {S \in SUBSET D : SumOver(f)[S] = SumOver(g)[S]}
<1>1. /\ \A S \in SUBSET D : SumOver(f)[S] = IF S = {} THEN 0 ELSE f[Any(S)] + SumOver(f)[S \ {Any(S)}]
      /\ \A S \in SUBSET D : SumOver(g)[S] = IF S = {} THEN 0 ELSE g[Any(S)] + SumOver(g)[S \ {Any(S)}]
  <2>1. SUBSET D \subseteq SUBSET DOMAIN f /\ SUBSET D \subseteq SUBSET DOMAIN g
    BY Zenon
  <2>2. \A S \in SUBSET DOMAIN f : SumOver(f)[S] = IF S = {} THEN 0 ELSE f[Any(S)] + SumOver(f)[S \ {Any(S)}]
    BY SumOverDef, Zenon
  <2>3. \A S \in SUBSET DOMAIN g : SumOver(g)[S] = IF S = {} THEN 0 ELSE g[Any(S)] + SumOver(g)[S \ {Any(S)}]
    BY SumOverDef, Zenon
  <2> QED
    BY <2>1, <2>2, <2>3, Zenon
<1>2. ASSUME NEW S \in SUBSET D, \A x \in S : S \ {x} \in Q PROVE S \in Q
  <2>1. CASE S = {}
    BY <1>1, <2>1, Zenon
  <2>2. CASE S # {}
    BY <1>1, <1>2, <2>2, AnyIn, Zenon
  <2> QED
    BY <2>1, <2>2, Zenon
<1>3. IsFiniteSet(D)
  <2>1. D \subseteq DOMAIN f
    BY Zenon
  <2> QED
    BY <2>1, FS_Subset, Zenon
<1>4. SUBSET D \subseteq Q
  <2> HIDE DEF Q
  <2> QED
    BY <1>2, <1>3, SubsetInduction, Zenon
<1> QED
  BY <1>4, Zenon

\* A function to the integers with a finite domain
Summable(f) == IsFiniteSet(DOMAIN f) /\ \A x \in DOMAIN f : f[x] \in Int

LEMMA TotalType == \A f : Summable(f) => Total(f) \in Int
<1> SUFFICES ASSUME NEW f, Summable(f) PROVE SumOver(f)[DOMAIN f] \in Int
  BY Zenon DEF Total
<1> QED
  BY SumInsert, Zenon DEF Summable

LEMMA TotalInsert ==
  ASSUME NEW f, NEW g, Summable(f), NEW x, x \notin DOMAIN f, DOMAIN g = DOMAIN f \cup {x},
         \A y \in DOMAIN f : g[y] = f[y], g[x] \in Int
  PROVE  Summable(g) /\ Total(f) \in Int /\ Total(g) = Total(f) + g[x]
<1>1. Summable(g)
  BY FS_AddElement, Zenon DEF Summable
<1>2. SumOver(g)[DOMAIN f \cup {x}] = SumOver(g)[DOMAIN f] + g[x]
  <2>1. \A S \in SUBSET DOMAIN g : \A y \in DOMAIN g \ S : SumOver(g)[S \cup {y}] = SumOver(g)[S] + g[y]
    BY <1>1, SumInsert, Zenon DEF Summable
  <2>2. DOMAIN f \in SUBSET DOMAIN g /\ x \in DOMAIN g \ DOMAIN f
    BY Zenon
  <2> QED
    BY <2>1, <2>2, Zenon
<1>3. SumOver(g)[DOMAIN f] = SumOver(f)[DOMAIN f]
  <2>1. DOMAIN f \in SUBSET (DOMAIN g \cap DOMAIN f)
    BY Zenon
  <2> QED
    BY <1>1, <2>1, SumSame, Zenon DEF Summable
<1> QED
  BY <1>1, <1>2, <1>3, TotalType, Zenon DEF Total

LEMMA TotalEmpty == \A f : DOMAIN f = {} => Summable(f) /\ Total(f) = 0
<1> SUFFICES ASSUME NEW f, DOMAIN f = {} PROVE Summable(f) /\ Total(f) = 0
  BY Zenon
<1>1. IsFiniteSet(DOMAIN f)
  BY FS_EmptySet, Zenon
<1> QED
  BY <1>1, SumOverDef, Zenon DEF Total, Summable

\* One term of a sum changes
LEMMA TotalChange ==
  ASSUME NEW f, NEW g, Summable(f), DOMAIN g = DOMAIN f, NEW x \in DOMAIN f,
         \A y \in DOMAIN f \ {x} : g[y] = f[y], g[x] \in Int
  PROVE  Summable(g) /\ Total(f) \in Int /\ f[x] \in Int /\ Total(g) = Total(f) - f[x] + g[x]
<1>1. PICK r : r = [y \in DOMAIN f \ {x} |-> f[y]]
  BY Zenon
<1>2. DOMAIN r = DOMAIN f \ {x} /\ (\A y \in DOMAIN r : f[y] = r[y]) /\ (\A y \in DOMAIN r : g[y] = r[y])
  BY <1>1, Zenon
<1>3. Summable(r)
  BY <1>2, FS_Subset, Zenon DEF Summable
<1>4. x \notin DOMAIN r /\ DOMAIN f = DOMAIN r \cup {x} /\ DOMAIN g = DOMAIN r \cup {x}
  BY <1>2, Zenon
<1>5. f[x] \in Int
  BY Zenon DEF Summable
<1>6. Total(f) = Total(r) + f[x] /\ Total(r) \in Int
  BY ONLY <1>2, <1>3, <1>4, <1>5, TotalInsert, Zenon
<1>7. Total(g) = Total(r) + g[x] /\ Summable(g)
  BY ONLY <1>2, <1>3, <1>4, g[x] \in Int, TotalInsert, Zenon
<1>8. Total(f) \in Int
  BY TotalType, Zenon
<1>9. Total(g) = Total(f) - f[x] + g[x]
  BY <1>5, <1>6, <1>7
<1> QED
  BY <1>5, <1>7, <1>8, <1>9, Zenon

LEMMA TotalZero ==
  ASSUME NEW f, IsFiniteSet(DOMAIN f), \A x \in DOMAIN f : f[x] = 0
  PROVE  Total(f) = 0
<1> DEFINE D == DOMAIN f
           Q == {S \in SUBSET D : SumOver(f)[S] = 0}
<1>1. ASSUME NEW S \in SUBSET D, \A x \in S : S \ {x} \in Q PROVE S \in Q
  <2>1. SumOver(f)[S] = IF S = {} THEN 0 ELSE f[Any(S)] + SumOver(f)[S \ {Any(S)}]
    BY SumOverDef, Zenon
  <2>2. CASE S = {}
    BY <2>1, <2>2, Zenon
  <2>3. CASE S # {}
    <3>1. SumOver(f)[S] = 0 + 0
      BY <1>1, <2>1, <2>3, AnyIn, Zenon
    <3>2. SumOver(f)[S] = 0
      BY <3>1
    <3> QED
      BY <3>2, Zenon
  <2> QED
    BY <2>2, <2>3, Zenon
<1>2. SUBSET D \subseteq Q
  <2>1. IsFiniteSet(D) /\ \A S \in SUBSET D : (\A x \in S : S \ {x} \in Q) => S \in Q
    BY <1>1, Zenon
  <2> HIDE DEF D, Q
  <2> QED
    BY ONLY <2>1, SubsetInduction, Zenon
<1> QED
  BY <1>2, Zenon DEF Total

-----------------------------------------------------------------------------
\* UpdateCoins, input by input
LEMMA AfterInputsDef ==
  ASSUME NEW view, NEW t, Len(Inputs(t)) \in Nat
  PROVE  AfterInputs(view, t)
           = [j \in 0..Len(Inputs(t)) |->
                IF j = 0 THEN view
                ELSE [AfterInputs(view, t)[j - 1] EXCEPT ![Inputs(t)[j].hash] = Spend(@, Inputs(t)[j].n)]]
<1> DEFINE Step(a, j) == [a EXCEPT ![Inputs(t)[j].hash] = Spend(@, Inputs(t)[j].n)]
           Sol(f, n) == f = [j \in 0..n |-> IF j = 0 THEN view ELSE Step(f[j - 1], j)]
           S == {n \in Nat : \E f : Sol(f, n)}
<1>1. Len(Inputs(t)) \in S =>
        AfterInputs(view, t)
          = [j \in 0..Len(Inputs(t)) |-> IF j = 0 THEN view ELSE Step(AfterInputs(view, t)[j - 1], j)]
  BY Zenon DEF AfterInputs
<1> HIDE DEF Step
<1>2. 0 \in S
  <2>1. Sol([j \in 0..0 |-> view], 0)
    OBVIOUS
  <2> QED
    BY <2>1, Zenon
<1>3. ASSUME NEW n \in Nat, n \in S PROVE n + 1 \in S
  <2>1. PICK f : Sol(f, n)
    BY <1>3, Zenon
  <2> DEFINE g == [j \in 0..(n + 1) |-> IF j = n + 1 THEN Step(f[n], n + 1) ELSE f[j]]
  <2>2. \A j \in 0..n : f[j] = IF j = 0 THEN view ELSE Step(f[j - 1], j)
    BY <2>1, Zenon
  <2>3. ASSUME NEW j \in 0..(n + 1) PROVE g[j] = IF j = 0 THEN view ELSE Step(g[j - 1], j)
    <3>1. j = n + 1 \/ j \in 0..n
      OBVIOUS
    <3>2. CASE j = 0
      BY <2>2, <3>2
    <3>3. CASE j = n + 1
      <4>1. j - 1 = n /\ j # 0 /\ n \in 0..(n + 1) /\ n # n + 1
        BY <3>3
      <4> QED
        BY <3>3, <4>1, Zenon
    <3>4. CASE j \in 0..n /\ j # 0
      <4>1. j - 1 \in 0..(n + 1) /\ j - 1 # n + 1 /\ j # n + 1
        BY <3>4
      <4> QED
        BY <2>2, <3>4, <4>1, Zenon
    <3> QED
      BY <3>1, <3>2, <3>3, <3>4, Zenon
  <2>4. g = [j \in 0..(n + 1) |-> g[j]]
    BY Zenon
  <2> HIDE DEF g
  <2>5. Sol(g, n + 1)
    BY <2>3, <2>4, Zenon
  <2> QED
    BY <2>5
<1> HIDE DEF S
<1>4. Len(Inputs(t)) \in S
  BY <1>2, <1>3, NatInd, Zenon
<1> QED
  BY <1>1, <1>4, Zenon DEF Step

\* ConnectBlock, transaction by transaction
LEMMA AfterTxsDef ==
  ASSUME NEW view, NEW txs, NEW h, Len(txs) \in Nat
  PROVE  AfterTxs(view, txs, h)
           = [j \in 0..Len(txs) |->
                IF j = 0 THEN view ELSE UpdateCoins(AfterTxs(view, txs, h)[j - 1], txs[j], h)]
<1> DEFINE Step(a, j) == UpdateCoins(a, txs[j], h)
           Sol(f, n) == f = [j \in 0..n |-> IF j = 0 THEN view ELSE Step(f[j - 1], j)]
           S == {n \in Nat : \E f : Sol(f, n)}
<1>1. Len(txs) \in S =>
        AfterTxs(view, txs, h)
          = [j \in 0..Len(txs) |-> IF j = 0 THEN view ELSE Step(AfterTxs(view, txs, h)[j - 1], j)]
  BY Zenon DEF AfterTxs
<1> HIDE DEF Step
<1>2. 0 \in S
  <2>1. Sol([j \in 0..0 |-> view], 0)
    OBVIOUS
  <2> QED
    BY <2>1, Zenon
<1>3. ASSUME NEW n \in Nat, n \in S PROVE n + 1 \in S
  <2>1. PICK f : Sol(f, n)
    BY <1>3, Zenon
  <2> DEFINE g == [j \in 0..(n + 1) |-> IF j = n + 1 THEN Step(f[n], n + 1) ELSE f[j]]
  <2>2. \A j \in 0..n : f[j] = IF j = 0 THEN view ELSE Step(f[j - 1], j)
    BY <2>1, Zenon
  <2>3. ASSUME NEW j \in 0..(n + 1) PROVE g[j] = IF j = 0 THEN view ELSE Step(g[j - 1], j)
    <3>1. j = n + 1 \/ j \in 0..n
      OBVIOUS
    <3>2. CASE j = 0
      BY <2>2, <3>2
    <3>3. CASE j = n + 1
      <4>1. j - 1 = n /\ j # 0 /\ n \in 0..(n + 1) /\ n # n + 1
        BY <3>3
      <4> QED
        BY <3>3, <4>1, Zenon
    <3>4. CASE j \in 0..n /\ j # 0
      <4>1. j - 1 \in 0..(n + 1) /\ j - 1 # n + 1 /\ j # n + 1
        BY <3>4
      <4> QED
        BY <2>2, <3>4, <4>1, Zenon
    <3> QED
      BY <3>1, <3>2, <3>3, <3>4, Zenon
  <2>4. g = [j \in 0..(n + 1) |-> g[j]]
    BY Zenon
  <2> HIDE DEF g
  <2>5. Sol(g, n + 1)
    BY <2>3, <2>4, Zenon
  <2> QED
    BY <2>5
<1> HIDE DEF S
<1>4. Len(txs) \in S
  BY <1>2, <1>3, NatInd, Zenon
<1> QED
  BY <1>1, <1>4, Zenon DEF Step

\* DisconnectBlock, input by input
LEMMA BeforeInputsDef ==
  ASSUME NEW acc, NEW t, NEW h, NEW undo, Len(Inputs(t)) \in Nat
  PROVE  BeforeInputs(acc, t, h, undo)
           = [j \in 0..Len(Inputs(t)) |->
                IF j = Len(Inputs(t))
                THEN [coins |-> [acc.coins EXCEPT ![t] = Empty],
                      clean |-> acc.clean /\ acc.coins[t] = FromTx(t, h)]
                ELSE RestoreInput(BeforeInputs(acc, t, h, undo)[j + 1], Inputs(t)[j + 1], undo[j + 1])]
<1> DEFINE N == Len(Inputs(t))
           Step(a, j) == RestoreInput(a, Inputs(t)[j + 1], undo[j + 1])
           start == [coins |-> [acc.coins EXCEPT ![t] = Empty],
                     clean |-> acc.clean /\ acc.coins[t] = FromTx(t, h)]
           Sol(f, m) == f = [j \in (N - m)..N |-> IF j = N THEN start ELSE Step(f[j + 1], j)]
           S == {m \in Nat : \E f : Sol(f, m)}
<1>1. (\E f : f = [j \in 0..N |-> IF j = N THEN start ELSE Step(f[j + 1], j)])
        => BeforeInputs(acc, t, h, undo)
             = [j \in 0..Len(Inputs(t)) |->
                  IF j = Len(Inputs(t)) THEN start ELSE Step(BeforeInputs(acc, t, h, undo)[j + 1], j)]
  BY Zenon DEF BeforeInputs
<1>0. N \in Nat
  BY Zenon
<1> HIDE DEF Step, start, N
<1>2. 0 \in S
  <2>1. Sol([j \in N..N |-> start], 0)
    BY <1>0
  <2> QED
    BY <2>1, Zenon
<1>3. ASSUME NEW n \in Nat, n \in S PROVE n + 1 \in S
  <2>1. PICK f : Sol(f, n)
    BY <1>3, Zenon
  <2> DEFINE k == N - (n + 1)
             g == [j \in k..N |-> IF j = k THEN Step(f[k + 1], k) ELSE f[j]]
  <2>2. \A j \in (k + 1)..N : f[j] = IF j = N THEN start ELSE Step(f[j + 1], j)
    <3>1. k + 1 = N - n
      BY <1>0
    <3> QED
      BY <2>1, <3>1, Zenon
  <2>0. k \in Int /\ k < N
    BY <1>0
  <2> HIDE DEF k
  <2>3. ASSUME NEW j \in k..N PROVE g[j] = IF j = N THEN start ELSE Step(g[j + 1], j)
    <3>1. CASE j = k
      <4>1. k + 1 \in k..N /\ k + 1 # k /\ k # N
        BY <1>0, <2>0
      <4>2. g[k + 1] = f[k + 1] /\ g[k] = Step(f[k + 1], k)
        BY <4>1, <1>0, <2>0
      <4> QED
        BY <3>1, <4>1, <4>2, Zenon
    <3>2. CASE j # k /\ j = N
      <4>1. j \in (k + 1)..N
        BY <3>2, <1>0, <2>0
      <4> QED
        BY <2>2, <3>2, <4>1, Zenon
    <3>3. CASE j # k /\ j # N
      <4>1. j \in (k + 1)..N /\ j + 1 \in k..N /\ j + 1 # k
        BY <3>3, <1>0, <2>0
      <4>2. g[j + 1] = f[j + 1] /\ g[j] = f[j]
        BY <3>3, <4>1, Zenon
      <4> QED
        BY <2>2, <3>3, <4>1, <4>2, Zenon
    <3> QED
      BY <3>1, <3>2, <3>3, Zenon
  <2>4. g = [j \in k..N |-> g[j]]
    BY Zenon
  <2> HIDE DEF g
  <2>5. Sol(g, n + 1)
    BY <2>3, <2>4, Zenon DEF k
  <2> HIDE DEF Sol
  <2> QED
    BY <2>5
<1>4. N \in S
  <2> HIDE DEF S
  <2> QED
    BY <1>0, <1>2, <1>3, NatInd, Zenon
<1>5. \E f : f = [j \in 0..N |-> IF j = N THEN start ELSE Step(f[j + 1], j)]
  <2>1. N - N = 0
    BY <1>0
  <2> QED
    BY <1>4, <2>1, Zenon
<1> QED
  BY <1>1, <1>5, Zenon DEF Step, N, start

\* DisconnectBlock, transaction by transaction
LEMMA BeforeTxsDef ==
  ASSUME NEW view, NEW txs, NEW h, NEW undo, Len(txs) \in Nat
  PROVE  BeforeTxs(view, txs, h, undo)
           = [j \in 0..Len(txs) |->
                IF j = Len(txs) THEN [coins |-> view, clean |-> TRUE]
                ELSE BeforeInputs(BeforeTxs(view, txs, h, undo)[j + 1], txs[j + 1], h, undo[j])[0]]
<1> DEFINE N == Len(txs)
           Step(a, j) == BeforeInputs(a, txs[j + 1], h, undo[j])[0]
           start == [coins |-> view, clean |-> TRUE]
           Sol(f, m) == f = [j \in (N - m)..N |-> IF j = N THEN start ELSE Step(f[j + 1], j)]
           S == {m \in Nat : \E f : Sol(f, m)}
<1>1. (\E f : f = [j \in 0..N |-> IF j = N THEN start ELSE Step(f[j + 1], j)])
        => BeforeTxs(view, txs, h, undo)
             = [j \in 0..Len(txs) |->
                  IF j = Len(txs) THEN start ELSE Step(BeforeTxs(view, txs, h, undo)[j + 1], j)]
  BY Zenon DEF BeforeTxs
<1>0. N \in Nat
  BY Zenon
<1> HIDE DEF Step, start, N
<1>2. 0 \in S
  <2>1. Sol([j \in N..N |-> start], 0)
    BY <1>0
  <2> QED
    BY <2>1, Zenon
<1>3. ASSUME NEW n \in Nat, n \in S PROVE n + 1 \in S
  <2>1. PICK f : Sol(f, n)
    BY <1>3, Zenon
  <2> DEFINE k == N - (n + 1)
             g == [j \in k..N |-> IF j = k THEN Step(f[k + 1], k) ELSE f[j]]
  <2>2. \A j \in (k + 1)..N : f[j] = IF j = N THEN start ELSE Step(f[j + 1], j)
    <3>1. k + 1 = N - n
      BY <1>0
    <3> QED
      BY <2>1, <3>1, Zenon
  <2>0. k \in Int /\ k < N
    BY <1>0
  <2> HIDE DEF k
  <2>3. ASSUME NEW j \in k..N PROVE g[j] = IF j = N THEN start ELSE Step(g[j + 1], j)
    <3>1. CASE j = k
      <4>1. k + 1 \in k..N /\ k + 1 # k /\ k # N
        BY <1>0, <2>0
      <4>2. g[k + 1] = f[k + 1] /\ g[k] = Step(f[k + 1], k)
        BY <4>1, <1>0, <2>0
      <4> QED
        BY <3>1, <4>1, <4>2, Zenon
    <3>2. CASE j # k /\ j = N
      <4>1. j \in (k + 1)..N
        BY <3>2, <1>0, <2>0
      <4> QED
        BY <2>2, <3>2, <4>1, Zenon
    <3>3. CASE j # k /\ j # N
      <4>1. j \in (k + 1)..N /\ j + 1 \in k..N /\ j + 1 # k
        BY <3>3, <1>0, <2>0
      <4>2. g[j + 1] = f[j + 1] /\ g[j] = f[j]
        BY <3>3, <4>1, Zenon
      <4> QED
        BY <2>2, <3>3, <4>1, <4>2, Zenon
    <3> QED
      BY <3>1, <3>2, <3>3, Zenon
  <2>4. g = [j \in k..N |-> g[j]]
    BY Zenon
  <2> HIDE DEF g
  <2>5. Sol(g, n + 1)
    BY <2>3, <2>4, Zenon DEF k
  <2> HIDE DEF Sol
  <2> QED
    BY <2>5
<1>4. N \in S
  <2> HIDE DEF S
  <2> QED
    BY <1>0, <1>2, <1>3, NatInd, Zenon
<1>5. \E f : f = [j \in 0..N |-> IF j = N THEN start ELSE Step(f[j + 1], j)]
  <2>1. N - N = 0
    BY <1>0
  <2> QED
    BY <1>4, <2>1, Zenon
<1> QED
  BY <1>1, <1>5, Zenon DEF Step, N, start

-----------------------------------------------------------------------------
(* Single transactions: UpdateCoins, and a transaction taken off *)

LEMMA InputsFacts ==
  ASSUME NEW t \in Txid
  PROVE  /\ Len(Inputs(t)) \in Nat /\ DOMAIN Inputs(t) = 1..Len(Inputs(t))
         /\ \A j \in 1..Len(Inputs(t)) : Inputs(t)[j] \in [hash : Txid, n : Nat]
         /\ \A i, j \in 1..Len(Inputs(t)) : Inputs(t)[i] = Inputs(t)[j] => i = j
         /\ HasInputs(t) => 1 \in 1..Len(Inputs(t)) /\ Inputs(t) = TxData[t].vin
         /\ ~HasInputs(t) => Len(Inputs(t)) = 0
<1>1. CASE HasInputs(t)
  <2>1. Inputs(t) = TxData[t].vin
    BY <1>1, Zenon DEF Inputs
  <2>2. /\ TxData[t].vin \in Seq([hash : Txid, n : Nat]) /\ TxData[t].vin # <<>>
        /\ \A i, j \in DOMAIN TxData[t].vin : TxData[t].vin[i] = TxData[t].vin[j] => i = j
    BY <1>1, TxAssumption, Zenon DEF HasInputs
  <2> HIDE DEF Inputs
  <2>3. Inputs(t) \in Seq([hash : Txid, n : Nat]) /\ Inputs(t) # <<>>
    BY <2>1, <2>2, Zenon
  <2>4. Len(Inputs(t)) \in Nat /\ DOMAIN Inputs(t) = 1..Len(Inputs(t)) /\ Len(Inputs(t)) # 0
    BY <2>3
  <2>5. \A j \in 1..Len(Inputs(t)) : Inputs(t)[j] \in [hash : Txid, n : Nat]
    <3> DEFINE O == [hash : Txid, n : Nat]
    <3>1. Inputs(t) \in Seq(O)
      BY <2>3, Zenon
    <3> HIDE DEF O
    <3>2. \A j \in 1..Len(Inputs(t)) : Inputs(t)[j] \in O
      BY <3>1
    <3> QED
      BY <3>2, Zenon DEF O
  <2>6. \A i, j \in 1..Len(Inputs(t)) : Inputs(t)[i] = Inputs(t)[j] => i = j
    BY <2>1, <2>2, <2>4, Zenon
  <2> QED
    BY <1>1, <2>1, <2>4, <2>5, <2>6
<1>2. CASE ~HasInputs(t)
  BY <1>2 DEF Inputs
<1> QED
  BY <1>1, <1>2, Zenon

\* The inputs of t are unspent outputs of S
There(S, t) ==
  \A j \in 1..Len(Inputs(t)) : Inputs(t)[j].hash \in S /\ Inputs(t)[j].n \in Unspent(S, Inputs(t)[j].hash)

\* The outputs of x left when the first j inputs of t have been spent too
Rest(S, t, j, x) == {n \in Unspent(S, x) : \A k \in 1..j : Inputs(t)[k] # [hash |-> x, n |-> n]}

Mid(S, ht, t, j) == [x \in Txid |-> IF x \in S THEN Left(x, ht[x], Rest(S, t, j, x)) ELSE Empty]

LEMMA LeftDomain == \A t, h, L : DOMAIN Left(t, h, L).vout = L
BY Zenon DEF Left, Empty, NoOutputs

LEMMA EmptyDomain == DOMAIN Empty.vout = {}
BY Zenon DEF Empty, NoOutputs

LEMMA InputsThere ==
  ASSUME NEW S, NEW ht, NEW t \in Txid, NEW h, InputsOK(View(S, ht), t, h)
  PROVE  There(S, t)
<1> SUFFICES ASSUME NEW j \in 1..Len(Inputs(t))
             PROVE  Inputs(t)[j].hash \in S /\ Inputs(t)[j].n \in Unspent(S, Inputs(t)[j].hash)
  BY Zenon DEF There
<1> DEFINE out == Inputs(t)[j]
           view == View(S, ht)
<1>1. HasInputs(t) /\ Inputs(t) = TxData[t].vin /\ j \in DOMAIN TxData[t].vin /\ out.hash \in Txid
  BY InputsFacts
<1>2. out.n \in DOMAIN view[out.hash].vout
  BY <1>1, Zenon DEF InputsOK
<1>3. view[out.hash] = IF out.hash \in S THEN Left(out.hash, ht[out.hash], Unspent(S, out.hash)) ELSE Empty
  BY <1>1, Zenon DEF View
<1> HIDE DEF out, view
<1>4. out.hash \in S /\ out.n \in Unspent(S, out.hash)
  BY <1>2, <1>3, LeftDomain, EmptyDomain
<1> QED
  BY <1>4, Zenon DEF out

\* Input j of t spends out, which the first i inputs leave, and nothing else
Takes(S, t, i, j, out) ==
  /\ out \in [hash : Txid, n : Nat] /\ out.hash \in S /\ out.hash \in Txid
  /\ out.n \in Rest(S, t, i, out.hash)
  /\ Rest(S, t, j, out.hash) = Rest(S, t, i, out.hash) \ {out.n}
  /\ \A x : x # out.hash => Rest(S, t, j, x) = Rest(S, t, i, x)

LEMMA RestStep ==
  ASSUME NEW S, NEW t \in Txid, There(S, t), NEW i \in Nat, i + 1 \in 1..Len(Inputs(t))
  PROVE  Takes(S, t, i, i + 1, Inputs(t)[i + 1])
<1>0. PICK j \in 1..Len(Inputs(t)) : j = i + 1
  BY Zenon
<1>o. PICK out : out = Inputs(t)[j]
  BY Zenon
<1>1. /\ out \in [hash : Txid, n : Nat] /\ out.hash \in S /\ out.hash \in Txid
      /\ out.n \in Unspent(S, out.hash)
  BY <1>o, InputsFacts, Zenon DEF There
<1>2. out = [hash |-> out.hash, n |-> out.n]
  BY <1>1, Zenon
<1>3. \A k \in 1..i : Inputs(t)[k] # out
  <2> SUFFICES ASSUME NEW k \in 1..i PROVE Inputs(t)[k] # out
    BY Zenon
  <2>1. k \in 1..Len(Inputs(t)) /\ k # j
    BY <1>0, InputsFacts
  <2> QED
    BY <2>1, <1>o, InputsFacts, Zenon
<1>4. 1..j = (1..i) \cup {j}
  BY <1>0, InputsFacts
<1>5. \A x, n : out = [hash |-> x, n |-> n] <=> out.hash = x /\ out.n = n
  BY <1>2
<1>6. \A x : Rest(S, t, j, x) = {n \in Rest(S, t, i, x) : out # [hash |-> x, n |-> n]}
  BY <1>4, <1>o, Zenon DEF Rest
<1>7. out.n \in Rest(S, t, i, out.hash)
  BY <1>1, <1>2, <1>3, Zenon DEF Rest
<1>8. Rest(S, t, j, out.hash) = Rest(S, t, i, out.hash) \ {out.n}
  BY <1>5, <1>6
<1>9. \A x : x # out.hash => Rest(S, t, j, x) = Rest(S, t, i, x)
  BY <1>5, <1>6, Zenon
<1> QED
  BY <1>0, <1>o, <1>1, <1>7, <1>8, <1>9, Zenon DEF Takes

\* The first j inputs spent
LEMMA InputsSpent ==
  ASSUME NEW S \in SUBSET Txid, NEW ht, NEW t \in Txid, There(S, t)
  PROVE  \A j \in 0..Len(Inputs(t)) : AfterInputs(View(S, ht), t)[j] = Mid(S, ht, t, j)
<1> DEFINE A == AfterInputs(View(S, ht), t)
           N == Len(Inputs(t))
           T == {j \in Nat : j \in 0..N => A[j] = Mid(S, ht, t, j)}
<1>0. N \in Nat
  BY InputsFacts, Zenon
<1>1. \A j \in 0..N : A[j] = IF j = 0 THEN View(S, ht)
                             ELSE [A[j - 1] EXCEPT ![Inputs(t)[j].hash] = Spend(@, Inputs(t)[j].n)]
  BY <1>0, AfterInputsDef
<1> HIDE DEF A
<1>2. 0 \in T
  <2>1. \A x : Rest(S, t, 0, x) = Unspent(S, x)
    BY DEF Rest
  <2>2. View(S, ht) = Mid(S, ht, t, 0)
    BY <2>1, Zenon DEF View, Mid
  <2> QED
    BY <1>0, <1>1, <2>2, Zenon
<1>3. ASSUME NEW i \in Nat, i \in T PROVE i + 1 \in T
  <2> SUFFICES ASSUME i + 1 \in 0..N PROVE A[i + 1] = Mid(S, ht, t, i + 1)
    OBVIOUS
  <2> DEFINE out == Inputs(t)[i + 1]
  <2>1. i \in 0..N /\ i + 1 \in 1..N /\ (i + 1) - 1 = i /\ i + 1 # 0
    BY <1>0
  <2>2. A[i] = Mid(S, ht, t, i)
    BY <1>3, <2>1, Zenon
  <2>3. A[i + 1] = [Mid(S, ht, t, i) EXCEPT ![out.hash] = Spend(@, out.n)]
    BY <1>1, <2>1, <2>2, Zenon
  <2>4. /\ out.hash \in S /\ out.hash \in Txid /\ out.n \in Rest(S, t, i, out.hash)
        /\ Rest(S, t, i + 1, out.hash) = Rest(S, t, i, out.hash) \ {out.n}
        /\ \A x : x # out.hash => Rest(S, t, i + 1, x) = Rest(S, t, i, x)
    <3>1. Takes(S, t, i, i + 1, out)
      BY <2>1, RestStep, Zenon
    <3> QED
      BY <3>1, Zenon DEF Takes
  <2> HIDE DEF out
  <2>5. Mid(S, ht, t, i)[out.hash] = Left(out.hash, ht[out.hash], Rest(S, t, i, out.hash))
    BY <2>4, Zenon DEF Mid
  <2>6. Spend(Mid(S, ht, t, i)[out.hash], out.n) = Left(out.hash, ht[out.hash], Rest(S, t, i + 1, out.hash))
    BY <2>4, <2>5, SpendLeft
  <2> QED
    BY <2>3, <2>4, <2>6, Zenon DEF Mid
<1> HIDE DEF T
<1>4. Nat \subseteq T
  BY <1>2, <1>3, NatInd, Zenon
<1>5. \A j \in 0..N : j \in Nat
  BY <1>0
<1> QED
  BY <1>4, <1>5, Zenon DEF T, A

\* FromTx leaves all outputs
LEMMA FromTxLeft ==
  ASSUME NEW t \in Txid, NEW h
  PROVE  FromTx(t, h) = Left(t, h, DOMAIN TxData[t].vout)
<1>1. TxData[t].vout = [n \in DOMAIN TxData[t].vout |-> TxData[t].vout[n]]
  <2>1. TxData[t].vout \in [DOMAIN TxData[t].vout -> Int]
    BY TxAssumption, Zenon
  <2> QED
    BY <2>1, Zenon
<1> QED
  BY <1>1, Zenon DEF FromTx, Left

\* The sets of unspent outputs before and after a transaction is connected
LEMMA UnspentStep ==
  ASSUME NEW S \in SUBSET Txid, NEW t \in Txid \ S, Closed(S), There(S, t)
  PROVE  /\ \A x : Rest(S, t, Len(Inputs(t)), x) = Unspent(S \cup {t}, x)
         /\ Unspent(S \cup {t}, t) = DOMAIN TxData[t].vout
<1>1. \A x, n : Spends(t, x, n) <=> \E k \in 1..Len(Inputs(t)) : Inputs(t)[k] = [hash |-> x, n |-> n]
  BY InputsFacts DEF Spends, Range
<1>2. \A x : Rest(S, t, Len(Inputs(t)), x) = Unspent(S \cup {t}, x)
  BY <1>1, Zenon DEF Rest, Unspent
<1>3. ASSUME NEW s \in S \cup {t}, NEW n PROVE ~Spends(s, t, n)
  <2>1. \A j \in DOMAIN Inputs(s) : Inputs(s)[j].hash \in S
    BY InputsFacts DEF Closed, There
  <2> QED
    BY <2>1 DEF Spends, Range
<1>4. Unspent(S \cup {t}, t) = DOMAIN TxData[t].vout
  BY <1>3, Zenon DEF Unspent
<1> QED
  BY <1>2, <1>4, Zenon

\* Connecting a transaction turns the coins of S into those of S with it
LEMMA TxConnected ==
  ASSUME NEW S \in SUBSET Txid, NEW t \in Txid \ S, Closed(S), There(S, t), NEW ht
  PROVE  UpdateCoins(View(S, ht), t, ht[t]) = View(S \cup {t}, ht) /\ Closed(S \cup {t})
<1> DEFINE N == Len(Inputs(t))
<1>1. N \in 0..N
  BY InputsFacts
<1>2. AfterInputs(View(S, ht), t)[N] = Mid(S, ht, t, N)
  BY <1>1, InputsSpent, Zenon
<1>3. UpdateCoins(View(S, ht), t, ht[t])
        = [Mid(S, ht, t, N) EXCEPT ![t] = Left(t, ht[t], DOMAIN TxData[t].vout)]
  BY <1>2, FromTxLeft, Zenon DEF UpdateCoins
<1>4. [Mid(S, ht, t, N) EXCEPT ![t] = Left(t, ht[t], DOMAIN TxData[t].vout)] = View(S \cup {t}, ht)
  BY UnspentStep, Zenon DEF Mid, View
<1>5. Closed(S \cup {t})
  BY InputsFacts DEF Closed, There
<1> QED
  BY <1>3, <1>4, <1>5, Zenon

\* No coinstake that S or t spends from is used up
StakesLeft(S) ==
  \A x \in Txid : TxData[x].coinstake =>
    \/ DOMAIN TxData[x].vout = {}
    \/ \E n \in DOMAIN TxData[x].vout : \A s \in S : ~Spends(s, x, n)

\* Taking a transaction off turns the coins back into those of S, and is clean
LEMMA TxDisconnected ==
  ASSUME NEW S \in SUBSET Txid, NEW t \in Txid \ S, Closed(S), There(S, t), StakesLeft(S \cup {t}),
         NEW ht, \A x \in S : ht[x] \in Nat \ {0},
         NEW undo, \A j \in 1..Len(Inputs(t)) : undo[j] = TxUndo(View(S, ht), t)[j]
  PROVE  BeforeInputs([coins |-> View(S \cup {t}, ht), clean |-> TRUE], t, ht[t], undo)[0]
           = [coins |-> View(S, ht), clean |-> TRUE]
<1> DEFINE N == Len(Inputs(t))
           acc == [coins |-> View(S \cup {t}, ht), clean |-> TRUE]
           B == BeforeInputs(acc, t, ht[t], undo)
           Good_(j) == B[j] = [coins |-> Mid(S, ht, t, j), clean |-> TRUE]
           T == {m \in Nat : \A j \in 0..N : j = N - m => Good_(j)}
<1>0. N \in Nat
  BY InputsFacts, Zenon
<1>1. /\ B[N] = [coins |-> [acc.coins EXCEPT ![t] = Empty],
                 clean |-> acc.clean /\ acc.coins[t] = FromTx(t, ht[t])]
      /\ \A j \in 0..N : j # N => B[j] = RestoreInput(B[j + 1], Inputs(t)[j + 1], undo[j + 1])
  <2> DEFINE start == [coins |-> [acc.coins EXCEPT ![t] = Empty],
                       clean |-> acc.clean /\ acc.coins[t] = FromTx(t, ht[t])]
  <2> HIDE DEF acc
  <2>1. N \in 0..N
    BY <1>0
  <2>2. B = [j \in 0..N |-> IF j = N THEN start ELSE RestoreInput(B[j + 1], Inputs(t)[j + 1], undo[j + 1])]
    BY ONLY <1>0, BeforeInputsDef, SMT
  <2> HIDE DEF B, start
  <2>3. B[N] = start /\ \A j \in 0..N : j # N => B[j] = RestoreInput(B[j + 1], Inputs(t)[j + 1], undo[j + 1])
    BY <2>1, <2>2, Zenon
  <2> QED
    BY <2>3, Zenon DEF start
<1> HIDE DEF B
<1>2. Good_(N)
  <2>1. View(S \cup {t}, ht)[t] = FromTx(t, ht[t])
    BY UnspentStep, FromTxLeft, Zenon DEF View
  <2>2. [View(S \cup {t}, ht) EXCEPT ![t] = Empty] = Mid(S, ht, t, N)
    BY UnspentStep, Zenon DEF View, Mid
  <2> QED
    BY <1>1, <2>1, <2>2, Zenon
<1>3. ASSUME NEW j \in 0..N, j # N, Good_(j + 1) PROVE Good_(j)
  <2> DEFINE out == Inputs(t)[j + 1]
             x == out.hash
             L == Rest(S, t, j, x)
  <2>1. j + 1 \in 1..N /\ (j + 1) - 1 = j /\ j \in Nat
    BY <1>0, <1>3
  <2>2. /\ out \in [hash : Txid, n : Nat] /\ x \in Txid /\ x \in S /\ out.n \in L
        /\ Rest(S, t, j + 1, x) = L \ {out.n}
        /\ \A y : y # x => Rest(S, t, j + 1, y) = Rest(S, t, j, y)
    <3>1. Takes(S, t, j, j + 1, out)
      BY <2>1, RestStep, Zenon
    <3> QED
      BY <3>1, Zenon DEF Takes
  <2>3. undo[j + 1] = SpendUndo(Left(x, ht[x], L), out.n)
    <3>1. AfterInputs(View(S, ht), t)[j] = Mid(S, ht, t, j)
      BY InputsSpent, Zenon
    <3>2. TxUndo(View(S, ht), t)[j + 1] = SpendUndo(AfterInputs(View(S, ht), t)[j][x], out.n)
      BY <2>1, Zenon DEF TxUndo
    <3>3. Mid(S, ht, t, j)[x] = Left(x, ht[x], L)
      BY <2>2, Zenon DEF Mid
    <3> QED
      BY <2>1, <3>1, <3>2, <3>3, Zenon
  <2>4. L = {out.n} => ~TxData[x].coinstake
    <3> SUFFICES ASSUME L = {out.n}, TxData[x].coinstake PROVE FALSE
      BY Zenon
    <3>1. L \subseteq Unspent(S, x) /\ Unspent(S, x) \subseteq DOMAIN TxData[x].vout
      BY Zenon DEF Rest, Unspent
    <3>2. PICK n \in DOMAIN TxData[x].vout : \A s \in S \cup {t} : ~Spends(s, x, n)
      BY <2>2, <3>1, Zenon DEF StakesLeft
    <3>3. \A k \in 1..N : Inputs(t)[k] # [hash |-> x, n |-> n]
      BY <3>2, InputsFacts DEF Spends, Range
    <3>4. \A k \in 1..j : k \in 1..N
      BY <1>0, <2>1
    <3>5. n \in L
      BY <3>2, <3>3, <3>4, Zenon DEF Rest, Unspent
    <3>6. out = [hash |-> x, n |-> n]
      BY <2>2, <3>5, Zenon
    <3> QED
      BY <2>1, <3>3, <3>6, Zenon
  <2>5. Mid(S, ht, t, j + 1)[x] = Left(x, ht[x], L \ {out.n}) /\ x \in DOMAIN Mid(S, ht, t, j + 1)
    BY <2>2, Zenon DEF Mid
  <2>6. [Mid(S, ht, t, j + 1) EXCEPT ![x] = Left(x, ht[x], L)] = Mid(S, ht, t, j)
    BY <2>2, Zenon DEF Mid
  <2>7. B[j] = RestoreInput([coins |-> Mid(S, ht, t, j + 1), clean |-> TRUE], out,
                            SpendUndo(Left(x, ht[x], L), out.n))
    BY <1>1, <1>3, <2>3, Zenon
  <2>8. ht[x] \in Nat \ {0} /\ out.hash = x
    BY <2>2, Zenon
  <2> HIDE DEF out, x, L
  <2>9. RestoreInput([coins |-> Mid(S, ht, t, j + 1), clean |-> TRUE], out,
                     SpendUndo(Left(x, ht[x], L), out.n))
          = [coins |-> [Mid(S, ht, t, j + 1) EXCEPT ![x] = Left(x, ht[x], L)], clean |-> TRUE]
    BY <2>2, <2>4, <2>5, <2>8, RestoreLeft
  <2> QED
    BY <2>6, <2>7, <2>9, Zenon
<1>4. 0 \in T
  <2>1. \A j \in 0..N : j = N - 0 => j = N
    BY <1>0
  <2> HIDE DEF Good_
  <2> QED
    BY <1>2, <2>1, Zenon
<1>5. ASSUME NEW m \in Nat, m \in T PROVE m + 1 \in T
  <2> SUFFICES ASSUME NEW j \in 0..N, j = N - (m + 1) PROVE Good_(j)
    BY DEF T
  <2>1. j + 1 \in 0..N /\ j + 1 = N - m /\ j # N
    BY <1>0
  <2>2. Good_(j + 1)
    BY <1>5, <2>1, Zenon
  <2> HIDE DEF Good_
  <2> QED
    BY <1>3, <2>1, <2>2, Zenon
<1> HIDE DEF T
<1>6. N \in T
  BY <1>0, <1>4, <1>5, NatInd, Zenon
<1>7. Good_(0)
  <2>1. 0 \in 0..N /\ 0 = N - N
    BY <1>0
  <2> QED
    BY <1>6, <2>1, Zenon DEF T
<1>8. Mid(S, ht, t, 0) = View(S, ht)
  <2>1. \A x : Rest(S, t, 0, x) = Unspent(S, x)
    BY DEF Rest
  <2> QED
    BY <2>1, Zenon DEF View, Mid
<1> QED
  BY <1>7, <1>8, Zenon DEF B

-----------------------------------------------------------------------------
(* Blocks *)

LEMMA ContentsFacts ==
  ASSUME NEW v \in Contents, NEW b \in Block
  PROVE  /\ Len(v[b]) \in Nat /\ Len(v[b]) # 0 /\ DOMAIN v[b] = 1..Len(v[b])
         /\ \A i \in 1..Len(v[b]) : v[b][i] \in Txid
         /\ Range(v[b]) \subseteq Txid
         /\ \A i \in 1..Len(v[b]) : TxData[v[b][i]].coinbase <=> i = 1
         /\ \A i, j \in 1..Len(v[b]) :
              i # j => TxData[v[b][i]].serials \cap TxData[v[b][j]].serials = {}
         /\ \A c \in Block : v[b][1] = v[c][1] => nHeight(b) = nHeight(c)
<1>1. \A c \in Block : v[c] \in Bodies[c]
  BY Zenon DEF Contents
<1>2. v[b] \in Seq(Txid) /\ v[b] # <<>>
  BY <1>1, BodiesAssumption, Zenon
<1>3. Len(v[b]) \in Nat /\ Len(v[b]) # 0 /\ DOMAIN v[b] = 1..Len(v[b])
  BY <1>2
<1>4. \A i \in 1..Len(v[b]) : v[b][i] \in Txid
  BY <1>2
<1>5. Range(v[b]) \subseteq Txid
  BY <1>3, <1>4, Zenon DEF Range
<1>6. /\ \A i \in DOMAIN v[b] : TxData[v[b][i]].coinbase <=> i = 1
      /\ \A i, j \in DOMAIN v[b] :
           i # j => TxData[v[b][i]].serials \cap TxData[v[b][j]].serials = {}
      /\ \A c \in Block : v[b][1] = v[c][1] => nHeight(b) = nHeight(c)
  BY <1>1, BodiesAssumption
<1> QED
  BY <1>3, <1>4, <1>5, <1>6, Zenon

LEMMA TxsStep ==
  ASSUME NEW v \in Contents
  PROVE  /\ Txs(v, Genesis) = {}
         /\ \A b \in Block : Txs(v, b) = Txs(v, Prev[b]) \cup Range(v[b])
         /\ \A b \in Node : Txs(v, b) \subseteq Txid
<1>1. Txs(v, Genesis) = {}
  BY ChainStep, Zenon DEF Txs
<1>2. \A b \in Block : Txs(v, b) = Txs(v, Prev[b]) \cup Range(v[b])
  BY ChainStep DEF Txs
<1>3. \A b \in Node : Txs(v, b) \subseteq Txid
  BY ChainBasic, ContentsFacts DEF Txs
<1> QED
  BY <1>1, <1>2, <1>3, Zenon

\* The transactions connected when i transactions of block b are, and their heights
First(v, b, i) == Txs(v, Prev[b]) \cup {v[b][k] : k \in 1..i}

HeightAt(v, b) ==
  [x \in Txid |-> IF x \in Txs(v, Prev[b]) THEN HeightIn(v, Prev[b])[x] ELSE nHeight(b)]

LEMMA ViewSame ==
  ASSUME NEW S, NEW ht, NEW hu, \A x \in S : ht[x] = hu[x]
  PROVE  View(S, ht) = View(S, hu)
BY Zenon DEF View

\* No transaction of a good block was connected before
LEMMA TxIsNew ==
  ASSUME NEW v \in Contents, NEW b \in Block, Good(v, b), NEW i \in 1..Len(v[b]),
         There(First(v, b, i - 1), v[b][i])
  PROVE  v[b][i] \notin First(v, b, i - 1)
<1> DEFINE t == v[b][i]
<1> SUFFICES ASSUME t \in First(v, b, i - 1) PROVE FALSE
  BY Zenon
<1>1. t \in Txid /\ i \in DOMAIN v[b] /\ t \in Range(v[b])
  BY ContentsFacts DEF Range
<1>2. \A k \in 1..(i - 1) : k \in 1..Len(v[b]) /\ k # i
  BY ContentsFacts
<1>3. CASE TxData[t].coinbase
  <2>1. i = 1
    BY <1>3, ContentsFacts, Zenon
  <2>2. t \in Txs(v, Prev[b])
    BY <2>1 DEF First
  <2>3. PICK c \in Chain[Prev[b]] : t \in Range(v[c])
    BY <2>2, Zenon DEF Txs
  <2>4. c \in Block /\ Prev[b] \in Node
    BY <2>3, ChainStep, ChainBasic, Zenon
  <2>5. PICK k \in 1..Len(v[c]) : v[c][k] = t
    BY <2>3, <2>4, ContentsFacts, Zenon DEF Range
  <2>6. k = 1
    BY <1>3, <2>4, <2>5, ContentsFacts
  <2>7. nHeight(b) = nHeight(c)
    BY <2>1, <2>4, <2>5, <2>6, ContentsFacts
  <2>8. /\ nHeight(c) <= nHeight(Prev[b]) /\ nHeight(b) = nHeight(Prev[b]) + 1
        /\ nHeight(Prev[b]) \in Nat /\ nHeight(c) \in Nat
    BY <2>4, Heights, Zenon DEF Node
  <2> QED
    BY <2>7, <2>8
<1>4. CASE TxData[t].serials # {}
  <2>1. CASE t \in Txs(v, Prev[b])
    <3>1. ZKeysOf(t) \cap ZKeysOf(t) = {}
      BY <1>1, <2>1, Zenon DEF Good
    <3> QED
      BY <1>4, <3>1, Zenon DEF ZKeysOf
  <2>2. CASE \E k \in 1..(i - 1) : t = v[b][k]
    BY <1>2, <1>4, <2>2, ContentsFacts, Zenon
  <2> QED
    BY <2>1, <2>2, Zenon DEF First
<1>5. CASE HasInputs(t)
  <2>1. 1 \in 1..Len(Inputs(t)) /\ Inputs(t)[1] \in [hash : Txid, n : Nat] /\ 1 \in DOMAIN Inputs(t)
    BY <1>1, <1>5, InputsFacts, Zenon
  <2> DEFINE out == Inputs(t)[1]
  <2>2. out.n \in Unspent(First(v, b, i - 1), out.hash)
    BY <2>1, Zenon DEF There
  <2>3. ~Spends(t, out.hash, out.n)
    BY <2>2, Zenon DEF Unspent
  <2>4. out = [hash |-> out.hash, n |-> out.n]
    BY <2>1, Zenon
  <2> QED
    BY <2>1, <2>3, <2>4, Zenon DEF Spends, Range
<1> QED
  BY <1>1, <1>3, <1>4, <1>5, TxAssumption, Zenon DEF HasInputs

\* The coins in the middle of a good block
LEMMA BlockViews ==
  ASSUME NEW v \in Contents, NEW b \in Block, Good(v, b), Closed(Txs(v, Prev[b]))
  PROVE  /\ \A i \in 0..Len(v[b]) :
              /\ AfterTxs(Expected(v, Prev[b]), v[b], nHeight(b))[i] = View(First(v, b, i), HeightAt(v, b))
              /\ Closed(First(v, b, i))
         /\ \A i \in 1..Len(v[b]) :
              There(First(v, b, i - 1), v[b][i]) /\ v[b][i] \notin First(v, b, i - 1)
<1> DEFINE N == Len(v[b])
           A == AfterTxs(Expected(v, Prev[b]), v[b], nHeight(b))
           V(i) == A[i] = View(First(v, b, i), HeightAt(v, b)) /\ Closed(First(v, b, i))
           W(i) == There(First(v, b, i - 1), v[b][i]) /\ v[b][i] \notin First(v, b, i - 1)
           T == {i \in Nat : i \in 0..N => V(i)}
<1>0. N \in Nat /\ \A i \in 1..N : v[b][i] \in Txid
  BY ContentsFacts, Zenon
<1>1. \A i \in 0..N : A[i] = IF i = 0 THEN Expected(v, Prev[b])
                             ELSE UpdateCoins(A[i - 1], v[b][i], nHeight(b))
  BY <1>0, AfterTxsDef
<1>2. \A i \in 1..N : InputsOK(A[i - 1], v[b][i], nHeight(b))
  BY Zenon DEF Good
<1> HIDE DEF A
<1>3. 0 \in T
  <2>1. First(v, b, 0) = Txs(v, Prev[b])
    BY DEF First
  <2>2. Txs(v, Prev[b]) \subseteq Txid
    BY ChainStep, TxsStep, Zenon
  <2>3. \A x \in Txs(v, Prev[b]) : HeightIn(v, Prev[b])[x] = HeightAt(v, b)[x]
    BY <2>2, Zenon DEF HeightAt
  <2>4. Expected(v, Prev[b]) = View(First(v, b, 0), HeightAt(v, b))
    BY <2>1, <2>3, ViewSame, Zenon DEF Expected
  <2> QED
    BY <1>0, <1>1, <2>1, <2>4, Zenon
<1>4. ASSUME NEW i \in 1..N, V(i - 1) PROVE V(i) /\ W(i)
  <2> DEFINE S == First(v, b, i - 1)
             t == v[b][i]
             ht == HeightAt(v, b)
  <2>1. i \in Nat /\ i - 1 \in 0..N /\ i \in 0..N /\ i # 0 /\ 1..i = (1..(i - 1)) \cup {i}
    BY <1>0
  <2>2. t \in Txid /\ S \in SUBSET Txid
    BY <1>0, <2>1, ChainStep, TxsStep DEF First
  <2>3. There(S, t)
    BY <1>2, <1>4, <2>2, InputsThere, Zenon
  <2>4. t \notin S
    BY <2>3, TxIsNew, Zenon
  <2>5. First(v, b, i) = S \cup {t}
    BY <2>1, Zenon DEF First
  <2>6. ht[t] = nHeight(b)
    BY <2>2, <2>4, Zenon DEF HeightAt, First
  <2>7. A[i] = UpdateCoins(View(S, ht), t, ht[t])
    BY <1>1, <1>4, <2>1, <2>6, Zenon
  <2> HIDE DEF S, t, ht
  <2>8. UpdateCoins(View(S, ht), t, ht[t]) = View(S \cup {t}, ht) /\ Closed(S \cup {t})
    <3>1. Closed(S)
      BY <1>4, Zenon DEF S
    <3> QED
      BY <2>2, <2>3, <2>4, <3>1, TxConnected, Zenon
  <2> QED
    BY <2>3, <2>4, <2>5, <2>7, <2>8, Zenon DEF S, t, ht
<1>5. ASSUME NEW i \in Nat, i \in T PROVE i + 1 \in T
  <2> SUFFICES ASSUME i + 1 \in 0..N PROVE V(i + 1)
    OBVIOUS
  <2>1. i \in 0..N /\ i + 1 \in 1..N /\ (i + 1) - 1 = i
    BY <1>0
  <2>2. V((i + 1) - 1)
    BY <1>5, <2>1, Zenon
  <2> HIDE DEF V, W
  <2> QED
    BY <1>4, <2>1, <2>2, Zenon
<1> HIDE DEF T
<1>6. \A i \in 0..N : V(i)
  <2>1. Nat \subseteq T
    BY <1>3, <1>5, NatInd, Zenon
  <2>2. \A i \in 0..N : i \in Nat
    BY <1>0
  <2> HIDE DEF V
  <2> QED
    BY <2>1, <2>2, Zenon DEF T
<1>7. \A i \in 1..N : W(i)
  <2>1. \A i \in 1..N : i - 1 \in 0..N
    BY <1>0
  <2> HIDE DEF V, W
  <2> QED
    BY <1>4, <1>6, <2>1, Zenon
<1> QED
  BY <1>6, <1>7, Zenon DEF A

\* No transaction is in two blocks of the chain
Unique(v, b) == \A c, d \in Chain[b] : \A x : x \in Range(v[c]) /\ x \in Range(v[d]) => c = d

LEMMA GoodStep ==
  ASSUME NEW v, NEW b \in Block
  PROVE  GoodChain(v, b) <=> GoodChain(v, Prev[b]) /\ Good(v, b)
BY ChainStep, Zenon DEF GoodChain

LEMMA ChainFacts ==
  ASSUME NEW v \in Contents
  PROVE  \A b \in Node : GoodChain(v, b) => Closed(Txs(v, b)) /\ Unique(v, b)
<1> DEFINE S == {b \in Node : GoodChain(v, b) => Closed(Txs(v, b)) /\ Unique(v, b)}
<1>1. Genesis \in S
  BY ChainStep, TxsStep, Zenon DEF Closed, Unique, Node
<1>2. ASSUME NEW b \in Block, Prev[b] \in S PROVE b \in S
  <2> SUFFICES ASSUME GoodChain(v, b) PROVE Closed(Txs(v, b)) /\ Unique(v, b)
    BY Zenon DEF Node
  <2>1. GoodChain(v, Prev[b]) /\ Good(v, b)
    BY GoodStep, Zenon
  <2>2. Closed(Txs(v, Prev[b])) /\ Unique(v, Prev[b])
    BY <1>2, <2>1, Zenon
  <2> DEFINE N == Len(v[b])
  <2>3. N \in 0..N /\ DOMAIN v[b] = 1..N
    BY ContentsFacts
  <2>4. First(v, b, N) = Txs(v, b)
    BY <2>3, TxsStep, Zenon DEF First, Range
  <2>5. Closed(Txs(v, b))
    BY <2>1, <2>2, <2>3, <2>4, BlockViews, Zenon
  <2>6. \A x \in Range(v[b]) : x \notin Txs(v, Prev[b])
    <3>1. \A i \in 1..N : v[b][i] \notin First(v, b, i - 1)
      BY <2>1, <2>2, BlockViews, Zenon
    <3>2. \A i \in 1..N : v[b][i] \notin Txs(v, Prev[b])
      BY <3>1, Zenon DEF First
    <3> QED
      BY <2>3, <3>2, Zenon DEF Range
  <2>7. Unique(v, b)
    <3>1. \A c \in Chain[Prev[b]] : \A x \in Range(v[c]) : x \notin Range(v[b])
      BY <2>6, Zenon DEF Txs
    <3> QED
      BY <2>2, <3>1, ChainStep, Zenon DEF Unique
  <2> QED
    BY <2>5, <2>7, Zenon
<1> HIDE DEF S
<1>3. Node \subseteq S
  BY <1>1, <1>2, BlockInduction, Zenon
<1> QED
  BY <1>3, Zenon DEF S

\* The height of a transaction is that of its block
LEMMA HeightOf ==
  ASSUME NEW v \in Contents, NEW b \in Node, GoodChain(v, b), NEW c \in Chain[b], NEW x \in Range(v[c])
  PROVE  x \in Txid /\ HeightIn(v, b)[x] = nHeight(c) /\ nHeight(c) \in Nat \ {0}
<1>1. Unique(v, b) /\ c \in Block /\ c \in Node
  BY ChainFacts, ChainBasic, Zenon DEF Node
<1>2. x \in Txid
  BY <1>1, ContentsFacts, Zenon
<1>3. (CHOOSE d \in Chain[b] : x \in Range(v[d])) = c
  BY <1>1, Zenon DEF Unique
<1>4. nHeight(c) \in Nat /\ nHeight(c) # 0
  BY <1>1, Heights, Zenon
<1> QED
  BY <1>2, <1>3, <1>4, Zenon DEF HeightIn

LEMMA HeightAtIn ==
  ASSUME NEW v \in Contents, NEW b \in Block, GoodChain(v, b)
  PROVE  \A x \in Txs(v, b) : HeightAt(v, b)[x] = HeightIn(v, b)[x] /\ HeightAt(v, b)[x] \in Nat \ {0}
<1> SUFFICES ASSUME NEW x \in Txs(v, b)
             PROVE  HeightAt(v, b)[x] = HeightIn(v, b)[x] /\ HeightAt(v, b)[x] \in Nat \ {0}
  BY Zenon
<1>1. PICK c \in Chain[b] : x \in Range(v[c])
  BY Zenon DEF Txs
<1>2. b \in Node /\ Prev[b] \in Node /\ GoodChain(v, Prev[b]) /\ Chain[b] = {b} \cup Chain[Prev[b]]
  BY ChainStep, GoodStep, Zenon
<1>3. x \in Txid /\ HeightIn(v, b)[x] = nHeight(c) /\ nHeight(c) \in Nat \ {0}
  BY <1>1, <1>2, HeightOf, Zenon
<1>4. CASE c \in Chain[Prev[b]]
  <2>1. HeightIn(v, Prev[b])[x] = nHeight(c)
    BY <1>1, <1>2, <1>4, HeightOf
  <2>2. x \in Txs(v, Prev[b])
    BY <1>1, <1>4, Zenon DEF Txs
  <2> QED
    BY <1>3, <2>1, <2>2, Zenon DEF HeightAt
<1>5. CASE c = b
  <2>1. x \notin Txs(v, Prev[b])
    <3>1. Unique(v, b) /\ b \notin Chain[Prev[b]]
      BY <1>2, ChainFacts, ChainAcyclic, Zenon
    <3> QED
      BY <1>1, <1>2, <1>5, <3>1, Zenon DEF Unique, Txs
  <2> QED
    BY <1>3, <1>5, <2>1, Zenon DEF HeightAt
<1> QED
  BY <1>1, <1>2, <1>4, <1>5, Zenon

\* Connecting a good block turns the parent's coins into its own
LEMMA BlockConnected ==
  ASSUME NEW v \in Contents, NEW b \in Block, GoodChain(v, b)
  PROVE  AfterTxs(Expected(v, Prev[b]), v[b], nHeight(b))[Len(v[b])] = Expected(v, b)
<1> DEFINE N == Len(v[b])
<1>1. N \in 0..N /\ DOMAIN v[b] = 1..N
  BY ContentsFacts
<1>2. First(v, b, N) = Txs(v, b)
  BY <1>1, TxsStep, Zenon DEF First, Range
<1>3. Good(v, b) /\ Closed(Txs(v, Prev[b]))
  BY GoodStep, ChainStep, ChainFacts, Zenon
<1>4. AfterTxs(Expected(v, Prev[b]), v[b], nHeight(b))[N] = View(Txs(v, b), HeightAt(v, b))
  BY <1>1, <1>2, <1>3, BlockViews, Zenon
<1>5. View(Txs(v, b), HeightAt(v, b)) = View(Txs(v, b), HeightIn(v, b))
  BY HeightAtIn, ViewSame, Zenon
<1> QED
  BY <1>4, <1>5, Zenon DEF Expected

LEMMA BeforeTxsAt ==
  ASSUME NEW view, NEW txs, NEW h, NEW undo, Len(txs) \in Nat
  PROVE  /\ BeforeTxs(view, txs, h, undo)[Len(txs)] = [coins |-> view, clean |-> TRUE]
         /\ \A i \in 0..Len(txs) : i # Len(txs) =>
              BeforeTxs(view, txs, h, undo)[i]
                = BeforeInputs(BeforeTxs(view, txs, h, undo)[i + 1], txs[i + 1], h, undo[i])[0]
<1> DEFINE B == BeforeTxs(view, txs, h, undo)
<1>1. B = [j \in 0..Len(txs) |->
             IF j = Len(txs) THEN [coins |-> view, clean |-> TRUE]
             ELSE BeforeInputs(B[j + 1], txs[j + 1], h, undo[j])[0]]
  BY BeforeTxsDef
<1>2. Len(txs) \in 0..Len(txs)
  OBVIOUS
<1> HIDE DEF B
<1>3. B[Len(txs)] = [coins |-> view, clean |-> TRUE]
  BY <1>1, <1>2, Zenon
<1>4. \A i \in 0..Len(txs) : i # Len(txs) => B[i] = BeforeInputs(B[i + 1], txs[i + 1], h, undo[i])[0]
  BY <1>1, Zenon
<1> QED
  BY <1>3, <1>4, Zenon DEF B

\* Disconnecting it with the undo data it wrote turns them back, and is clean
LEMMA BlockDisconnected ==
  ASSUME NEW v \in Contents, NEW b \in Block, GoodChain(v, b), StakesKept(v)
  PROVE  BeforeTxs(Expected(v, b), v[b], nHeight(b), UndoOf(v, b))[0]
           = [coins |-> Expected(v, Prev[b]), clean |-> TRUE]
<1> DEFINE N == Len(v[b])
           ht == HeightAt(v, b)
           undo == UndoOf(v, b)
           A == AfterTxs(Expected(v, Prev[b]), v[b], nHeight(b))
           B == BeforeTxs(Expected(v, b), v[b], nHeight(b), undo)
           V(i) == B[i] = [coins |-> View(First(v, b, i), ht), clean |-> TRUE]
           T == {m \in Nat : \A i \in 0..N : i = N - m => V(i)}
<1>0. N \in Nat /\ N \in 0..N /\ 0 \in 0..N /\ DOMAIN v[b] = 1..N
  BY ContentsFacts
<1>1. Good(v, b) /\ Closed(Txs(v, Prev[b]))
  <2>1. Prev[b] \in Node
    BY ChainStep, Zenon
  <2>2. GoodChain(v, Prev[b]) /\ Good(v, b)
    BY GoodStep, Zenon
  <2> QED
    BY <2>1, <2>2, ChainFacts, Zenon
<1>2. /\ \A i \in 0..N : A[i] = View(First(v, b, i), ht) /\ Closed(First(v, b, i))
      /\ \A i \in 1..N : There(First(v, b, i - 1), v[b][i]) /\ v[b][i] \notin First(v, b, i - 1)
  BY <1>1, BlockViews, Zenon
<1>3. First(v, b, N) = Txs(v, b) /\ Expected(v, b) = View(First(v, b, N), ht)
  <2>1. First(v, b, N) = Txs(v, b)
    BY <1>0, TxsStep, Zenon DEF First, Range
  <2>2. View(Txs(v, b), ht) = View(Txs(v, b), HeightIn(v, b))
    BY HeightAtIn, ViewSame, Zenon
  <2> QED
    BY <2>1, <2>2, Zenon DEF Expected
<1>4. /\ B[N] = [coins |-> Expected(v, b), clean |-> TRUE]
      /\ \A i \in 0..N : i # N => B[i] = BeforeInputs(B[i + 1], v[b][i + 1], nHeight(b), undo[i])[0]
  BY <1>0, BeforeTxsAt
<1>5. \A i \in 1..(N - 1) : undo[i] = TxUndo(A[i], v[b][i + 1])
  BY Zenon DEF UndoOf, BlockUndo
<1> HIDE DEF A, B, undo, ht
<1>6. V(N)
  BY <1>3, <1>4, Zenon
<1>7. ASSUME NEW i \in 0..N, i # N, V(i + 1) PROVE V(i)
  <2> DEFINE S == First(v, b, i)
             t == v[b][i + 1]
  <2>1. i \in Nat /\ i + 1 \in 1..N /\ (i + 1) - 1 = i /\ 1..(i + 1) = (1..i) \cup {i + 1}
    BY <1>0, <1>7
  <2>2. Txs(v, Prev[b]) \subseteq Txid /\ \A k \in 1..N : v[b][k] \in Txid
    BY ContentsFacts, ChainStep, TxsStep, Zenon
  <2>3. \A k \in 1..(i + 1) : k \in 1..N
    BY <1>0, <2>1
  <2>4. t \in Txid /\ S \in SUBSET Txid /\ S \cup {t} \subseteq Txs(v, b)
    <3>1. S \cup {t} = First(v, b, i + 1)
      BY <2>1, Zenon DEF First
    <3>2. First(v, b, i + 1) \subseteq First(v, b, N)
      BY <2>3, Zenon DEF First
    <3> QED
      BY <1>3, <2>1, <2>2, <2>3, <3>1, <3>2, Zenon DEF First
  <2>5. There(S, t) /\ t \notin S /\ Closed(S)
    BY <1>2, <2>1, Zenon
  <2>6. First(v, b, i + 1) = S \cup {t}
    BY <2>1, Zenon DEF First
  <2>7. ht[t] = nHeight(b)
    BY <2>4, <2>5, Zenon DEF ht, HeightAt, First
  <2>8. \A x \in S : ht[x] \in Nat \ {0}
    BY <2>4, HeightAtIn, Zenon DEF ht
  <2>9. StakesLeft(S \cup {t})
    <3>1. \A s \in S \cup {t} : \E c \in Block : s \in Range(v[c])
      BY <2>4, ChainStep, ChainBasic DEF Txs
    <3> QED
      BY <3>1, Zenon DEF StakesLeft, StakesKept
  <2>10. \A j \in 1..Len(Inputs(t)) : undo[i][j] = TxUndo(View(S, ht), t)[j]
    <3>1. CASE i = 0
      <4>1. TxData[t].coinbase
        BY <2>1, <3>1, ContentsFacts
      <4>2. Len(Inputs(t)) = 0
        BY <2>4, <4>1, InputsFacts, Zenon DEF HasInputs
      <4> QED
        BY <4>2
    <3>2. CASE i # 0
      <4>1. i \in 1..(N - 1)
        BY <1>0, <1>7, <3>2
      <4> QED
        BY <1>2, <1>5, <4>1, Zenon
    <3> QED
      BY <3>1, <3>2, Zenon
  <2>11. B[i] = BeforeInputs([coins |-> View(S \cup {t}, ht), clean |-> TRUE], t, ht[t], undo[i])[0]
    BY <1>4, <1>7, <2>6, <2>7, Zenon
  <2> HIDE DEF S, t
  <2>12. BeforeInputs([coins |-> View(S \cup {t}, ht), clean |-> TRUE], t, ht[t], undo[i])[0]
           = [coins |-> View(S, ht), clean |-> TRUE]
    <3>1. t \in Txid \ S
      BY <2>4, <2>5, Zenon
    <3> QED
      BY <2>4, <2>5, <2>8, <2>9, <2>10, <3>1, TxDisconnected, Zenon
  <2> QED
    BY <2>11, <2>12, Zenon DEF S
<1>8. 0 \in T
  <2>1. \A i \in 0..N : i = N - 0 => i = N
    BY <1>0
  <2> HIDE DEF V
  <2> QED
    BY <1>6, <2>1, Zenon
<1>9. ASSUME NEW m \in Nat, m \in T PROVE m + 1 \in T
  <2> SUFFICES ASSUME NEW i \in 0..N, i = N - (m + 1) PROVE V(i)
    BY DEF T
  <2>1. i + 1 \in 0..N /\ i + 1 = N - m /\ i # N
    BY <1>0
  <2>2. V(i + 1)
    BY <1>9, <2>1, Zenon
  <2> HIDE DEF V
  <2> QED
    BY <1>7, <2>1, <2>2, Zenon
<1> HIDE DEF T
<1>10. N \in T
  BY <1>0, <1>8, <1>9, NatInd, Zenon
<1>11. V(0)
  <2>1. 0 = N - N
    BY <1>0
  <2> QED
    BY <1>0, <1>10, <2>1, Zenon DEF T
<1>12. View(First(v, b, 0), ht) = Expected(v, Prev[b])
  <2>1. First(v, b, 0) = Txs(v, Prev[b]) /\ Txs(v, Prev[b]) \subseteq Txid
    BY ChainStep, TxsStep DEF First
  <2>2. \A x \in Txs(v, Prev[b]) : ht[x] = HeightIn(v, Prev[b])[x]
    BY <2>1, Zenon DEF ht, HeightAt
  <2> QED
    BY <2>1, <2>2, ViewSame, Zenon DEF Expected
<1> QED
  BY <1>11, <1>12, Zenon DEF B, undo

-----------------------------------------------------------------------------
(* States of the chain, the coins and the index *)

\* Different blocks of a good chain have different zerocoins
KeysApart(v, b) ==
  \A c, d \in Chain[b] : c # d =>
    \A s \in Range(v[c]), t \in Range(v[d]) : ZKeysOf(s) \cap ZKeysOf(t) = {}

LEMMA KeysDiffer ==
  ASSUME NEW v
  PROVE  \A b \in Node : GoodChain(v, b) => KeysApart(v, b)
<1> DEFINE S == {b \in Node : GoodChain(v, b) => KeysApart(v, b)}
<1>1. Genesis \in S
  BY ChainStep, Zenon DEF KeysApart, Node
<1>2. ASSUME NEW b \in Block, Prev[b] \in S PROVE b \in S
  <2> SUFFICES ASSUME GoodChain(v, b) PROVE KeysApart(v, b)
    BY Zenon DEF Node
  <2>1. GoodChain(v, Prev[b]) /\ Good(v, b)
    BY GoodStep, Zenon
  <2>2. KeysApart(v, Prev[b])
    BY <1>2, <2>1, Zenon
  <2>3. \A c \in Chain[Prev[b]] : \A s \in Range(v[c]), t \in Range(v[b]) : ZKeysOf(s) \cap ZKeysOf(t) = {}
    BY <2>1, Zenon DEF Good, Txs
  <2> HIDE DEF S
  <2> QED
    BY <2>2, <2>3, ChainStep DEF KeysApart
<1> HIDE DEF S
<1>3. Node \subseteq S
  BY <1>1, <1>2, BlockInduction, Zenon
<1> QED
  BY <1>3, Zenon DEF S

\* Connecting a block writes its undo data, or leaves what is there
LEMMA IndexPut ==
  ASSUME NEW v, NEW t, NEW c, NEW ix, StateOK(v, t, c, ix),
         NEW b \in Block, NEW e, e.undo = UndoOf(v, b)
  PROVE  StateOK(v, t, c, Put(ix, b, e)) /\ b \in DOMAIN Put(ix, b, e)
<1>1. DOMAIN Put(ix, b, e) = DOMAIN ix \cup {b}
  BY Zenon DEF Put
<1>2. \A x \in DOMAIN ix \cup {b} : Put(ix, b, e)[x] = IF x = b THEN e ELSE ix[x]
  BY Zenon DEF Put
<1>3. \A x \in DOMAIN ix : ix[x].undo = UndoOf(v, x)
  BY Zenon DEF StateOK
<1>4. \A x \in DOMAIN ix \cup {b} : Put(ix, b, e)[x].undo = UndoOf(v, x)
  BY <1>2, <1>3, Zenon
<1> QED
  BY <1>1, <1>4, Zenon DEF StateOK

LEMMA StateConnect ==
  ASSUME NEW v \in Contents, NEW b \in Block, NEW c, NEW ix, StateOK(v, Prev[b], c, ix), Good(v, b),
         NEW e, e.undo = UndoOf(v, b)
  PROVE  StateOK(v, b, AfterTxs(c, v[b], nHeight(b))[Len(v[b])], Put(ix, b, e))
<1>1. StateOK(v, Prev[b], c, Put(ix, b, e)) /\ b \in DOMAIN Put(ix, b, e)
  BY IndexPut, Zenon
<1>2. GoodChain(v, b)
  BY GoodStep, Zenon DEF StateOK
<1>3. AfterTxs(c, v[b], nHeight(b))[Len(v[b])] = Expected(v, b)
  BY <1>2, BlockConnected, Zenon DEF StateOK
<1> QED
  BY <1>1, <1>2, <1>3, ChainStep, Zenon DEF StateOK

LEMMA StateDisconnect ==
  ASSUME NEW v \in Contents, StakesKept(v), NEW t \in Block, NEW c, NEW ix, StateOK(v, t, c, ix)
  PROVE  /\ BeforeTxs(c, v[t], nHeight(t), ix[t].undo)[0]
              = [coins |-> Expected(v, Prev[t]), clean |-> TRUE]
         /\ StateOK(v, Prev[t], Expected(v, Prev[t]), ix)
<1>1. GoodChain(v, t) /\ c = Expected(v, t) /\ GoodChain(v, Prev[t])
  BY GoodStep, Zenon DEF StateOK
<1>2. t \in DOMAIN ix /\ Chain[Prev[t]] \subseteq DOMAIN ix /\ Prev[t] \in Block \cup {Genesis}
  BY ChainStep DEF StateOK, Node
<1>3. ix[t].undo = UndoOf(v, t)
  BY <1>2, Zenon DEF StateOK
<1>4. BeforeTxs(c, v[t], nHeight(t), ix[t].undo)[0] = [coins |-> Expected(v, Prev[t]), clean |-> TRUE]
  BY <1>1, <1>3, BlockDisconnected, Zenon
<1>5. StateOK(v, Prev[t], Expected(v, Prev[t]), ix)
  BY <1>1, <1>2, Zenon DEF StateOK
<1> QED
  BY <1>4, <1>5, Zenon

\* A block of the chain of a state is one the node can be at
LEMMA StateBelow ==
  ASSUME NEW v, NEW t, NEW c, NEW ix, StateOK(v, t, c, ix), NEW b \in Chain[t] \cup {Genesis}
  PROVE  StateOK(v, b, Expected(v, b), ix)
<1>1. t \in Node /\ GoodChain(v, t) /\ Chain[t] \subseteq DOMAIN ix
  BY Zenon DEF StateOK, Node
<1>2. b \in Block \cup {Genesis} /\ Chain[b] \subseteq Chain[t]
  BY <1>1, ChainBasic, ChainStep, Zenon
<1> QED
  BY <1>1, <1>2, Zenon DEF StateOK, GoodChain

LEMMA ExpectedIsExpected == \A b : ExpectedCoins(b) = Expected(vtx, b)
<1> SUFFICES ASSUME NEW b PROVE ExpectedCoins(b) = Expected(vtx, b)
  BY Zenon
<1>1. TxsIn(b) = Txs(vtx, b)
  BY Zenon DEF TxsIn, TxsOf, Txs
<1>2. \A t \in Txid : DOMAIN TxData[t].vout \ SpentOutputs(b, t) = Unspent(Txs(vtx, b), t)
  BY <1>1, Zenon DEF SpentOutputs, Unspent, Spends
<1>3. ASSUME NEW t \in Txid, NEW h, NEW L \in SUBSET (DOMAIN TxData[t].vout), L # {}
      PROVE  [FromTx(t, h) EXCEPT !.vout = Restrict(@, L)] = Left(t, h, L)
  <2>1. FromTx(t, h) = [fCoinBase |-> TxData[t].coinbase, fCoinStake |-> TxData[t].coinstake,
                        vout |-> TxData[t].vout, nHeight |-> h, nVersion |-> TxData[t].version]
    BY <1>3, Zenon DEF FromTx
  <2>2. Restrict(TxData[t].vout, L) = [n \in L |-> TxData[t].vout[n]]
    BY Zenon DEF Restrict
  <2> QED
    BY <1>3, <2>1, <2>2 DEF Left
<1>4. ASSUME NEW t \in Txid PROVE ExpectedCoins(b)[t] = Expected(vtx, b)[t]
  <2> DEFINE home == CHOOSE c \in Chain[b] : t \in TxsOf(c)
             left == DOMAIN TxData[t].vout \ SpentOutputs(b, t)
  <2>1. HeightIn(vtx, b)[t] = nHeight(home)
    BY Zenon DEF HeightIn, TxsOf
  <2>2. Expected(vtx, b)[t] = IF t \in Txs(vtx, b) THEN Left(t, nHeight(home), left) ELSE Empty
    BY <1>2, <2>1, Zenon DEF Expected, View
  <2>3. ExpectedCoins(b)[t] = IF t \notin Txs(vtx, b) THEN Empty
                              ELSE IF left = {} THEN Empty
                              ELSE [FromTx(t, nHeight(home)) EXCEPT !.vout = Restrict(@, left)]
    BY <1>1 DEF ExpectedCoins
  <2>4. left \in SUBSET (DOMAIN TxData[t].vout)
    BY Zenon
  <2> HIDE DEF home, left
  <2>5. CASE left = {}
    BY <2>2, <2>3, <2>5, Zenon DEF Left
  <2>6. CASE left # {}
    BY <1>3, <2>2, <2>3, <2>4, <2>6
  <2> QED
    BY <2>5, <2>6, Zenon
<1>5. ExpectedCoins(b) = [t \in Txid |-> ExpectedCoins(b)[t]]
  BY DEF ExpectedCoins
<1>6. Expected(vtx, b) = [t \in Txid |-> Expected(vtx, b)[t]]
  BY Zenon DEF Expected, View
<1> QED
  BY <1>4, <1>5, <1>6, Zenon

LEMMA InitOK == Init => IInv
<1> SUFFICES ASSUME Init PROVE IInv
  BY Zenon
<1>1. vtx \in Contents
  BY Zenon DEF Init, Contents
<1>2. coins = Expected(vtx, Genesis)
  BY <1>1, TxsStep, Zenon DEF Init, NoCoins, Expected, View
<1>3. Chain[Genesis] = {}
  BY ChainStep, Zenon
<1>4. StateOK(vtx, Genesis, coins, [b \in {} |-> 0])
  BY <1>2, <1>3, Zenon DEF StateOK, GoodChain
<1>5. ChainState
  BY <1>1, <1>4, Zenon DEF ChainState, Init
<1>6. Zerocoins
  BY <1>3, Zenon DEF Zerocoins, Init
<1> QED
  BY <1>5, <1>6, Zenon DEF IInv, PendingOK, CheckOK, Verifying, Phases, Init

-----------------------------------------------------------------------------
(* What an action does to zerocoinDB and the transaction index *)

\* Blocks b and c have no zerocoin in common
Apart(v, b, c) ==
  \A s \in Range(v[b]), t \in Range(v[c]) : ZKeysOf(s) \cap ZKeysOf(t) = {}

DatabaseTypes ==
  vtx \in Contents /\ zdb \in [ZKey -> Txid \cup {None}] /\ txindex \in [Txid -> Block \cup {None}]

LEMMA KeysAreKeys ==
  ASSUME vtx \in Contents, NEW b \in Block, NEW t \in TxsOf(b)
  PROVE  t \in Txid /\ ZKeysOf(t) \subseteq ZKey
BY ContentsFacts, TxAssumption, Zenon DEF TxsOf, ZKeysOf

LEMMA ZdbConnected ==
  ASSUME DatabaseTypes, NEW b \in Block, zdb' = ZdbConnect(b), UNCHANGED vtx
  PROVE  /\ zdb' \in [ZKey -> Txid \cup {None}]
         /\ Recorded(b)'
         /\ \A c \in Block : Apart(vtx, b, c) =>
              (Recorded(c) => Recorded(c)') /\ (Erased(c) => Erased(c)')
<1> DEFINE K == {z \in ZKey : \E t \in TxsOf(b) : z \in ZKeysOf(t)}
           W(z) == CHOOSE t \in TxsOf(b) : z \in ZKeysOf(t)
<1>1. zdb' = [z \in ZKey |-> IF z \in K THEN W(z) ELSE zdb[z]]
  BY Zenon DEF ZdbConnect
<1>2. \A z \in K : W(z) \in TxsOf(b) /\ z \in ZKeysOf(W(z))
  BY Zenon
<1>3. \A c \in Block : TxsOf(c)' = TxsOf(c)
  BY Zenon DEF TxsOf
<1>4. \A t \in TxsOf(b) : t \in Txid /\ \A z \in ZKeysOf(t) : z \in K
  BY KeysAreKeys, Zenon DEF DatabaseTypes
<1>5. \A c \in Block : Apart(vtx, b, c) => \A t \in TxsOf(c) : \A z \in ZKeysOf(t) : z \notin K /\ z \in ZKey
  BY KeysAreKeys, Zenon DEF DatabaseTypes, Apart, TxsOf
<1> HIDE DEF K, W
<1>6. K \subseteq ZKey
  BY Zenon DEF K
<1>7. \A z \in K : zdb'[z] = W(z)
  BY <1>1, <1>6, Zenon
<1>8. \A z \in ZKey \ K : zdb'[z] = zdb[z]
  BY <1>1, Zenon
<1>9. zdb' \in [ZKey -> Txid \cup {None}]
  BY <1>1, <1>2, <1>4, Zenon DEF DatabaseTypes
<1>10. Recorded(b)'
  BY <1>2, <1>3, <1>4, <1>7, Zenon DEF Recorded
<1>11. ASSUME NEW c \in Block, Apart(vtx, b, c)
       PROVE  (Recorded(c) => Recorded(c)') /\ (Erased(c) => Erased(c)')
  <2>1. \A t \in TxsOf(c) : \A z \in ZKeysOf(t) : zdb'[z] = zdb[z]
    BY <1>5, <1>8, <1>11, Zenon
  <2> QED
    BY <1>3, <2>1, Zenon DEF Recorded, Erased
<1> QED
  BY <1>9, <1>10, <1>11, Zenon

LEMMA ZdbDisconnected ==
  ASSUME DatabaseTypes, NEW b \in Block, zdb' = ZdbDisconnect(b), UNCHANGED vtx
  PROVE  /\ zdb' \in [ZKey -> Txid \cup {None}]
         /\ Erased(b)'
         /\ \A c \in Block : Apart(vtx, b, c) =>
              (Recorded(c) => Recorded(c)') /\ (Erased(c) => Erased(c)')
<1> DEFINE K == {z \in ZKey : \E t \in TxsOf(b) : z \in ZKeysOf(t)}
<1>1. zdb' = [z \in ZKey |-> IF z \in K THEN None ELSE zdb[z]]
  BY Zenon DEF ZdbDisconnect
<1>3. \A c \in Block : TxsOf(c)' = TxsOf(c)
  BY Zenon DEF TxsOf
<1>4. \A t \in TxsOf(b) : t \in Txid /\ \A z \in ZKeysOf(t) : z \in K
  BY KeysAreKeys, Zenon DEF DatabaseTypes
<1>5. \A c \in Block : Apart(vtx, b, c) => \A t \in TxsOf(c) : \A z \in ZKeysOf(t) : z \notin K /\ z \in ZKey
  BY KeysAreKeys, Zenon DEF DatabaseTypes, Apart, TxsOf
<1> HIDE DEF K
<1>6. K \subseteq ZKey
  BY Zenon DEF K
<1>7. \A z \in K : zdb'[z] = None
  BY <1>1, <1>6, Zenon
<1>8. \A z \in ZKey \ K : zdb'[z] = zdb[z]
  BY <1>1, Zenon
<1>9. zdb' \in [ZKey -> Txid \cup {None}]
  BY <1>1, Zenon DEF DatabaseTypes
<1>10. Erased(b)'
  BY <1>3, <1>4, <1>7, Zenon DEF Erased
<1>11. ASSUME NEW c \in Block, Apart(vtx, b, c)
       PROVE  (Recorded(c) => Recorded(c)') /\ (Erased(c) => Erased(c)')
  <2>1. \A t \in TxsOf(c) : \A z \in ZKeysOf(t) : zdb'[z] = zdb[z]
    BY <1>5, <1>8, <1>11, Zenon
  <2> QED
    BY <1>3, <2>1, Zenon DEF Recorded, Erased
<1> QED
  BY <1>9, <1>10, <1>11, Zenon

LEMMA TxIndexConnected ==
  ASSUME DatabaseTypes, NEW b \in Block, txindex' = TxIndexConnect(b), UNCHANGED vtx
  PROVE  /\ txindex' \in [Txid -> Block \cup {None}]
         /\ Indexed(b)'
         /\ \A c \in Block : TxsOf(b) \cap TxsOf(c) = {} /\ Indexed(c) => Indexed(c)'
<1>1. \A c \in Block : TxsOf(c)' = TxsOf(c)
  BY Zenon DEF TxsOf
<1>2. \A c \in Block : \A t \in TxsOf(c) : t \in Txid
  BY KeysAreKeys, Zenon DEF DatabaseTypes
<1>3. \A t \in Txid : txindex'[t] = IF t \in TxsOf(b) THEN b ELSE txindex[t]
  BY Zenon DEF TxIndexConnect
<1>4. txindex' \in [Txid -> Block \cup {None}]
  BY Zenon DEF TxIndexConnect, DatabaseTypes
<1>5. Indexed(b)'
  BY <1>1, <1>2, <1>3, Zenon DEF Indexed
<1>6. \A c \in Block : TxsOf(b) \cap TxsOf(c) = {} /\ Indexed(c) => Indexed(c)'
  BY <1>1, <1>2, <1>3, Zenon DEF Indexed
<1> QED
  BY <1>4, <1>5, <1>6, Zenon

\* What a good chain says of two of its blocks
LEMMA ChainApart ==
  ASSUME NEW v \in Contents, NEW t \in Node, GoodChain(v, t), NEW b \in Chain[t], NEW c \in Chain[t], b # c
  PROVE  Apart(v, b, c) /\ Range(v[b]) \cap Range(v[c]) = {}
<1>1. KeysApart(v, t) /\ Unique(v, t)
  BY KeysDiffer, ChainFacts, Zenon
<1> QED
  BY <1>1, Zenon DEF KeysApart, Unique, Apart

\* The checks of ConnectBlock make the block good: what the chain has, IsKnown finds
LEMMA CheckedIsGood ==
  ASSUME IInv, phase = "run", NEW b \in Block, Prev[b] = tip, BlockOK(b, coins, FALSE)
  PROVE  Good(vtx, b)
<1>1. vtx \in Contents /\ coins = Expected(vtx, Prev[b])
  BY Zenon DEF IInv, ChainState, StateOK
<1>2. \A i \in 1..Len(vtx[b]) :
        InputsOK(AfterTxs(Expected(vtx, Prev[b]), vtx[b], nHeight(b))[i - 1], vtx[b][i], nHeight(b))
  BY <1>1, Zenon DEF BlockOK
<1>3. \A t \in TxsOf(b) : \A z \in ZKeysOf(t) : ~IsKnown(z)
  <2>1. \A i \in 1..Len(vtx[b]) : \A z \in ZKeysOf(vtx[b][i]) : ~IsKnown(z)
    BY Zenon DEF BlockOK, ZerocoinOK, ZKeysOf
  <2>2. DOMAIN vtx[b] = 1..Len(vtx[b])
    BY <1>1, ContentsFacts, Zenon
  <2> QED
    BY <2>1, <2>2, Zenon DEF TxsOf, Range
<1>4. ASSUME NEW c \in Chain[tip], NEW s \in TxsOf(c), NEW z \in ZKeysOf(s) PROVE IsKnown(z)
  <2>1. Indexed(c) /\ Recorded(c)
    BY Zenon DEF IInv, Zerocoins
  <2>2. zdb[z] \in TxsOf(c) /\ z \in ZKeysOf(zdb[z])
    BY <2>1, Zenon DEF Recorded
  <2>3. txindex[zdb[z]] = c
    BY <2>1, <2>2, Zenon DEF Indexed
  <2>4. c \in Block
    BY ChainStep, ChainBasic, Zenon
  <2>5. zdb[z] \in Txid
    BY <1>1, <2>2, <2>4, KeysAreKeys, Zenon
  <2> QED
    BY <2>3, <2>5, ConnectionAssumption, Zenon DEF IsKnown, InChain
<1>5. \A s \in Txs(vtx, Prev[b]), t \in Range(vtx[b]) : ZKeysOf(s) \cap ZKeysOf(t) = {}
  BY <1>3, <1>4, Zenon DEF Txs, TxsOf
<1> QED
  BY <1>2, <1>5, Zenon DEF Good

-----------------------------------------------------------------------------
(* Every action keeps the invariant *)

LEMMA InvFacts ==
  ASSUME IInv
  PROVE  /\ DatabaseTypes /\ tip \in Node /\ durable.tip \in Node /\ GoodChain(vtx, tip)
         /\ Chain[tip] \subseteq Block /\ StateOK(vtx, tip, coins, index)
         /\ StateOK(vtx, durable.tip, durable.coins, durable.index)
         /\ Chain[durable.tip] \subseteq Chain[tip]
<1>1. DatabaseTypes /\ tip \in Node /\ durable.tip \in Node /\ GoodChain(vtx, tip)
  BY Zenon DEF IInv, ChainState, StateOK, Zerocoins, DatabaseTypes, Node
<1> QED
  BY <1>1, ChainBasic, Zenon DEF IInv, ChainState

LEMMA ConnectOK ==
  ASSUME IInv, NEW b \in Block, ConnectBlock(b)
  PROVE  IInv'
<1>0. /\ phase = "run" /\ Prev[b] = tip /\ BlockOK(b, coins, FALSE)
      /\ index' = Put(index, b, IndexEntry(b, coins))
      /\ zdb' = ZdbConnect(b) /\ txindex' = TxIndexConnect(b)
      /\ pending' = [tip |-> b, coins |-> BlockCoins(b, coins)] /\ phase' = "connected"
      /\ vtx' = vtx /\ tip' = tip /\ coins' = coins /\ durable' = durable /\ check' = check
  BY Zenon DEF ConnectBlock
<1>1. DatabaseTypes /\ tip \in Node /\ GoodChain(vtx, tip) /\ Chain[tip] \subseteq Block
      /\ StateOK(vtx, tip, coins, index) /\ vtx \in Contents
  BY InvFacts, Zenon DEF DatabaseTypes
<1>2. Good(vtx, b)
  BY <1>0, CheckedIsGood, Zenon
<1>3. IndexEntry(b, coins).undo = UndoOf(vtx, b)
  BY <1>0, <1>1, Zenon DEF IndexEntry, StateOK, UndoOf
<1>4. StateOK(vtx, tip, coins, index')
  BY <1>0, <1>1, <1>3, IndexPut, Zenon
<1>5. StateOK(vtx, b, BlockCoins(b, coins), index')
  BY <1>0, <1>1, <1>2, <1>3, StateConnect, Zenon DEF BlockCoins
<1>6. ChainState'
  BY <1>0, <1>4, Zenon DEF IInv, ChainState
<1>7. PendingOK' /\ CheckOK' /\ phase' \in Phases
  BY <1>0, <1>5, Zenon DEF PendingOK, CheckOK, Verifying, Phases
<1>8. Zerocoins'
  <2>1. b \notin Chain[tip] /\ b \in Chain[b] /\ Chain[b] = {b} \cup Chain[tip]
        /\ GoodChain(vtx, b) /\ b \in Node
    BY <1>0, <1>1, <1>2, ChainStep, ChainAcyclic, GoodStep, Zenon
  <2>2. \A c \in Chain[tip] : c \in Block /\ Apart(vtx, b, c) /\ TxsOf(b) \cap TxsOf(c) = {}
    BY <1>1, <2>1, ChainApart, Zenon DEF TxsOf
  <2>3. \A c \in Chain[tip] : Indexed(c) /\ Recorded(c)
    BY <1>0, Zenon DEF IInv, Zerocoins
  <2>4. zdb' \in [ZKey -> Txid \cup {None}] /\ Recorded(b)' /\ \A c \in Chain[tip] : Recorded(c)'
    BY <1>0, <1>1, <2>2, <2>3, ZdbConnected, Zenon
  <2>5. txindex' \in [Txid -> Block \cup {None}] /\ Indexed(b)' /\ \A c \in Chain[tip] : Indexed(c)'
    BY <1>0, <1>1, <2>2, <2>3, TxIndexConnected, Zenon
  <2>6. pending'.tip = b
    BY <1>0, Zenon
  <2>7. Recorded(pending.tip)' /\ Indexed(pending.tip)'
    BY <2>4, <2>5, <2>6, Zenon DEF Recorded, Indexed, TxsOf
  <2> QED
    BY <1>0, <2>4, <2>5, <2>7, Zenon DEF Zerocoins, Verifying
<1> QED
  BY <1>6, <1>7, <1>8, Zenon DEF IInv

LEMMA DisconnectOK ==
  ASSUME IInv, StakesKept(vtx), DisconnectBlock
  PROVE  IInv'
<1> DEFINE r == DisconnectResult(tip, coins)
<1>1. DatabaseTypes /\ tip \in Node /\ GoodChain(vtx, tip) /\ Chain[tip] \subseteq Block
      /\ StateOK(vtx, tip, coins, index) /\ vtx \in Contents
  BY InvFacts, Zenon DEF DatabaseTypes
<1>2. phase = "run" /\ tip \in Block /\ zdb' = ZdbDisconnect(tip) /\ vtx' = vtx /\ tip' = tip
      /\ coins' = coins /\ index' = index /\ txindex' = txindex /\ durable' = durable /\ check' = check
  BY <1>1, Zenon DEF DisconnectBlock, Node
<1>3. r = [coins |-> Expected(vtx, Prev[tip]), clean |-> TRUE]
      /\ StateOK(vtx, Prev[tip], Expected(vtx, Prev[tip]), index)
  BY <1>1, <1>2, StateDisconnect, Zenon DEF DisconnectResult
<1>4. pending' = [tip |-> Prev[tip], coins |-> r.coins] /\ phase' = "disconnected"
  BY <1>3 DEF DisconnectBlock
<1> HIDE DEF r
<1>5. ChainState'
  BY <1>2, Zenon DEF IInv, ChainState
<1>6. PendingOK' /\ CheckOK' /\ phase' \in Phases
  BY <1>2, <1>3, <1>4, Zenon DEF PendingOK, CheckOK, Verifying, Phases
<1>7. Zerocoins'
  <2>1. tip \in Chain[tip]
    BY <1>2, ChainStep, Zenon
  <2>2. \A c \in Chain[tip] : c \in Block /\ (c # tip => Apart(vtx, tip, c))
    BY <1>1, <2>1, ChainApart, Zenon
  <2>3. \A c \in Chain[tip] : Indexed(c) /\ Recorded(c)
    BY <1>2, Zenon DEF IInv, Zerocoins
  <2>4. zdb' \in [ZKey -> Txid \cup {None}] /\ \A c \in Chain[tip] : c # tip => Recorded(c)'
    BY <1>1, <1>2, <2>2, <2>3, ZdbDisconnected, Zenon
  <2>5. txindex' \in [Txid -> Block \cup {None}] /\ \A c \in Chain[tip] : Indexed(c)'
    BY <1>1, <1>2, <2>3, Zenon DEF Indexed, TxsOf, DatabaseTypes
  <2> QED
    BY <1>2, <1>4, <2>4, <2>5, Zenon DEF Zerocoins, Verifying
<1> QED
  BY <1>5, <1>6, <1>7, Zenon DEF IInv

LEMMA UpdateTipOK ==
  ASSUME IInv, UpdateTip
  PROVE  IInv'
<1>1. DatabaseTypes /\ tip \in Node /\ Chain[tip] \subseteq Block /\ Chain[durable.tip] \subseteq Chain[tip]
      /\ StateOK(vtx, durable.tip, durable.coins, durable.index)
  BY InvFacts, Zenon
<1>2. phase \in {"connected", "disconnected"} /\ tip' = pending.tip /\ coins' = pending.coins
      /\ phase' = "run" /\ vtx' = vtx /\ index' = index /\ zdb' = zdb /\ txindex' = txindex
  BY Zenon DEF UpdateTip
<1>3. StateOK(vtx, tip', coins', index)
  BY <1>2, Zenon DEF IInv, PendingOK
<1>4. \/ durable' = [tip |-> tip', coins |-> coins', index |-> index]
      \/ phase = "connected" /\ durable' = durable
  BY Zenon DEF UpdateTip
<1>5. \/ phase = "connected" /\ tip' \in Block /\ Prev[tip'] = tip
      \/ phase = "disconnected" /\ tip \in Block /\ tip' = Prev[tip]
  BY <1>2, Zenon DEF IInv, PendingOK
<1>6. ChainState'
  <2>1. CASE durable' = [tip |-> tip', coins |-> coins', index |-> index]
    BY <1>1, <1>2, <1>3, <2>1, Zenon DEF ChainState, DatabaseTypes
  <2>2. CASE phase = "connected" /\ durable' = durable
    <3>1. Chain[tip] \subseteq Chain[tip']
      BY <1>5, <2>2, ChainStep, Zenon
    <3> QED
      BY <1>1, <1>2, <1>3, <2>2, <3>1, Zenon DEF ChainState, DatabaseTypes
  <2> QED
    BY <1>4, <2>1, <2>2, Zenon
<1>7. \A c \in Chain[tip'] : Indexed(c) /\ Recorded(c)
  <2>1. CASE phase = "connected"
    <3>1. Chain[tip'] = {tip'} \cup Chain[tip] /\ tip' = pending.tip
      BY <1>2, <1>5, <2>1, ChainStep, Zenon
    <3>2. \A c \in Chain[tip] : Indexed(c) /\ Recorded(c)
      BY <2>1, Zenon DEF IInv, Zerocoins
    <3>3. Indexed(pending.tip) /\ Recorded(pending.tip)
      BY <2>1, Zenon DEF IInv, Zerocoins
    <3> QED
      BY <3>1, <3>2, <3>3, Zenon
  <2>2. CASE phase = "disconnected"
    <3>1. Chain[tip'] \subseteq Chain[tip] /\ tip \notin Chain[tip']
      BY <1>5, <2>2, ChainStep, ChainAcyclic, Zenon
    <3>2. \A c \in Chain[tip] : Indexed(c) /\ (c # tip => Recorded(c))
      BY <2>2, Zenon DEF IInv, Zerocoins
    <3> QED
      BY <3>1, <3>2, Zenon
  <2> QED
    BY <1>2, <2>1, <2>2, Zenon
<1>8. Zerocoins'
  <2>1. \A c \in Chain[tip'] : Indexed(c)' /\ Recorded(c)'
    BY <1>2, <1>7, Zenon DEF Indexed, Recorded, TxsOf
  <2> QED
    BY <1>1, <1>2, <2>1, Zenon DEF Zerocoins, Verifying, DatabaseTypes
<1> QED
  BY <1>2, <1>6, <1>8, Zenon DEF IInv, PendingOK, CheckOK, Verifying, Phases

LEMMA FlushOK ==
  ASSUME IInv, FlushStateToDisk
  PROVE  IInv'
<1>1. phase = "run" /\ durable' = [tip |-> tip, coins |-> coins, index |-> index]
      /\ vtx' = vtx /\ tip' = tip /\ coins' = coins /\ index' = index /\ pending' = pending
      /\ zdb' = zdb /\ txindex' = txindex /\ phase' = phase /\ check' = check
  BY Zenon DEF FlushStateToDisk
<1>2. ChainState'
  BY <1>1, InvFacts, Zenon DEF ChainState, DatabaseTypes
<1>3. Zerocoins'
  <2>1. \A c \in Chain[tip] : Indexed(c)' /\ Recorded(c)'
    BY <1>1, Zenon DEF IInv, Zerocoins, Indexed, Recorded, TxsOf
  <2> QED
    BY <1>1, <2>1, InvFacts, Zenon DEF Zerocoins, Verifying, DatabaseTypes
<1> QED
  BY <1>1, <1>2, <1>3, Zenon DEF IInv, PendingOK, CheckOK, Verifying, Phases

\* After a restart, only blocks that VerifyDB will look at may lack their records
LEMMA RestartOK ==
  ASSUME IInv, Restart
  PROVE  IInv'
<1>1. DatabaseTypes /\ tip \in Node /\ durable.tip \in Node /\ Chain[tip] \subseteq Block
      /\ Chain[durable.tip] \subseteq Chain[tip]
      /\ StateOK(vtx, durable.tip, durable.coins, durable.index)
  BY InvFacts, Zenon
<1>2. tip' = durable.tip /\ coins' = durable.coins /\ index' = durable.index
      /\ phase' = (IF durable.tip = Genesis THEN "run" ELSE "down")
      /\ check' = [at |-> durable.tip, coins |-> durable.coins, clean |-> TRUE]
      /\ vtx' = vtx /\ zdb' = zdb /\ txindex' = txindex /\ durable' = durable
  BY Zenon DEF Restart
<1>3. ChainState'
  BY <1>1, <1>2, Zenon DEF ChainState, DatabaseTypes
<1>4. durable.tip \in Chain[durable.tip] \cup {Genesis} /\ durable.coins = Expected(vtx, durable.tip)
  BY <1>1, ChainStep DEF Node, StateOK
<1>5. PendingOK' /\ CheckOK' /\ phase' \in Phases
  BY <1>2, <1>4, Zenon DEF PendingOK, CheckOK, Verifying, Phases
<1>6. ASSUME NEW b \in Chain[durable.tip], nHeight(b) < nHeight(durable.tip) - CheckDepth
      PROVE  Recorded(b)
  <2>1. b \in Chain[tip] /\ b \in Node /\ durable.tip \in Chain[tip]
    BY <1>1, <1>4, ChainStep, Zenon DEF Node
  <2>2. nHeight(b) \in Nat /\ nHeight(tip) \in Nat /\ nHeight(durable.tip) \in Nat
        /\ nHeight(durable.tip) <= nHeight(tip) /\ CheckDepth \in Nat
    BY <1>1, <2>1, Heights, ConnectionAssumption, Zenon
  <2>3. nHeight(b) < nHeight(tip) - CheckDepth /\ nHeight(b) # nHeight(tip)
    BY <1>6, <2>2
  <2>4. b # tip /\ Far(b)
    BY <2>3, Zenon DEF Far
  <2>5. phase \in Phases
    BY Zenon DEF IInv
  <2> QED
    BY <2>1, <2>4, <2>5, Zenon DEF IInv, Zerocoins, Verifying, Phases
<1>7. Zerocoins'
  <2>1. \A b \in Chain[durable.tip] : Indexed(b)'
    BY <1>1, <1>2, Zenon DEF IInv, Zerocoins, Indexed, TxsOf
  <2>2. \A b \in Chain[durable.tip] : nHeight(b) < nHeight(durable.tip) - CheckDepth => Recorded(b)'
    BY <1>2, <1>6, Zenon DEF Recorded, TxsOf
  <2>3. CASE durable.tip = Genesis
    BY <1>1, <1>2, <2>3, ChainStep, Zenon DEF Zerocoins, DatabaseTypes
  <2>4. CASE durable.tip # Genesis
    <3>1. phase' = "down" /\ check'.at = tip' /\ tip' = durable.tip
      BY <1>2, <2>4, Zenon
    <3>2. \A b \in Chain[tip'] : Far(b)' => Recorded(b)'
      BY <2>2, <3>1, Zenon DEF Far
    <3> QED
      BY <1>1, <1>2, <2>1, <3>1, <3>2, Zenon DEF Zerocoins, DatabaseTypes
  <2> QED
    BY <2>3, <2>4, Zenon
<1> QED
  BY <1>3, <1>5, <1>7, Zenon DEF IInv

LEMMA CheckFacts ==
  ASSUME IInv, Verifying
  PROVE  /\ check.at \in Node /\ check.at \in Chain[tip] \cup {Genesis} /\ durable.tip = tip
         /\ Chain[check.at] \subseteq Chain[tip] /\ check.clean
         /\ StateOK(vtx, check.at, check.coins, index)
<1>1. check.at \in Chain[tip] \cup {Genesis} /\ check.clean /\ durable.tip = tip
      /\ check.coins = Expected(vtx, check.at)
  BY Zenon DEF IInv, CheckOK
<1>2. tip \in Node /\ Chain[tip] \subseteq Block /\ StateOK(vtx, tip, coins, index)
  BY InvFacts, Zenon
<1>3. check.at \in Node /\ Chain[check.at] \subseteq Chain[tip]
  BY <1>1, <1>2, ChainBasic, ChainStep DEF Node
<1> QED
  BY <1>1, <1>2, <1>3, StateBelow, Zenon

LEMMA VerifyDisconnectOK ==
  ASSUME IInv, StakesKept(vtx), VerifyDisconnect
  PROVE  IInv'
<1>0. PICK b \in Block : b = check.at
  BY CheckFacts, Zenon DEF VerifyDisconnect, MoreToCheck, Verifying, Node
<1> DEFINE r == DisconnectResult(b, check.coins)
<1>1. phase = "down" /\ b # Genesis /\ zdb' = ZdbDisconnect(b)
      /\ check' = [at |-> Prev[b], coins |-> r.coins, clean |-> check.clean /\ r.clean]
      /\ vtx' = vtx /\ tip' = tip /\ coins' = coins /\ index' = index /\ pending' = pending
      /\ txindex' = txindex /\ durable' = durable /\ phase' = phase
  BY <1>0, Zenon DEF VerifyDisconnect, MoreToCheck
<1>2. DatabaseTypes /\ vtx \in Contents /\ tip \in Node /\ GoodChain(vtx, tip) /\ Chain[tip] \subseteq Block
  BY InvFacts, Zenon DEF DatabaseTypes
<1>3. b \in Chain[tip] /\ b \in Block /\ durable.tip = tip /\ check.clean
      /\ StateOK(vtx, b, check.coins, index) /\ Chain[b] \subseteq Chain[tip]
  BY <1>0, <1>1, <1>2, CheckFacts, Zenon DEF Verifying
<1>4. r = [coins |-> Expected(vtx, Prev[b]), clean |-> TRUE]
  BY <1>2, <1>3, StateDisconnect, Zenon DEF DisconnectResult
<1> HIDE DEF r
<1>5. check' = [at |-> Prev[b], coins |-> Expected(vtx, Prev[b]), clean |-> TRUE]
  BY <1>1, <1>3, <1>4, Zenon
<1>6. Prev[b] \in Chain[tip] \cup {Genesis} /\ Chain[b] = {b} \cup Chain[Prev[b]]
  <2>1. Chain[b] = {b} \cup Chain[Prev[b]] /\ Prev[b] \in Node
    BY <1>3, ChainStep, Zenon
  <2>2. Prev[b] # Genesis => Prev[b] \in Chain[Prev[b]]
    BY <2>1, ChainStep DEF Node
  <2> QED
    BY <1>3, <2>1, <2>2, Zenon
<1>7. ChainState'
  BY <1>1, Zenon DEF IInv, ChainState
<1>8. PendingOK' /\ CheckOK' /\ phase' \in Phases
  <2>1. phase' = "down" /\ phase' \in Phases
    BY <1>1, Zenon DEF Phases
  <2>2. PendingOK'
    BY <2>1, Zenon DEF PendingOK
  <2>3. check'.at = Prev[b] /\ check'.coins = Expected(vtx, Prev[b]) /\ check'.clean
    BY <1>5, Zenon
  <2>4. vtx' = vtx /\ durable'.tip = tip' /\ Prev[b] \in Chain[tip'] \cup {Genesis}
    BY <1>1, <1>3, <1>6, Zenon
  <2>5. CheckOK'
    BY <2>3, <2>4, Zenon DEF CheckOK
  <2> QED
    BY <2>1, <2>2, <2>5, Zenon
<1>9. Zerocoins'
  <2>1. \A c \in Chain[tip] : c \in Block /\ (c # b => Apart(vtx, b, c))
    BY <1>2, <1>3, ChainApart, Zenon
  <2>2. /\ zdb' \in [ZKey -> Txid \cup {None}]
        /\ Erased(b)'
        /\ \A c \in Block : Apart(vtx, b, c) =>
             (Recorded(c) => Recorded(c)') /\ (Erased(c) => Erased(c)')
    BY <1>1, <1>2, <1>3, ZdbDisconnected, Zenon
  <2>3. \A c \in Chain[tip] : Indexed(c) /\ (Far(c) => Recorded(c)) /\ (c \notin Chain[b] => Erased(c))
    BY <1>0, <1>1, Zenon DEF IInv, Zerocoins, Verifying
  <2>4. ~Far(b)
    <3>1. nHeight(b) \in Nat /\ nHeight(tip) \in Nat /\ CheckDepth \in Nat
      BY <1>2, <1>3, Heights, ConnectionAssumption, Zenon DEF Node
    <3>2. nHeight(b) >= nHeight(tip) - CheckDepth
      BY <1>0, Zenon DEF VerifyDisconnect, MoreToCheck
    <3> QED
      BY <3>1, <3>2 DEF Far
  <2>5. \A c \in Chain[tip] : Indexed(c)' /\ (Far(c)' <=> Far(c))
    BY <1>1, <2>3, Zenon DEF Indexed, TxsOf, Far
  <2>6. \A c \in Chain[tip] : Far(c) => Recorded(c)'
    BY <2>1, <2>2, <2>3, <2>4, Zenon
  <2>7. \A c \in Chain[tip] : c \notin Chain[Prev[b]] => Erased(c)'
    <3>1. \A c : c \notin Chain[Prev[b]] /\ c # b => c \notin Chain[b]
      BY <1>6, Zenon
    <3> QED
      BY <3>1, <2>1, <2>2, <2>3, Zenon
  <2>8. check'.at = Prev[b]
    BY <1>5, Zenon
  <2>9. phase' = "down" /\ tip' = tip /\ txindex' \in [Txid -> Block \cup {None}]
    BY <1>1, <1>2, Zenon DEF DatabaseTypes
  <2> QED
    BY <2>2, <2>5, <2>6, <2>7, <2>8, <2>9, Zenon DEF Zerocoins
<1> QED
  BY <1>7, <1>8, <1>9, Zenon DEF IInv

\* When VerifyDB turns round, every block below it is recorded
LEMMA VerifyTurnOK ==
  ASSUME IInv, VerifyTurn
  PROVE  IInv'
<1>1. phase = "down" /\ ~MoreToCheck /\ phase' = (IF check.clean THEN "up" ELSE "failed")
      /\ vtx' = vtx /\ tip' = tip /\ coins' = coins /\ index' = index /\ pending' = pending
      /\ zdb' = zdb /\ txindex' = txindex /\ durable' = durable /\ check' = check
  BY Zenon DEF VerifyTurn
<1>2. Verifying /\ DatabaseTypes /\ tip \in Node
  BY <1>1, InvFacts, Zenon DEF Verifying
<1>3. check.at \in Node /\ Chain[check.at] \subseteq Chain[tip] /\ check.clean
  BY <1>2, CheckFacts, Zenon
<1>4. phase' = "up"
  BY <1>1, <1>3, Zenon
<1>5. ChainState' /\ PendingOK' /\ phase' \in Phases
  BY <1>1, <1>4, Zenon DEF IInv, ChainState, PendingOK, Phases
<1>6. CheckOK'
  BY <1>1, <1>2, Zenon DEF IInv, CheckOK
<1>7. \A c \in Chain[check.at] : Far(c)
  <2> SUFFICES ASSUME NEW c \in Chain[check.at] PROVE Far(c)
    BY Zenon
  <2>1. check.at # Genesis
    BY ChainStep, Zenon
  <2>2. ~(nHeight(check.at) >= nHeight(tip) - CheckDepth)
    BY <1>1, <2>1, Zenon DEF MoreToCheck
  <2>3. nHeight(c) \in Nat /\ nHeight(check.at) \in Nat /\ nHeight(tip) \in Nat /\ CheckDepth \in Nat
        /\ nHeight(c) <= nHeight(check.at)
    BY <1>2, <1>3, Heights, ChainBasic, ConnectionAssumption, Zenon DEF Node
  <2> QED
    BY <2>2, <2>3 DEF Far
<1>8. Zerocoins'
  <2>1. \A c \in Chain[tip] : /\ Indexed(c) /\ (Far(c) => Recorded(c))
                              /\ (c \notin Chain[check.at] => Erased(c))
    BY <1>2, Zenon DEF IInv, Zerocoins
  <2>2. \A c \in Chain[tip] : /\ Indexed(c)' /\ (Far(c)' <=> Far(c)) /\ (Recorded(c)' <=> Recorded(c))
                              /\ (Erased(c)' <=> Erased(c))
    BY <1>1, <2>1, Zenon DEF Indexed, Recorded, Erased, TxsOf, Far
  <2> QED
    BY <1>1, <1>2, <1>4, <1>7, <2>1, <2>2, Zenon DEF Zerocoins, DatabaseTypes
<1> QED
  BY <1>5, <1>6, <1>8, Zenon DEF IInv

\* VerifyDB finds the zerocoins of the blocks it reconnects erased, and the blocks as
\* good as they were
LEMMA VerifyConnectOK ==
  ASSUME IInv, NEW b \in Block, VerifyConnect(b)
  PROVE  IInv'
<1>1. phase = "up" /\ b \in Chain[tip] /\ Prev[b] = check.at /\ vtx' = vtx /\ tip' = tip
      /\ coins' = coins /\ pending' = pending /\ durable' = durable
  BY Zenon DEF VerifyConnect
<1>2. DatabaseTypes /\ vtx \in Contents /\ tip \in Node /\ GoodChain(vtx, tip) /\ Chain[tip] \subseteq Block
      /\ StateOK(vtx, tip, coins, index)
      /\ StateOK(vtx, durable.tip, durable.coins, durable.index)
  BY InvFacts, Zenon DEF DatabaseTypes
<1>3. Verifying
  BY <1>1, Zenon DEF Verifying
<1>4. /\ StateOK(vtx, Prev[b], check.coins, index) /\ check.coins = Expected(vtx, Prev[b])
      /\ durable.tip = tip /\ check.clean
  BY <1>1, <1>3, CheckFacts, Zenon DEF StateOK
<1>5. Good(vtx, b) /\ b \notin Chain[Prev[b]] /\ Chain[b] = {b} \cup Chain[Prev[b]]
  BY <1>1, <1>2, ChainStep, ChainAcyclic, Zenon DEF GoodChain
<1>6. \A c \in Chain[tip] : /\ Indexed(c) /\ (Far(c) => Recorded(c))
                            /\ (c \in Chain[Prev[b]] => Recorded(c))
                            /\ (c \notin Chain[Prev[b]] => Erased(c))
  BY <1>1, <1>3, Zenon DEF IInv, Zerocoins
<1>7. BlockOK(b, check.coins, TRUE)
  <2> SUFFICES ASSUME NEW i \in 1..Len(vtx[b])
               PROVE  /\ InputsOK(AfterTxs(check.coins, vtx[b], nHeight(b))[i - 1], vtx[b][i], nHeight(b))
                      /\ ZerocoinOK(vtx[b][i], nHeight(b), TRUE)
    BY Zenon DEF BlockOK
  <2> DEFINE t == vtx[b][i]
  <2>1. t \in TxsOf(b)
    BY <1>2, ContentsFacts DEF TxsOf, Range
  <2>2. InputsOK(AfterTxs(check.coins, vtx[b], nHeight(b))[i - 1], t, nHeight(b))
    BY <1>4, <1>5, Zenon DEF Good
  <2>3. \A z \in ZKeysOf(t) : ~IsKnown(z)
    BY <1>1, <1>5, <1>6, <2>1, Zenon DEF Erased, IsKnown
  <2>4. TxData[t].serials # {} => txindex[t] = b
    BY <1>1, <1>6, <2>1, Zenon DEF Indexed, ZKeysOf
  <2>5. nHeight(b) <= nHeight(b)
    BY Heights DEF Node
  <2> HIDE DEF t
  <2>6. ZerocoinOK(t, nHeight(b), TRUE)
    BY <2>3, <2>4, <2>5, Zenon DEF ZerocoinOK, ZKeysOf
  <2> QED
    BY <2>2, <2>6, Zenon DEF t
<1>8. /\ check' = [at |-> b, coins |-> BlockCoins(b, check.coins), clean |-> check.clean]
      /\ index' = Put(index, b, IndexEntry(b, check.coins))
      /\ zdb' = ZdbConnect(b) /\ txindex' = TxIndexConnect(b) /\ phase' = phase
  BY <1>7, Zenon DEF VerifyConnect
<1>9. IndexEntry(b, check.coins).undo = UndoOf(vtx, b)
  BY <1>2, <1>4, Zenon DEF IndexEntry, StateOK, UndoOf
<1>10. StateOK(vtx, tip, coins, index')
  BY <1>2, <1>8, <1>9, IndexPut, Zenon
<1>11. BlockCoins(b, check.coins) = Expected(vtx, b)
  <2>1. GoodChain(vtx, b)
    BY <1>4, <1>5, GoodStep, Zenon DEF StateOK
  <2> QED
    BY <1>2, <1>4, <2>1, BlockConnected, Zenon DEF BlockCoins
<1>12. check'.at = b /\ check'.coins = Expected(vtx, b) /\ check'.clean
  BY <1>4, <1>8, <1>11, Zenon
<1>13. ChainState'
  BY <1>1, <1>2, <1>10, Zenon DEF IInv, ChainState
<1>14. PendingOK' /\ CheckOK' /\ phase' \in Phases
  BY <1>1, <1>4, <1>8, <1>12, Zenon DEF PendingOK, CheckOK, Verifying, Phases
<1>15. Zerocoins'
  <2>1. \A c \in Chain[tip] : c \in Block /\ (c # b => Apart(vtx, b, c) /\ TxsOf(b) \cap TxsOf(c) = {})
    BY <1>1, <1>2, ChainApart, Zenon DEF TxsOf
  <2>2. /\ zdb' \in [ZKey -> Txid \cup {None}]
        /\ Recorded(b)'
        /\ \A c \in Block : Apart(vtx, b, c) =>
             (Recorded(c) => Recorded(c)') /\ (Erased(c) => Erased(c)')
    BY <1>1, <1>2, <1>8, ZdbConnected, Zenon
  <2>3. /\ txindex' \in [Txid -> Block \cup {None}]
        /\ Indexed(b)'
        /\ \A c \in Block : TxsOf(b) \cap TxsOf(c) = {} /\ Indexed(c) => Indexed(c)'
    BY <1>1, <1>2, <1>8, TxIndexConnected, Zenon
  <2>4. \A c \in Chain[tip] : Indexed(c)' /\ (Far(c)' <=> Far(c))
    <3>1. \A c \in Chain[tip] : Far(c)' <=> Far(c)
      BY <1>1, Zenon DEF Far
    <3> QED
      BY <1>6, <2>1, <2>3, <3>1, Zenon
  <2>5. \A c \in Chain[tip] : (Far(c) => Recorded(c)') /\ (c \in Chain[b] => Recorded(c)')
    BY <1>5, <1>6, <2>1, <2>2, Zenon
  <2>6. \A c \in Chain[tip] : c \notin Chain[b] => Erased(c)'
    BY <1>5, <1>6, <2>1, <2>2, Zenon
  <2> QED
    BY <1>1, <1>8, <1>12, <2>2, <2>3, <2>4, <2>5, <2>6, Zenon DEF Zerocoins, Verifying
<1> QED
  BY <1>13, <1>14, <1>15, Zenon DEF IInv

LEMMA VerifyDoneOK ==
  ASSUME IInv, VerifyDone
  PROVE  IInv'
<1>1. phase = "up" /\ check.at = tip /\ phase' = "run"
      /\ vtx' = vtx /\ tip' = tip /\ coins' = coins /\ index' = index /\ pending' = pending
      /\ zdb' = zdb /\ txindex' = txindex /\ durable' = durable
  BY Zenon DEF VerifyDone
<1>2. ChainState'
  BY <1>1, Zenon DEF IInv, ChainState
<1>3. \A c \in Chain[tip] : Indexed(c)' /\ Recorded(c)'
  BY <1>1, Zenon DEF IInv, Zerocoins, Indexed, Recorded, TxsOf
<1>4. Zerocoins'
  BY <1>1, <1>3, InvFacts, Zenon DEF Zerocoins, Verifying, DatabaseTypes
<1> QED
  BY <1>1, <1>2, <1>4, Zenon DEF IInv, PendingOK, CheckOK, Verifying, Phases

LEMMA StutterOK ==
  ASSUME IInv, UNCHANGED vars
  PROVE  IInv'
<1>1. vtx' = vtx /\ tip' = tip /\ coins' = coins /\ index' = index /\ pending' = pending
      /\ zdb' = zdb /\ txindex' = txindex /\ durable' = durable /\ phase' = phase /\ check' = check
  BY Zenon DEF vars
<1>2. ChainState' /\ PendingOK' /\ CheckOK' /\ phase' \in Phases
  BY <1>1, Zenon DEF IInv, ChainState, PendingOK, CheckOK, Verifying
<1>3. \A c : /\ (Indexed(c)' <=> Indexed(c)) /\ (Recorded(c)' <=> Recorded(c))
             /\ (Erased(c)' <=> Erased(c)) /\ (Far(c)' <=> Far(c))
  BY <1>1, Zenon DEF Indexed, Recorded, Erased, Far, TxsOf
<1>4. (Indexed(pending.tip)' <=> Indexed(pending.tip)) /\ (Recorded(pending.tip)' <=> Recorded(pending.tip))
  BY <1>1, Zenon DEF Indexed, Recorded, TxsOf
<1>5. Zerocoins
  BY Zenon DEF IInv
<1>6. Zerocoins'
  BY <1>1, <1>3, <1>4, <1>5, Zenon DEF Zerocoins, Verifying
<1> QED
  BY <1>2, <1>6, Zenon DEF IInv

\* The invariant holds in every state of the node that keeps some output of each
\* coinstake: vtx never changes, so the hypothesis is about the blocks alone
THEOREM Invariance == Spec /\ StakesKept(vtx) => [](IInv /\ StakesKept(vtx))
<1>1. Init /\ StakesKept(vtx) => IInv /\ StakesKept(vtx)
  BY InitOK, Zenon
<1>2. IInv /\ StakesKept(vtx) /\ [Next]_vars => (IInv /\ StakesKept(vtx))'
  <2> SUFFICES ASSUME IInv, StakesKept(vtx), [Next]_vars PROVE (IInv /\ StakesKept(vtx))'
    BY Zenon
  <2>1. vtx' = vtx
    BY Zenon DEF Next, vars, ConnectBlock, VerifyConnect, DisconnectBlock, UpdateTip, FlushStateToDisk,
           Restart, VerifyDisconnect, VerifyTurn, VerifyDone
  <2>2. IInv'
    <3>1. CASE UNCHANGED vars
      BY <3>1, StutterOK, Zenon
    <3>2. ASSUME NEW b \in Block, ConnectBlock(b) PROVE IInv'
      BY <3>2, ConnectOK, Zenon
    <3>3. ASSUME NEW b \in Block, VerifyConnect(b) PROVE IInv'
      BY <3>3, VerifyConnectOK, Zenon
    <3>4. CASE DisconnectBlock
      BY <3>4, DisconnectOK, Zenon
    <3>5. CASE UpdateTip
      BY <3>5, UpdateTipOK, Zenon
    <3>6. CASE FlushStateToDisk
      BY <3>6, FlushOK, Zenon
    <3>7. CASE Restart
      BY <3>7, RestartOK, Zenon
    <3>8. CASE VerifyDisconnect
      BY <3>8, VerifyDisconnectOK, Zenon
    <3>9. CASE VerifyTurn
      BY <3>9, VerifyTurnOK, Zenon
    <3>10. CASE VerifyDone
      BY <3>10, VerifyDoneOK, Zenon
    <3> QED
      BY <3>1, <3>2, <3>3, <3>4, <3>5, <3>6, <3>7, <3>8, <3>9, <3>10, Zenon DEF Next
  <2> QED
    BY <2>1, <2>2, Zenon
<1> QED
  BY <1>1, <1>2, PTL DEF Spec

\* The coins in memory and on disk are those of their chains, whatever was connected,
\* disconnected and interrupted before (ConnectBlock, DisconnectBlock, FlushStateToDisk)
THEOREM CoinsAreTheChains == Spec /\ StakesKept(vtx) => []CoinsMatchChain
<1>1. IInv => CoinsMatchChain
  BY ExpectedIsExpected, Zenon DEF IInv, ChainState, StateOK, CoinsMatchChain
<1> QED
  BY <1>1, Invariance, PTL

\* DisconnectBlock always has the undo data of the tip, runs clean and leaves the coins
\* of the parent
THEOREM TipIsUndone == Spec /\ StakesKept(vtx) => []TipCanBeUndone
<1>1. IInv /\ StakesKept(vtx) => TipCanBeUndone
  <2> SUFFICES ASSUME IInv, StakesKept(vtx), tip # Genesis
               PROVE  /\ tip \in DOMAIN index
                      /\ DisconnectResult(tip, coins).clean
                      /\ DisconnectResult(tip, coins).coins = ExpectedCoins(Prev[tip])
    BY Zenon DEF TipCanBeUndone
  <2>1. vtx \in Contents /\ tip \in Block /\ StateOK(vtx, tip, coins, index)
    BY InvFacts, Zenon DEF DatabaseTypes, Node
  <2>2. DisconnectResult(tip, coins) = [coins |-> Expected(vtx, Prev[tip]), clean |-> TRUE]
    BY <2>1, StateDisconnect, Zenon DEF DisconnectResult
  <2>3. tip \in DOMAIN index
    BY <2>1, ChainStep, Zenon DEF StateOK
  <2> QED
    BY <2>2, <2>3, ExpectedIsExpected
<1> QED
  BY <1>1, Invariance, PTL

\* Whenever the node runs, zerocoinDB and the transaction index lead from every serial and
\* mint of the active chain to its block, although a crash may separate their writes from
\* those of the chain state (WriteCoinSpendBatch, WriteTxIndex, VerifyDB)
THEOREM ZerocoinsAreKnown == Spec /\ StakesKept(vtx) => []ZerocoinsOfChainAreKnown
<1>1. IInv => ZerocoinsOfChainAreKnown
  <2> SUFFICES ASSUME IInv, phase = "run", NEW t \in TxsIn(tip), NEW z \in ZKeysOf(t)
               PROVE  IsKnown(z)
    BY Zenon DEF ZerocoinsOfChainAreKnown
  <2>1. PICK c \in Chain[tip] : t \in TxsOf(c)
    BY Zenon DEF TxsIn
  <2>2. Indexed(c) /\ Recorded(c)
    BY Zenon DEF IInv, Zerocoins
  <2>3. zdb[z] \in TxsOf(c) /\ z \in ZKeysOf(zdb[z])
    BY <2>1, <2>2, Zenon DEF Recorded
  <2>4. txindex[zdb[z]] = c
    BY <2>2, <2>3, Zenon DEF Indexed
  <2>5. c \in Block /\ vtx \in Contents
    BY InvFacts, Zenon DEF DatabaseTypes
  <2>6. zdb[z] \in Txid
    BY <2>3, <2>5, KeysAreKeys, Zenon
  <2> QED
    BY <2>4, <2>6, ConnectionAssumption, Zenon DEF IsKnown, InChain
<1> QED
  BY <1>1, Invariance, PTL

\* No serial is spent twice in the active chain and no coin minted in two of its blocks:
\* the look-ups of ConnectBlock in zerocoinDB are enough, across reorganisations and crashes
THEOREM SerialsSpentOnce == Spec /\ StakesKept(vtx) => []NoSerialSpentTwice
<1>1. IInv => NoSerialSpentTwice
  <2> SUFFICES ASSUME IInv PROVE NoSerialSpentTwice
    BY Zenon
  <2>1. vtx \in Contents /\ tip \in Node /\ GoodChain(vtx, tip) /\ Chain[tip] \subseteq Block
    BY InvFacts, Zenon DEF DatabaseTypes
  <2>2. KeysApart(vtx, tip)
    BY <2>1, KeysDiffer, Zenon
  <2>3. ASSUME NEW s \in TxsIn(tip), NEW t \in TxsIn(tip), s # t
        PROVE  TxData[s].serials \cap TxData[t].serials = {}
    <3>1. PICK b \in Chain[tip] : s \in TxsOf(b)
      BY Zenon DEF TxsIn
    <3>2. PICK c \in Chain[tip] : t \in TxsOf(c)
      BY Zenon DEF TxsIn
    <3>3. CASE b # c
      BY <2>2, <3>1, <3>2, <3>3, Zenon DEF KeysApart, TxsOf, ZKeysOf
    <3>4. CASE b = c
      <4>1. DOMAIN vtx[b] = 1..Len(vtx[b]) /\ b \in Block
        BY <2>1, ContentsFacts, Zenon
      <4>2. PICK i \in 1..Len(vtx[b]) : vtx[b][i] = s
        BY <3>1, <4>1, Zenon DEF TxsOf, Range
      <4>3. PICK j \in 1..Len(vtx[b]) : vtx[b][j] = t
        BY <3>2, <3>4, <4>1, Zenon DEF TxsOf, Range
      <4> QED
        BY <2>1, <2>3, <4>1, <4>2, <4>3, ContentsFacts, Zenon
    <3> QED
      BY <3>3, <3>4, Zenon
  <2>4. \A b, c \in Chain[tip] : b # c =>
          \A s \in TxsOf(b), t \in TxsOf(c) : ZKeysOf(s) \cap ZKeysOf(t) = {}
    BY <2>2, Zenon DEF KeysApart, TxsOf
  <2> QED
    BY <2>3, <2>4, Zenon DEF NoSerialSpentTwice
<1> QED
  BY <1>1, Invariance, PTL

\* VerifyDB accepts whatever databases the node itself left behind, at whatever moment
\* it was stopped
THEOREM StartupAccepts == Spec /\ StakesKept(vtx) => []StartupSucceeds
<1>1. IInv => StartupSucceeds
  BY Zenon DEF IInv, Phases, StartupSucceeds
<1> QED
  BY <1>1, Invariance, PTL

-----------------------------------------------------------------------------
(* The money supply *)

\* What the coins of a view add up to
Worth(c) == Total([t \in Txid |-> Total(c[t].vout)])

\* What the transactions of S burn, less the zerocoins they redeem
Burnt(S) == Total([t \in S |-> TxData[t].burnt - TxData[t].redeemed])

\* What nMoneySupply of block b should be
Supply(v, b) == Worth(Expected(v, b)) + Burnt(Txs(v, b))

LEMMA TxTypes ==
  ASSUME NEW t \in Txid
  PROVE  /\ TxData[t].burnt \in Int /\ TxData[t].redeemed \in Int
         /\ TxData[t].burnt - TxData[t].redeemed \in Int
         /\ Summable(TxData[t].vout)
         /\ HasInputs(t) => TxData[t].redeemed = 0
<1>1. /\ TxData[t].vout \in [DOMAIN TxData[t].vout -> Int] /\ IsFiniteSet(DOMAIN TxData[t].vout)
      /\ TxData[t].burnt \in Int /\ TxData[t].redeemed \in Int
      /\ TxData[t].serials = {} => TxData[t].redeemed = 0
  BY TxAssumption, Zenon
<1>2. \A n \in DOMAIN TxData[t].vout : TxData[t].vout[n] \in Int
  BY <1>1, Zenon
<1>3. TxData[t].burnt - TxData[t].redeemed \in Int
  BY <1>1
<1> QED
  BY <1>1, <1>2, <1>3, Zenon DEF Summable, HasInputs

LEMMA LeftAt == \A t, h, L : \A n \in L : Left(t, h, L).vout[n] = TxData[t].vout[n]
BY Zenon DEF Left

\* What is left of a transaction has finitely many outputs
LEMMA LeftSummable ==
  \A t \in Txid : \A h : \A L \in SUBSET DOMAIN TxData[t].vout : Summable(Left(t, h, L).vout)
<1> SUFFICES ASSUME NEW t \in Txid, NEW h, NEW L \in SUBSET DOMAIN TxData[t].vout
             PROVE  Summable(Left(t, h, L).vout)
  BY Zenon
<1>1. IsFiniteSet(L) /\ \A n \in L : TxData[t].vout[n] \in Int
  BY TxTypes, FS_Subset, Zenon DEF Summable
<1>2. DOMAIN Left(t, h, L).vout = L
  BY LeftDomain, Zenon
<1>3. \A n \in L : Left(t, h, L).vout[n] = TxData[t].vout[n]
  BY LeftAt
<1>4. \A n \in L : Left(t, h, L).vout[n] \in Int
  BY <1>1, <1>3, Zenon
<1>5. IsFiniteSet(DOMAIN Left(t, h, L).vout)
  BY <1>1, <1>2, Zenon
<1> QED
  BY <1>2, <1>4, <1>5, Zenon DEF Summable

LEMMA EmptyValues == Summable(Empty.vout) /\ Total(Empty.vout) = 0
BY EmptyDomain, TotalEmpty, Zenon

\* A view with coins that can be added up
Countable(c) == \A t \in Txid : Summable(c[t].vout)

LEMMA WorthTerms ==
  ASSUME NEW c, Countable(c)
  PROVE  /\ Summable([t \in Txid |-> Total(c[t].vout)]) /\ Worth(c) \in Int
         /\ \A t \in Txid : Total(c[t].vout) \in Int
<1> DEFINE f == [t \in Txid |-> Total(c[t].vout)]
<1>1. \A t \in Txid : Total(c[t].vout) \in Int
  BY TotalType, Zenon DEF Countable
<1>2. Summable(f)
  BY <1>1, ConnectionAssumption, Zenon DEF Summable
<1> HIDE DEF f
<1>3. Total(f) \in Int
  BY <1>2, TotalType, Zenon
<1> QED
  BY <1>1, <1>2, <1>3, Zenon DEF Worth, f

\* The coins of one transaction change
LEMMA WorthChange ==
  ASSUME NEW c, NEW d, Countable(c), NEW x \in Txid, Summable(d[x].vout),
         \A y \in Txid \ {x} : d[y].vout = c[y].vout
  PROVE  Worth(d) = (Worth(c) - Total(c[x].vout)) + Total(d[x].vout)
<1>1. PICK f : f = [t \in Txid |-> Total(c[t].vout)]
  BY Zenon
<1>2. PICK g : g = [t \in Txid |-> Total(d[t].vout)]
  BY Zenon
<1>3. Summable(f)
  BY <1>1, WorthTerms, Zenon
<1>4. DOMAIN f = Txid /\ DOMAIN g = DOMAIN f /\ x \in DOMAIN f
  BY <1>1, <1>2, Zenon
<1>5. f[x] = Total(c[x].vout) /\ g[x] = Total(d[x].vout) /\ g[x] \in Int
  BY <1>1, <1>2, TotalType, Zenon
<1>6. \A y \in DOMAIN f \ {x} : g[y] = f[y]
  BY <1>1, <1>2, <1>4, Zenon
<1>7. Total(g) = Total(f) - f[x] + g[x]
  BY ONLY <1>3, <1>4, <1>5, <1>6, TotalChange, Zenon
<1> QED
  BY <1>1, <1>2, <1>5, <1>7, Zenon DEF Worth

LEMMA MidCountable ==
  ASSUME NEW S \in SUBSET Txid, NEW ht, NEW t, NEW j
  PROVE  Countable(Mid(S, ht, t, j)) /\ Countable(View(S, ht))
<1> SUFFICES ASSUME NEW x \in Txid
             PROVE  Summable(Mid(S, ht, t, j)[x].vout) /\ Summable(View(S, ht)[x].vout)
  BY Zenon DEF Countable
<1>1. Rest(S, t, j, x) \in SUBSET DOMAIN TxData[x].vout /\ Unspent(S, x) \in SUBSET DOMAIN TxData[x].vout
  BY Zenon DEF Rest, Unspent
<1>2. /\ Summable(Left(x, ht[x], Rest(S, t, j, x)).vout)
      /\ Summable(Left(x, ht[x], Unspent(S, x)).vout)
  BY <1>1, LeftSummable, Zenon
<1> QED
  BY <1>2, EmptyValues, Zenon DEF Mid, View

\* The value of input k of t
InValue(t, k) == TxData[Inputs(t)[k].hash].vout[Inputs(t)[k].n]

\* An input takes the value of an output
LEMMA InputWorth ==
  ASSUME NEW S \in SUBSET Txid, NEW ht, NEW t \in Txid, There(S, t), NEW i \in Nat,
         i + 1 \in 1..Len(Inputs(t))
  PROVE  /\ InValue(t, i + 1) \in Int
         /\ Worth(Mid(S, ht, t, i + 1)) = Worth(Mid(S, ht, t, i)) - InValue(t, i + 1)
<1>1. PICK out : out = Inputs(t)[i + 1]
  BY Zenon
<1>2. Takes(S, t, i, i + 1, out)
  BY <1>1, RestStep, Zenon
<1>3. PICK x : x = out.hash
  BY Zenon
<1>4. PICK c : c = Mid(S, ht, t, i)
  BY Zenon
<1>5. PICK d : d = Mid(S, ht, t, i + 1)
  BY Zenon
<1>6. x \in Txid /\ x \in S /\ \A y \in Txid \ {x} : d[y].vout = c[y].vout
  BY <1>2, <1>3, <1>4, <1>5, Zenon DEF Takes, Mid
<1>7. PICK f : f = d[x].vout
  BY Zenon
<1>8. PICK g : g = c[x].vout
  BY Zenon
<1>9. c[x] = Left(x, ht[x], Rest(S, t, i, x)) /\ d[x] = Left(x, ht[x], Rest(S, t, i + 1, x))
  BY <1>4, <1>5, <1>6, Zenon DEF Mid
<1>10. /\ Rest(S, t, i, x) \in SUBSET DOMAIN TxData[x].vout
       /\ Rest(S, t, i + 1, x) \in SUBSET DOMAIN TxData[x].vout
  BY Zenon DEF Rest, Unspent
<1>11. Summable(f) /\ Summable(g)
  BY <1>6, <1>7, <1>8, <1>9, <1>10, LeftSummable, Zenon
<1>12. DOMAIN f = Rest(S, t, i + 1, x) /\ DOMAIN g = Rest(S, t, i, x)
  <2>1. DOMAIN Left(x, ht[x], Rest(S, t, i + 1, x)).vout = Rest(S, t, i + 1, x)
    BY LeftDomain, Zenon
  <2>2. DOMAIN Left(x, ht[x], Rest(S, t, i, x)).vout = Rest(S, t, i, x)
    BY LeftDomain, Zenon
  <2> QED
    BY <1>7, <1>8, <1>9, <2>1, <2>2, Zenon
<1>13. PICK n : n = out.n
  BY Zenon
<1>14. n \notin DOMAIN f /\ DOMAIN g = DOMAIN f \cup {n} /\ n \in DOMAIN g
  <2>1. n \in Rest(S, t, i, x) /\ Rest(S, t, i + 1, x) = Rest(S, t, i, x) \ {n}
    BY <1>2, <1>3, <1>13, Zenon DEF Takes
  <2> QED
    BY <1>12, <2>1, Zenon
<1>15. g[n] = InValue(t, i + 1) /\ \A m \in DOMAIN f : g[m] = f[m]
  <2>1. \A m \in DOMAIN g : g[m] = TxData[x].vout[m]
    <3>1. \A m \in Rest(S, t, i, x) : Left(x, ht[x], Rest(S, t, i, x)).vout[m] = TxData[x].vout[m]
      BY LeftAt
    <3> QED
      BY <1>8, <1>9, <1>12, <3>1, Zenon
  <2>2. \A m \in DOMAIN f : f[m] = TxData[x].vout[m]
    <3>1. \A m \in Rest(S, t, i + 1, x) : Left(x, ht[x], Rest(S, t, i + 1, x)).vout[m] = TxData[x].vout[m]
      BY LeftAt
    <3> QED
      BY <1>7, <1>9, <1>12, <3>1, Zenon
  <2>3. \A m \in DOMAIN f : g[m] = f[m]
    BY <1>14, <2>1, <2>2, Zenon
  <2>4. g[n] = InValue(t, i + 1)
    BY <1>1, <1>3, <1>13, <1>14, <2>1, Zenon DEF InValue
  <2> QED
    BY <2>3, <2>4, Zenon
<1>16. Total(f) \in Int /\ Total(g) = Total(f) + g[n] /\ g[n] \in Int
  <2>1. g[n] \in Int
    BY <1>11, <1>14, Zenon DEF Summable
  <2>2. \A m \in DOMAIN f : g[m] = f[m]
    BY <1>15, Zenon
  <2>3. Total(f) \in Int /\ Total(g) = Total(f) + g[n]
    BY ONLY <1>11, <1>14, <2>1, <2>2, TotalInsert, Zenon
  <2> QED
    BY <2>1, <2>3, Zenon
<1>17. Countable(c)
  BY <1>4, MidCountable, Zenon
<1>18. Worth(d) = (Worth(c) - Total(g)) + Total(f) /\ Worth(c) \in Int
  BY <1>6, <1>7, <1>8, <1>11, <1>17, WorthChange, WorthTerms, Zenon
<1>19. Worth(d) = Worth(c) - InValue(t, i + 1)
  BY <1>15, <1>16, <1>18
<1> QED
  BY <1>4, <1>5, <1>15, <1>16, <1>19, Zenon

LEMMA InputsWorth ==
  ASSUME NEW S \in SUBSET Txid, NEW ht, NEW t \in Txid, There(S, t)
  PROVE  \A j \in 0..Len(Inputs(t)) :
           /\ Summable([k \in 1..j |-> InValue(t, k)])
           /\ Worth(Mid(S, ht, t, j)) = Worth(View(S, ht)) - Total([k \in 1..j |-> InValue(t, k)])
<1> DEFINE N == Len(Inputs(t))
           In(j) == [k \in 1..j |-> InValue(t, k)]
           P(j) == Summable(In(j)) /\ Worth(Mid(S, ht, t, j)) = Worth(View(S, ht)) - Total(In(j))
           T == {j \in Nat : j \in 0..N => P(j)}
<1>0. N \in Nat /\ Worth(View(S, ht)) \in Int /\ \A j \in Nat : Worth(Mid(S, ht, t, j)) \in Int
  BY InputsFacts, MidCountable, WorthTerms, Zenon
<1>1. 0 \in T
  <2>1. \A x : Rest(S, t, 0, x) = Unspent(S, x)
    BY DEF Rest
  <2>2. View(S, ht) = Mid(S, ht, t, 0)
    BY <2>1, Zenon DEF View, Mid
  <2>3. DOMAIN In(0) = {}
    OBVIOUS
  <2>4. Summable(In(0)) /\ Total(In(0)) = 0
    BY <2>3, TotalEmpty, Zenon
  <2> HIDE DEF In
  <2>5. Worth(View(S, ht)) = Worth(View(S, ht)) - Total(In(0))
    BY <1>0, <2>4
  <2>6. P(0)
    BY <2>2, <2>4, <2>5, Zenon
  <2> HIDE DEF P
  <2> QED
    BY <2>6
<1>2. ASSUME NEW i \in Nat, i \in T PROVE i + 1 \in T
  <2> SUFFICES ASSUME i + 1 \in 0..N PROVE P(i + 1)
    OBVIOUS
  <2>1. i \in 0..N /\ i + 1 \in 1..N /\ i + 1 \notin 1..i /\ 1..(i + 1) = (1..i) \cup {i + 1}
    BY <1>0
  <2>2. P(i)
    BY <1>2, <2>1, Zenon
  <2>3. /\ InValue(t, i + 1) \in Int
        /\ Worth(Mid(S, ht, t, i + 1)) = Worth(Mid(S, ht, t, i)) - InValue(t, i + 1)
    <3>1. i + 1 \in 1..Len(Inputs(t))
      BY <2>1, Zenon
    <3> QED
      BY ONLY <3>1, S \in SUBSET Txid, t \in Txid, There(S, t), i \in Nat, InputWorth, Zenon
  <2>4. PICK f : f = In(i)
    BY Zenon
  <2>5. PICK g : g = In(i + 1)
    BY Zenon
  <2>6. PICK n : n = i + 1
    BY Zenon
  <2>7. n \notin DOMAIN f /\ DOMAIN g = DOMAIN f \cup {n} /\ (\A k \in DOMAIN f : g[k] = f[k])
    BY <2>1, <2>4, <2>5, <2>6, Zenon
  <2>8. /\ g[n] = InValue(t, i + 1)
        /\ Summable(g) /\ Total(f) \in Int /\ Total(g) = Total(f) + g[n]
    <3>1. g[n] = InValue(t, i + 1)
      BY <2>1, <2>5, <2>6, Zenon
    <3>2. g[n] \in Int /\ Summable(f)
      BY <2>2, <2>3, <2>4, <3>1, Zenon
    <3>3. Summable(g) /\ Total(f) \in Int /\ Total(g) = Total(f) + g[n]
      BY ONLY <2>7, <3>2, TotalInsert, Zenon
    <3> QED
      BY <3>1, <3>3, Zenon
  <2>9. Worth(Mid(S, ht, t, i)) = Worth(View(S, ht)) - Total(f)
    BY <2>2, <2>4, Zenon
  <2> HIDE DEF In
  <2>10. Worth(Mid(S, ht, t, i + 1)) = Worth(View(S, ht)) - Total(g)
    BY <1>0, <2>3, <2>8, <2>9
  <2> QED
    BY <2>5, <2>8, <2>10, Zenon
<1> HIDE DEF T, P
<1>3. Nat \subseteq T
  BY <1>1, <1>2, NatInd, Zenon
<1>4. \A j \in 0..N : j \in Nat
  BY <1>0
<1>5. \A j \in 0..N : P(j)
  BY <1>3, <1>4, Zenon DEF T
<1> QED
  BY <1>5, Zenon DEF P

LEMMA BurntTerms ==
  ASSUME NEW S \in SUBSET Txid
  PROVE  Summable([t \in S |-> TxData[t].burnt - TxData[t].redeemed]) /\ Burnt(S) \in Int
<1> DEFINE f == [t \in S |-> TxData[t].burnt - TxData[t].redeemed]
<1>1. IsFiniteSet(S)
  BY ConnectionAssumption, FS_Subset, Zenon
<1>2. Summable(f)
  BY <1>1, TxTypes, Zenon DEF Summable
<1> HIDE DEF f
<1>3. Total(f) \in Int
  BY <1>2, TotalType, Zenon
<1> QED
  BY <1>2, <1>3, Zenon DEF Burnt, f

LEMMA BurntStep ==
  ASSUME NEW S \in SUBSET Txid, NEW t \in Txid \ S
  PROVE  Burnt(S \cup {t}) = Burnt(S) + (TxData[t].burnt - TxData[t].redeemed)
<1>1. PICK f : f = [x \in S |-> TxData[x].burnt - TxData[x].redeemed]
  BY Zenon
<1>2. PICK g : g = [x \in S \cup {t} |-> TxData[x].burnt - TxData[x].redeemed]
  BY Zenon
<1>3. Summable(f)
  BY <1>1, BurntTerms, Zenon
<1>4. t \notin DOMAIN f /\ DOMAIN g = DOMAIN f \cup {t} /\ (\A x \in DOMAIN f : g[x] = f[x])
  BY <1>1, <1>2, Zenon
<1>5. g[t] = TxData[t].burnt - TxData[t].redeemed
  BY <1>2, Zenon
<1>6. g[t] \in Int
  BY <1>5, TxTypes, Zenon
<1>7. Total(g) = Total(f) + g[t]
  BY ONLY <1>3, <1>4, <1>6, TotalInsert, Zenon
<1> QED
  BY <1>1, <1>2, <1>5, <1>7, Zenon DEF Burnt

\* What t takes from the coins it finds
LEMMA ValueInIs ==
  ASSUME NEW S \in SUBSET Txid, NEW ht, NEW t \in Txid, There(S, t)
  PROVE  ValueIn(View(S, ht), t)
           = IF HasInputs(t) THEN Total([k \in 1..Len(Inputs(t)) |-> InValue(t, k)]) ELSE TxData[t].redeemed
<1>1. CASE HasInputs(t)
  <2>1. Inputs(t) = TxData[t].vin /\ DOMAIN TxData[t].vin = 1..Len(Inputs(t))
    BY <1>1, InputsFacts, Zenon
  <2>2. ASSUME NEW k \in 1..Len(Inputs(t))
        PROVE  View(S, ht)[TxData[t].vin[k].hash].vout[TxData[t].vin[k].n] = InValue(t, k)
    <3>1. PICK out : out = Inputs(t)[k]
      BY Zenon
    <3>2. out.hash \in S /\ out.hash \in Txid /\ out.n \in Unspent(S, out.hash)
      BY <3>1, Zenon DEF There
    <3>4. View(S, ht)[out.hash] = Left(out.hash, ht[out.hash], Unspent(S, out.hash))
      BY <3>2, Zenon DEF View
    <3>5. View(S, ht)[out.hash].vout[out.n] = TxData[out.hash].vout[out.n]
      <4>1. Left(out.hash, ht[out.hash], Unspent(S, out.hash)).vout[out.n] = TxData[out.hash].vout[out.n]
        BY <3>2, LeftAt
      <4> QED
        BY <3>4, <4>1, Zenon
    <3> QED
      BY <2>1, <3>1, <3>5, Zenon DEF InValue
  <2>3. [j \in DOMAIN TxData[t].vin |-> View(S, ht)[TxData[t].vin[j].hash].vout[TxData[t].vin[j].n]]
          = [k \in 1..Len(Inputs(t)) |-> InValue(t, k)]
    BY <2>1, <2>2, Zenon
  <2> QED
    BY <1>1, <2>3, Zenon DEF ValueIn
<1>2. CASE ~HasInputs(t)
  BY <1>2, Zenon DEF ValueIn
<1> QED
  BY <1>1, <1>2, Zenon

\* Connecting t adds what it pays out, and takes what it takes in
LEMMA TxWorth ==
  ASSUME NEW S \in SUBSET Txid, NEW t \in Txid \ S, Closed(S), There(S, t), NEW ht
  PROVE  /\ ValueOut(t) - ValueIn(View(S, ht), t) \in Int
         /\ Worth(View(S \cup {t}, ht)) + Burnt(S \cup {t})
              = (Worth(View(S, ht)) + Burnt(S)) + (ValueOut(t) - ValueIn(View(S, ht), t))
<1>1. PICK N : N = Len(Inputs(t))
  BY Zenon
<1>2. N \in Nat /\ N \in 0..N
  BY <1>1, InputsFacts
<1>3. PICK in : in = Total([k \in 1..N |-> InValue(t, k)])
  BY Zenon
<1>4. PICK out : out = Total(TxData[t].vout)
  BY Zenon
<1>5. out \in Int /\ in \in Int /\ Worth(Mid(S, ht, t, N)) = Worth(View(S, ht)) - in
  BY <1>1, <1>2, <1>3, <1>4, InputsWorth, TxTypes, TotalType, Zenon
<1>6. PICK c : c = Mid(S, ht, t, N)
  BY Zenon
<1>7. PICK d : d = View(S \cup {t}, ht)
  BY Zenon
<1>8. d = [c EXCEPT ![t] = FromTx(t, ht[t])]
  <2>1. AfterInputs(View(S, ht), t)[N] = c
    BY <1>1, <1>2, <1>6, InputsSpent, Zenon
  <2>2. UpdateCoins(View(S, ht), t, ht[t]) = d
    BY <1>7, TxConnected, Zenon
  <2> QED
    BY <1>1, <2>1, <2>2, Zenon DEF UpdateCoins
<1>9. DOMAIN c = Txid /\ c[t] = Empty /\ Countable(c)
  <2>1. DOMAIN c = Txid /\ c[t] = Empty
    BY <1>6, Zenon DEF Mid
  <2> QED
    BY <1>6, <2>1, MidCountable, Zenon
<1>10. d[t].vout = TxData[t].vout /\ \A y \in Txid \ {t} : d[y].vout = c[y].vout
  <2>1. d[t] = FromTx(t, ht[t]) /\ \A y \in Txid \ {t} : d[y] = c[y]
    BY <1>8, <1>9, Zenon
  <2>2. TxData[t].vout = [n \in DOMAIN TxData[t].vout |-> TxData[t].vout[n]]
    <3>1. TxData[t].vout \in [DOMAIN TxData[t].vout -> Int]
      BY TxAssumption, Zenon
    <3> QED
      BY <3>1, Zenon
  <2>3. FromTx(t, ht[t]).vout = TxData[t].vout
    BY <2>2, Zenon DEF FromTx, Empty, NoOutputs
  <2> QED
    BY <2>1, <2>3, Zenon
<1>11. Worth(d) = (Worth(c) - 0) + out
  <2>1. Summable(d[t].vout) /\ Total(d[t].vout) = out
    BY <1>4, <1>10, TxTypes, Zenon
  <2>2. Total(c[t].vout) = 0
    BY <1>9, EmptyValues, Zenon
  <2>3. Worth(d) = (Worth(c) - Total(c[t].vout)) + Total(d[t].vout)
    BY <1>9, <1>10, <2>1, WorthChange, Zenon
  <2> QED
    BY <2>1, <2>2, <2>3, Zenon
<1>12. /\ Burnt(S \cup {t}) = Burnt(S) + (TxData[t].burnt - TxData[t].redeemed)
       /\ Burnt(S) \in Int /\ Worth(View(S, ht)) \in Int
       /\ TxData[t].burnt \in Int /\ TxData[t].redeemed \in Int
  BY BurntStep, BurntTerms, TxTypes, MidCountable, WorthTerms, Zenon
<1>13. PICK w : w = ValueIn(View(S, ht), t)
  BY Zenon
<1>14. in + TxData[t].redeemed = w /\ w \in Int
  <2>1. CASE HasInputs(t)
    <3>1. w = in /\ TxData[t].redeemed = 0
      BY <1>1, <1>3, <1>13, <2>1, ValueInIs, TxTypes, Zenon
    <3> QED
      BY <1>5, <3>1
  <2>2. CASE ~HasInputs(t)
    <3>0. N = 0
      BY <1>1, <2>2, InputsFacts, Zenon
    <3>1. w = TxData[t].redeemed
      BY <1>13, <2>2, Zenon DEF ValueIn
    <3>2. DOMAIN [k \in 1..N |-> InValue(t, k)] = {}
      BY <3>0
    <3>3. in = 0
      BY <1>3, <3>2, TotalEmpty, Zenon
    <3> QED
      BY <1>12, <3>1, <3>3
  <2> QED
    BY <2>1, <2>2, Zenon
<1>15. ValueOut(t) = out + TxData[t].burnt
  BY <1>4, Zenon DEF ValueOut
<1>16. ValueOut(t) - w \in Int
  BY <1>5, <1>12, <1>14, <1>15
<1>17. Worth(d) + Burnt(S \cup {t}) = (Worth(View(S, ht)) + Burnt(S)) + (ValueOut(t) - w)
  <2>1. Worth(d) = ((Worth(View(S, ht)) - in) - 0) + out
    BY <1>5, <1>6, <1>11, Zenon
  <2> QED
    BY <1>5, <1>12, <1>14, <1>15, <2>1
<1> QED
  BY <1>7, <1>13, <1>16, <1>17, Zenon


\* What the first i transactions of b add to the coins
Added(v, b, i) ==
  [k \in 1..i |-> ValueOut(v[b][k])
                  - ValueIn(AfterTxs(Expected(v, Prev[b]), v[b], nHeight(b))[k - 1], v[b][k])]

SupplyAt(v, b, i) == Worth(View(First(v, b, i), HeightAt(v, b))) + Burnt(First(v, b, i))

LEMMA FirstIsSubset ==
  ASSUME NEW v \in Contents, NEW b \in Block, NEW i \in 0..Len(v[b])
  PROVE  First(v, b, i) \in SUBSET Txid
<1>1. Txs(v, Prev[b]) \subseteq Txid
  BY ChainStep, TxsStep, Zenon
<1>2. \A k \in 1..i : k \in 1..Len(v[b])
  BY ContentsFacts
<1>3. \A k \in 1..i : v[b][k] \in Txid
  BY <1>2, ContentsFacts, Zenon
<1> QED
  BY <1>1, <1>3, Zenon DEF First

LEMMA SupplyAtType ==
  ASSUME NEW v \in Contents, NEW b \in Block, NEW i \in 0..Len(v[b])
  PROVE  SupplyAt(v, b, i) \in Int
<1>1. PICK S \in SUBSET Txid : S = First(v, b, i)
  BY FirstIsSubset, Zenon
<1>2. PICK ht : ht = HeightAt(v, b)
  BY Zenon
<1>3. Worth(View(S, ht)) \in Int /\ Burnt(S) \in Int
  BY MidCountable, WorthTerms, BurntTerms, Zenon
<1>4. Worth(View(S, ht)) + Burnt(S) \in Int
  BY <1>3
<1> QED
  BY <1>1, <1>2, <1>4, Zenon DEF SupplyAt

\* One more transaction of a good block
LEMMA SupplyTx ==
  ASSUME NEW v \in Contents, NEW b \in Block, Good(v, b), Closed(Txs(v, Prev[b])),
         NEW i \in 1..Len(v[b])
  PROVE  /\ Added(v, b, i)[i] \in Int
         /\ SupplyAt(v, b, i) = SupplyAt(v, b, i - 1) + Added(v, b, i)[i]
<1>1. i - 1 \in 0..Len(v[b]) /\ i \in 1..i /\ 1..i = (1..(i - 1)) \cup {i}
  BY ContentsFacts
<1>2. PICK S \in SUBSET Txid : S = First(v, b, i - 1)
  BY <1>1, FirstIsSubset, Zenon
<1>3. PICK t \in Txid : t = v[b][i]
  BY ContentsFacts, Zenon
<1>4. PICK ht : ht = HeightAt(v, b)
  BY Zenon
<1>5. Closed(S) /\ AfterTxs(Expected(v, Prev[b]), v[b], nHeight(b))[i - 1] = View(S, ht)
  BY <1>1, <1>2, <1>4, BlockViews, Zenon
<1>6. There(S, t) /\ t \notin S
  BY <1>2, <1>3, BlockViews, Zenon
<1>7. First(v, b, i) = S \cup {t}
  BY <1>1, <1>2, <1>3, Zenon DEF First
<1>8. /\ ValueOut(t) - ValueIn(View(S, ht), t) \in Int
      /\ Worth(View(S \cup {t}, ht)) + Burnt(S \cup {t})
           = (Worth(View(S, ht)) + Burnt(S)) + (ValueOut(t) - ValueIn(View(S, ht), t))
  BY <1>5, <1>6, TxWorth, Zenon
<1>9. Added(v, b, i)[i] = ValueOut(t) - ValueIn(View(S, ht), t)
  BY <1>1, <1>3, <1>5, Zenon DEF Added
<1>10. SupplyAt(v, b, i) = Worth(View(S \cup {t}, ht)) + Burnt(S \cup {t})
  BY <1>4, <1>7, Zenon DEF SupplyAt
<1>11. SupplyAt(v, b, i - 1) = Worth(View(S, ht)) + Burnt(S)
  BY <1>2, <1>4, Zenon DEF SupplyAt
<1> QED
  BY <1>8, <1>9, <1>10, <1>11, Zenon

LEMMA SupplyTxs ==
  ASSUME NEW v \in Contents, NEW b \in Block, Good(v, b), Closed(Txs(v, Prev[b]))
  PROVE  \A i \in 0..Len(v[b]) :
           /\ Summable(Added(v, b, i))
           /\ SupplyAt(v, b, i) = SupplyAt(v, b, 0) + Total(Added(v, b, i))
<1> DEFINE N == Len(v[b])
           P(i) == Summable(Added(v, b, i)) /\ SupplyAt(v, b, i) = SupplyAt(v, b, 0) + Total(Added(v, b, i))
           T == {i \in Nat : i \in 0..N => P(i)}
<1>0. N \in Nat /\ 0 \in 0..N
  BY ContentsFacts
<1>1. SupplyAt(v, b, 0) \in Int
  BY <1>0, SupplyAtType, Zenon
<1>2. 0 \in T
  <2>1. DOMAIN Added(v, b, 0) = {}
    BY DEF Added
  <2>2. Summable(Added(v, b, 0)) /\ Total(Added(v, b, 0)) = 0
    BY <2>1, TotalEmpty, Zenon
  <2>3. SupplyAt(v, b, 0) = SupplyAt(v, b, 0) + Total(Added(v, b, 0))
    BY <1>1, <2>2
  <2>4. P(0)
    BY <2>2, <2>3, Zenon
  <2> HIDE DEF P
  <2> QED
    BY <2>4
<1>3. ASSUME NEW i \in Nat, i \in T PROVE i + 1 \in T
  <2> SUFFICES ASSUME i + 1 \in 0..N PROVE P(i + 1)
    OBVIOUS
  <2>0. /\ i \in 0..N /\ i + 1 \in 1..Len(v[b]) /\ i + 1 \notin 1..i /\ (i + 1) - 1 = i
        /\ 1..(i + 1) = (1..i) \cup {i + 1}
    BY <1>0
  <2>1. PICK n \in 1..Len(v[b]) : n = i + 1
    BY <2>0, Zenon
  <2>2. P(i)
    BY <1>3, <2>0, Zenon
  <2>3. PICK f : f = Added(v, b, i)
    BY Zenon
  <2>4. PICK g : g = Added(v, b, n)
    BY Zenon
  <2>5. g[n] \in Int /\ SupplyAt(v, b, n) = SupplyAt(v, b, n - 1) + g[n]
    BY <2>4, SupplyTx, Zenon
  <2>6. DOMAIN f = 1..i /\ DOMAIN g = 1..n
    BY <2>3, <2>4, Zenon DEF Added
  <2>7. n \notin DOMAIN f /\ DOMAIN g = DOMAIN f \cup {n}
    BY <2>0, <2>1, <2>6, Zenon
  <2>8. \A k \in DOMAIN f : g[k] = f[k]
    BY <2>3, <2>4, <2>6, <2>7, Zenon DEF Added
  <2>9. Summable(f) /\ SupplyAt(v, b, i) = SupplyAt(v, b, 0) + Total(f)
    BY <2>2, <2>3, Zenon
  <2>10. g[n] \in Int /\ Summable(f)
    BY <2>5, <2>9, Zenon
  <2>11. Summable(g) /\ Total(f) \in Int /\ Total(g) = Total(f) + g[n]
    BY ONLY <2>7, <2>8, <2>10, TotalInsert, Zenon
  <2>12. SupplyAt(v, b, n) = SupplyAt(v, b, i) + g[n]
    BY <2>0, <2>1, <2>5, Zenon
  <2>13. SupplyAt(v, b, n) = SupplyAt(v, b, 0) + Total(g)
    BY <1>1, <2>5, <2>9, <2>11, <2>12
  <2> QED
    BY <2>1, <2>4, <2>11, <2>13, Zenon
<1> HIDE DEF T, P
<1>4. Nat \subseteq T
  BY <1>2, <1>3, NatInd, Zenon
<1>5. \A i \in 0..N : i \in Nat
  BY <1>0
<1>6. \A i \in 0..N : P(i)
  BY <1>4, <1>5, Zenon DEF T
<1> QED
  BY <1>6, Zenon DEF P

\* A good block adds its BlockValue
LEMMA SupplyBlock ==
  ASSUME NEW v \in Contents, NEW b \in Block, GoodChain(v, b)
  PROVE  Supply(v, b) = Supply(v, Prev[b]) + BlockValue(Expected(v, Prev[b]), v[b], nHeight(b))
<1>1. PICK N : N = Len(v[b])
  BY Zenon
<1>2. N \in 0..N /\ 0 \in 0..N /\ DOMAIN v[b] = 1..N
  BY <1>1, ContentsFacts
<1>3. Good(v, b) /\ Closed(Txs(v, Prev[b]))
  BY GoodStep, ChainStep, ChainFacts, Zenon
<1>4. SupplyAt(v, b, N) = SupplyAt(v, b, 0) + Total(Added(v, b, N))
  BY <1>1, <1>2, <1>3, SupplyTxs, Zenon
<1>5. Total(Added(v, b, N)) = BlockValue(Expected(v, Prev[b]), v[b], nHeight(b))
  BY <1>1, Zenon DEF Added, BlockValue
<1>6. First(v, b, N) = Txs(v, b)
  BY <1>2, TxsStep, Zenon DEF First, Range
<1>7. View(Txs(v, b), HeightAt(v, b)) = View(Txs(v, b), HeightIn(v, b))
  BY HeightAtIn, ViewSame, Zenon
<1>8. SupplyAt(v, b, N) = Supply(v, b)
  BY <1>6, <1>7, Zenon DEF SupplyAt, Supply, Expected
<1>9. First(v, b, 0) = Txs(v, Prev[b])
  BY DEF First
<1>10. View(First(v, b, 0), HeightAt(v, b)) = Expected(v, Prev[b])
  <2>1. AfterTxs(Expected(v, Prev[b]), v[b], nHeight(b))[0] = View(First(v, b, 0), HeightAt(v, b))
    BY <1>1, <1>2, <1>3, BlockViews, Zenon
  <2>2. AfterTxs(Expected(v, Prev[b]), v[b], nHeight(b))[0] = Expected(v, Prev[b])
    <3>1. Len(v[b]) \in Nat /\ 0 \in 0..Len(v[b])
      BY ContentsFacts
    <3> QED
      BY <3>1, AfterTxsDef
  <2> QED
    BY <2>1, <2>2, Zenon
<1>11. SupplyAt(v, b, 0) = Supply(v, Prev[b])
  BY <1>9, <1>10, Zenon DEF SupplyAt, Supply
<1> QED
  BY <1>4, <1>5, <1>8, <1>11, Zenon

LEMMA SupplyGenesis ==
  ASSUME NEW v \in Contents
  PROVE  Supply(v, Genesis) = 0
<1>1. Txs(v, Genesis) = {}
  BY TxsStep, Zenon
<1>2. Expected(v, Genesis) = [t \in Txid |-> Empty]
  BY <1>1, Zenon DEF Expected, View
<1>3. PICK f : f = [t \in Txid |-> Total(Expected(v, Genesis)[t].vout)]
  BY Zenon
<1>4. DOMAIN f = Txid /\ IsFiniteSet(DOMAIN f)
  BY <1>3, ConnectionAssumption, Zenon
<1>5. \A t \in DOMAIN f : f[t] = 0
  BY <1>2, <1>3, <1>4, EmptyValues, Zenon
<1>6. Total(f) = 0
  BY ONLY <1>4, <1>5, TotalZero, Zenon
<1>7. Worth(Expected(v, Genesis)) = 0
  BY <1>3, <1>6, Zenon DEF Worth
<1>8. PICK g : g = [t \in {} |-> TxData[t].burnt - TxData[t].redeemed]
  BY Zenon
<1>9. DOMAIN g = {}
  BY <1>8, Zenon
<1>10. Total(g) = 0
  BY ONLY <1>9, TotalEmpty, Zenon
<1>11. Burnt({}) = 0
  BY <1>8, <1>10, Zenon DEF Burnt
<1>12. Supply(v, Genesis) = 0 + 0
  BY <1>1, <1>7, <1>11, Zenon DEF Supply
<1> QED
  BY <1>12

\* Every entry of an index has the supply of its block
SupplyIn(v, ix) == \A b \in DOMAIN ix : ix[b].supply = Supply(v, b)

SupplyInv == SupplyIn(vtx, index) /\ SupplyIn(vtx, durable.index)

LEMMA SupplyPut ==
  ASSUME NEW v, NEW ix, SupplyIn(v, ix), NEW b, NEW e, e.supply = Supply(v, b)
  PROVE  SupplyIn(v, Put(ix, b, e))
<1>1. DOMAIN Put(ix, b, e) = DOMAIN ix \cup {b}
  BY Zenon DEF Put
<1>2. \A x \in DOMAIN ix \cup {b} : Put(ix, b, e)[x] = IF x = b THEN e ELSE ix[x]
  BY Zenon DEF Put
<1>3. \A x \in DOMAIN ix \cup {b} : Put(ix, b, e)[x].supply = Supply(v, x)
  BY <1>2, Zenon DEF SupplyIn
<1> QED
  BY <1>1, <1>3, Zenon DEF SupplyIn

\* What ConnectBlock writes to the index when the view is that of the parent
LEMMA SupplyEntry ==
  ASSUME vtx \in Contents, SupplyIn(vtx, index), NEW b \in Block, NEW view,
         StateOK(vtx, Prev[b], view, index), Good(vtx, b)
  PROVE  IndexEntry(b, view).supply = Supply(vtx, b)
<1>1. GoodChain(vtx, b) /\ view = Expected(vtx, Prev[b])
  BY GoodStep, Zenon DEF StateOK
<1>2. PICK w : w = BlockValue(view, vtx[b], nHeight(b))
  BY Zenon
<1>3. Supply(vtx, b) = Supply(vtx, Prev[b]) + w
  BY <1>1, <1>2, SupplyBlock, Zenon
<1>4. IndexEntry(b, view).supply = w + IF Prev[b] = Genesis THEN 0 ELSE index[Prev[b]].supply
  BY <1>2, Zenon DEF IndexEntry
<1>5. (IF Prev[b] = Genesis THEN 0 ELSE index[Prev[b]].supply) = Supply(vtx, Prev[b])
  <2>1. CASE Prev[b] = Genesis
    BY <2>1, SupplyGenesis, Zenon
  <2>2. CASE Prev[b] # Genesis
    <3>1. Prev[b] \in DOMAIN index
      BY <2>2, ChainStep, Zenon DEF StateOK
    <3> QED
      BY <2>2, <3>1, Zenon DEF SupplyIn
  <2> QED
    BY <2>1, <2>2, Zenon
<1>6. PICK p : p = Supply(vtx, Prev[b])
  BY Zenon
<1>7. w \in Int /\ p \in Int
  <2>1. Len(vtx[b]) \in 0..Len(vtx[b]) /\ 0 \in 0..Len(vtx[b])
    BY ContentsFacts
  <2>2. Good(vtx, b) /\ Closed(Txs(vtx, Prev[b]))
    BY <1>1, GoodStep, ChainStep, ChainFacts, Zenon
  <2>3. Summable(Added(vtx, b, Len(vtx[b])))
    BY <2>1, <2>2, SupplyTxs, Zenon
  <2>4. w = Total(Added(vtx, b, Len(vtx[b])))
    BY <1>1, <1>2, Zenon DEF Added, BlockValue
  <2>5. w \in Int
    BY <2>3, <2>4, TotalType, Zenon
  <2>6. Txs(vtx, Prev[b]) \in SUBSET Txid
    BY ChainStep, TxsStep, Zenon
  <2>7. Worth(Expected(vtx, Prev[b])) \in Int /\ Burnt(Txs(vtx, Prev[b])) \in Int
    BY <2>6, MidCountable, WorthTerms, BurntTerms, Zenon DEF Expected
  <2>8. Worth(Expected(vtx, Prev[b])) + Burnt(Txs(vtx, Prev[b])) \in Int
    BY <2>7
  <2> QED
    BY <1>6, <2>5, <2>8, Zenon DEF Supply
<1>8. w + p = p + w
  BY <1>7
<1>9. IndexEntry(b, view).supply = w + p
  BY <1>4, <1>5, <1>6, Zenon
<1>10. Supply(vtx, b) = p + w
  BY <1>3, <1>6, Zenon
<1> QED
  BY <1>8, <1>9, <1>10, Zenon

LEMMA SupplyStep ==
  ASSUME IInv, SupplyInv, [Next]_vars
  PROVE  SupplyInv'
<1>0. vtx \in Contents /\ SupplyIn(vtx, index) /\ SupplyIn(vtx, durable.index)
  BY Zenon DEF IInv, ChainState, SupplyInv
<1>1. vtx' = vtx
  BY Zenon DEF Next, vars, ConnectBlock, VerifyConnect, DisconnectBlock, UpdateTip, FlushStateToDisk,
         Restart, VerifyDisconnect, VerifyTurn, VerifyDone
<1>2. ASSUME NEW b \in Block, ConnectBlock(b) PROVE SupplyInv'
  <2>1. /\ phase = "run" /\ Prev[b] = tip /\ BlockOK(b, coins, FALSE)
        /\ index' = Put(index, b, IndexEntry(b, coins)) /\ durable' = durable
    BY <1>2, Zenon DEF ConnectBlock
  <2>2. Good(vtx, b)
    BY <2>1, CheckedIsGood, Zenon
  <2>3. StateOK(vtx, Prev[b], coins, index)
    BY <2>1, Zenon DEF IInv, ChainState
  <2>4. IndexEntry(b, coins).supply = Supply(vtx, b)
    BY <1>0, <2>2, <2>3, SupplyEntry, Zenon
  <2>5. SupplyIn(vtx, index')
    BY <1>0, <2>1, <2>4, SupplyPut, Zenon
  <2> QED
    BY <1>0, <1>1, <2>1, <2>5, Zenon DEF SupplyInv
<1>3. ASSUME NEW b \in Block, VerifyConnect(b) PROVE SupplyInv'
  <2>1. /\ phase = "up" /\ b \in Chain[tip] /\ Prev[b] = check.at /\ durable' = durable
        /\ index' = Put(index, b, IndexEntry(b, check.coins)) \/ index' = index
    BY <1>3, Zenon DEF VerifyConnect
  <2>2. StateOK(vtx, Prev[b], check.coins, index)
    BY <2>1, CheckFacts, Zenon DEF Verifying
  <2>3. Good(vtx, b)
    BY <2>1, InvFacts, Zenon DEF GoodChain
  <2>4. IndexEntry(b, check.coins).supply = Supply(vtx, b)
    BY <1>0, <2>2, <2>3, SupplyEntry, Zenon
  <2>5. SupplyIn(vtx, Put(index, b, IndexEntry(b, check.coins)))
    BY <1>0, <2>4, SupplyPut, Zenon
  <2>6. SupplyIn(vtx, index')
    BY <1>0, <2>1, <2>5, Zenon
  <2> QED
    BY <1>0, <1>1, <2>1, <2>6, Zenon DEF SupplyInv
<1>4. ASSUME index' = index \/ index' = durable.index,
             durable' = durable \/ durable' = [tip |-> tip', coins |-> coins', index |-> index]
      PROVE  SupplyInv'
  <2>1. SupplyIn(vtx, index')
    BY <1>0, <1>4, Zenon
  <2>2. durable'.index = durable.index \/ durable'.index = index
    BY <1>4
  <2>3. SupplyIn(vtx, durable'.index)
    BY <1>0, <2>2, Zenon
  <2> QED
    BY <1>1, <2>1, <2>3, Zenon DEF SupplyInv
<1>5. CASE UpdateTip
  BY <1>4, <1>5, Zenon DEF UpdateTip
<1>6. CASE FlushStateToDisk
  BY <1>4, <1>6, Zenon DEF FlushStateToDisk
<1>7. CASE Restart
  BY <1>4, <1>7, Zenon DEF Restart
<1>8. CASE DisconnectBlock \/ VerifyDisconnect \/ VerifyTurn \/ VerifyDone \/ UNCHANGED vars
  BY <1>4, <1>8, Zenon DEF DisconnectBlock, VerifyDisconnect, VerifyTurn, VerifyDone, vars
<1> QED
  BY <1>2, <1>3, <1>5, <1>6, <1>7, <1>8, Zenon DEF Next

\* nMoneySupply of the tip, which ConnectBlock adds up from the block before, is what
\* the unspent coins of the chain add up to, less what zerocoin spends redeemed, plus
\* what was burnt, after any reorganisation and restart
THEOREM SupplyIsTheCoins == Spec /\ StakesKept(vtx) => []SupplyMatchesCoins
<1>1. Init => SupplyInv
  <2> SUFFICES ASSUME Init PROVE SupplyInv
    BY Zenon
  <2>1. index = [b \in {} |-> 0] /\ durable = [tip |-> tip, coins |-> coins, index |-> index]
    BY Zenon DEF Init
  <2>2. DOMAIN index = {} /\ durable.index = index
    BY <2>1, Zenon
  <2> QED
    BY <2>2, Zenon DEF SupplyInv, SupplyIn
<1>2. IInv /\ SupplyInv /\ [Next]_vars => SupplyInv'
  BY SupplyStep, Zenon
<1>3. IInv /\ SupplyInv => SupplyMatchesCoins
  <2> SUFFICES ASSUME IInv, SupplyInv, tip # Genesis
               PROVE  index[tip].supply = Total([t \in Txid |-> Total(coins[t].vout)])
                        + Total([t \in TxsIn(tip) |-> TxData[t].burnt - TxData[t].redeemed])
    BY Zenon DEF SupplyMatchesCoins
  <2>1. coins = Expected(vtx, tip) /\ Chain[tip] \subseteq DOMAIN index /\ tip \in Block
    BY InvFacts, Zenon DEF StateOK, Node
  <2>2. index[tip].supply = Supply(vtx, tip)
    BY <2>1, ChainStep, Zenon DEF SupplyInv, SupplyIn
  <2>3. TxsIn(tip) = Txs(vtx, tip)
    BY Zenon DEF TxsIn, TxsOf, Txs
  <2> QED
    BY <2>1, <2>2, <2>3, Zenon DEF Supply, Worth, Burnt
<1> QED
  BY <1>1, <1>2, <1>3, Invariance, PTL DEF Spec
=============================================================================
