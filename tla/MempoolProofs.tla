---------------------------- MODULE MempoolProofs ----------------------------
(***************************************************************************)
(* Proofs about the memory pool, the orphans and the block template, for   *)
(* any finite set of transactions, any blocks, any reorganisations and any *)
(* bounds.                                                                 *)
(*                                                                         *)
(* What CTxMemPool::check asserts (NextTxExact, PoolMinable) is inductive  *)
(* together with three facts: a chain holds a transaction once, and its    *)
(* parents not above it (ChainOK); nothing is in the pool and in the chain *)
(* (Apart); and the pool has neither coinbases nor coinstakes (Exact).     *)
(* Removal with fRecursive leaves no child of what it removes, because     *)
(* mapNextTx is exact.  A disconnected block makes the pool wrong for a    *)
(* while: until removeCoinbaseSpends has run, a transaction may spend what *)
(* is neither in the pool nor in the chain, but never what the shorter     *)
(* chain has spent (Fresh), which is all that removeCoinbaseSpends needs.  *)
(***************************************************************************)
EXTENDS BlockTemplate, FiniteSetTheorems, TLAPS

\* mapNextTx and totalTxSize belong to the transactions of a pool p
Exact(p) ==
  /\ p.tx \subseteq Tx \ (CoinBase \cup CoinStake)
  /\ p.size = Cardinality(p.tx)
  /\ DOMAIN p.next = UNION {Ins[t] : t \in p.tx}
  /\ \A t \in p.tx : \A o \in Ins[t] : p.next[o] = t

Minable(p, c) ==
  \A t \in p.tx : \A o \in Ins[t] :
    o[1] \in p.tx \/ (o \in Unspent(c) /\ ~Immature(o, c))

Apart(p, c) == p.tx \cap Confirmed(c) = {}

\* A pool that belongs to chain c
PoolOK(p, c) == Exact(p) /\ Minable(p, c) /\ Apart(p, c)

ChainOK(c) ==
  /\ c \in Seq(SUBSET Tx)
  /\ \A h, k \in DOMAIN c : h # k => c[h] \cap c[k] = {}
  /\ \A h \in DOMAIN c : \A t \in c[h] : \A o \in Ins[t] : \E k \in DOMAIN c : k <= h /\ o[1] \in c[k]

OrphansOK ==
  /\ DOMAIN mapOrphanTransactions \subseteq Tx /\ DOMAIN mapOrphanTransactionsByPrev \subseteq Tx
  /\ OrphansIndexed

MinerOK ==
  \/ miner = Idle
  \/ miner \in [pc : {"selected", "ready"}, height : Nat, stake : CoinStake \cup {NoStake},
                minted : Nat, fits : BOOLEAN]
  \/ miner \in [pc : {"made"}, height : Nat, prev : Seq(SUBSET Tx), block : SUBSET Tx]

\* The node without the thread that makes blocks
NodeOK == ChainOK(chain) /\ PoolOK(Pool, chain) /\ OrphansOK

IInv == NodeOK /\ MinerOK /\ world \in Worlds

-----------------------------------------------------------------------------
(* Inputs and chains *)

\* An input of a transaction is an output of another one
LEMMA Inputs ==
  ASSUME NEW t \in Tx, NEW o \in Ins[t]
  PROVE  o[1] \in Tx /\ o \in Outpoints(o[1]) /\ t \notin CoinBase
<1>1. Ins[t] \in SUBSET (Tx \X Nat) /\ Ins[t] # {}
  BY MempoolAssumption, Zenon
<1>2. o[1] \in Tx /\ o = <<o[1], o[2]>>
  BY <1>1
<1>3. o[2] \in 1..Outs[o[1]] /\ t \notin CoinBase
  BY <1>1, MempoolAssumption, Zenon
<1> QED
  BY <1>2, <1>3, Zenon DEF Outpoints

\* A transaction of the chain is in one of its blocks
LEMMA ConfirmedIn ==
  ASSUME NEW c, NEW t
  PROVE  t \in Confirmed(c) <=> \E h \in DOMAIN c : t \in c[h]
BY Zenon DEF Confirmed, Range

\* The outputs a chain has left
LEMMA UnspentIs ==
  ASSUME NEW c, NEW o
  PROVE  o \in Unspent(c) <=>
           (\E x \in Confirmed(c) : o \in Outpoints(x)) /\ ~(\E u \in Confirmed(c) : o \in Ins[u])
BY Zenon DEF Unspent

LEMMA UnspentIff ==
  ASSUME NEW c, NEW t \in Tx, NEW o \in Ins[t]
  PROVE  o \in Unspent(c) <=> o[1] \in Confirmed(c) /\ \A u \in Confirmed(c) : o \notin Ins[u]
<1>1. o \in Outpoints(o[1])
  BY Inputs, Zenon
<1>2. \A x : o \in Outpoints(x) => x = o[1]
  BY Zenon DEF Outpoints
<1>3. o \in Unspent(c) <=>
        (\E x \in Confirmed(c) : o \in Outpoints(x)) /\ ~(\E u \in Confirmed(c) : o \in Ins[u])
  BY UnspentIs, Zenon
<1> QED
  BY <1>1, <1>2, <1>3, Zenon

LEMMA CoinsConfirmed ==
  ASSUME NEW c, NEW x, HaveCoins(x, c)
  PROVE  x \in Confirmed(c)
<1>1. PICK o \in Outpoints(x) : o \in Unspent(c)
  BY Zenon DEF HaveCoins
<1>2. PICK y \in Confirmed(c) : o \in Outpoints(y)
  BY <1>1, Zenon DEF Unspent
<1>3. x = y
  BY <1>1, <1>2, Zenon DEF Outpoints
<1> QED
  BY <1>2, <1>3, Zenon

\* The parents of a transaction of the chain are in the chain, and it has spent their outputs
LEMMA ParentsConfirmed ==
  ASSUME NEW c, ChainOK(c), NEW t \in Confirmed(c), NEW o \in Ins[t]
  PROVE  t \in Tx /\ o[1] \in Confirmed(c) /\ o \notin Unspent(c)
<1>1. PICK h \in DOMAIN c : t \in c[h]
  BY ConfirmedIn, Zenon
<1>2. t \in Tx
  BY <1>1 DEF ChainOK
<1>3. o[1] \in Confirmed(c)
  BY <1>1, ConfirmedIn, Zenon DEF ChainOK
<1> QED
  BY <1>2, <1>3, UnspentIff, Zenon

-----------------------------------------------------------------------------
(* The pool, one transaction more or some fewer *)

LEMMA PoolFields == Pool.tx = mapTx /\ Pool.next = mapNextTx /\ Pool.size = totalTxSize
BY Zenon DEF Pool

LEMMA PoolFinite ==
  ASSUME NEW p, Exact(p)
  PROVE  /\ IsFiniteSet(p.tx) /\ Cardinality(p.tx) \in Nat /\ p.tx \subseteq Tx
         /\ \A ts \in SUBSET p.tx : IsFiniteSet(ts) /\ Cardinality(ts) \in Nat
<1>1. IsFiniteSet(Tx) /\ p.tx \subseteq Tx
  BY MempoolAssumption, Zenon DEF Exact
<1> QED
  BY <1>1, FS_Subset, FS_CardinalityType, Zenon

LEMMA AddExact ==
  ASSUME NEW p, Exact(p), NEW t \in Tx \ (CoinBase \cup CoinStake), t \notin p.tx,
         Ins[t] \cap DOMAIN p.next = {}
  PROVE  Exact(addUnchecked(p, t)) /\ addUnchecked(p, t).tx = p.tx \cup {t}
<1> DEFINE q == addUnchecked(p, t)
<1>1. /\ q.tx = p.tx \cup {t} /\ q.size = p.size + 1
      /\ q.next = [o \in DOMAIN p.next \cup Ins[t] |-> IF o \in Ins[t] THEN t ELSE p.next[o]]
  BY Zenon DEF addUnchecked
<1> HIDE DEF q
<1>2. q.size = Cardinality(q.tx)
  <2>1. IsFiniteSet(p.tx)
    BY PoolFinite, Zenon
  <2>2. Cardinality(p.tx \cup {t}) = Cardinality(p.tx) + 1
    BY <2>1, FS_AddElement, Zenon
  <2> QED
    BY <1>1, <2>2, Zenon DEF Exact
<1>3. DOMAIN q.next = UNION {Ins[u] : u \in q.tx}
  BY <1>1 DEF Exact
<1>4. \A u \in q.tx : \A o \in Ins[u] : q.next[o] = u
  BY <1>1 DEF Exact
<1>5. q.tx \subseteq Tx \ (CoinBase \cup CoinStake)
  BY <1>1, Zenon DEF Exact
<1> QED
  BY <1>1, <1>2, <1>3, <1>4, <1>5, Zenon DEF Exact, q

LEMMA WithoutExact ==
  ASSUME NEW p, Exact(p), NEW ts \in SUBSET p.tx
  PROVE  Exact(Without(p, ts)) /\ Without(p, ts).tx = p.tx \ ts
<1> DEFINE q == Without(p, ts)
           spent == UNION {Ins[t] : t \in ts}
<1>1. /\ q.tx = p.tx \ ts /\ q.size = p.size - Cardinality(ts)
      /\ q.next = [o \in DOMAIN p.next \ spent |-> p.next[o]]
  BY Zenon DEF Without
<1> HIDE DEF q
<1>2. q.size = Cardinality(q.tx)
  <2>1. p.tx \cap ts = ts
    BY Zenon
  <2>2. Cardinality(p.tx \ ts) = Cardinality(p.tx) - Cardinality(ts)
    BY <2>1, PoolFinite, FS_Difference, Zenon
  <2> QED
    BY <1>1, <2>2, Zenon DEF Exact
<1>3. \A t, u \in p.tx : \A o \in Ins[t] : o \in Ins[u] => t = u
  BY Zenon DEF Exact
<1>4. \A u \in q.tx : \A o \in Ins[u] : o \in DOMAIN p.next /\ o \notin spent
  BY <1>1, <1>3 DEF Exact
<1>5. DOMAIN q.next = UNION {Ins[u] : u \in q.tx}
  BY <1>1, <1>4 DEF Exact
<1>6. \A u \in q.tx : \A o \in Ins[u] : q.next[o] = u
  BY <1>1, <1>4, Zenon DEF Exact
<1>7. q.tx \subseteq Tx \ (CoinBase \cup CoinStake)
  BY <1>1, Zenon DEF Exact
<1> QED
  BY <1>1, <1>2, <1>5, <1>6, <1>7, Zenon DEF Exact, q

\* The children of what is in a set are in the pool
LEMMA ChildrenInPool ==
  ASSUME NEW p, Exact(p), NEW s
  PROVE  /\ Children(p, s) \subseteq p.tx
         /\ \A t \in p.tx : \A o \in Ins[t] : o[1] \in s => t \in Children(p, s)
BY DEF Exact, Children

\* Descendants is closed: with a transaction, it has its children
LEMMA DescendantsClosed ==
  ASSUME NEW p, Exact(p), NEW ts
  PROVE  /\ ts \subseteq Descendants(p, ts)
         /\ Children(p, Descendants(p, ts)) \subseteq Descendants(p, ts)
<1> DEFINE D == Descendants(p, ts)
<1>1. \A u : u \in D <=> u \in ts \cup p.tx /\ \A s \in SUBSET (ts \cup p.tx) :
                           ts \subseteq s /\ Children(p, s) \subseteq s => u \in s
  BY Zenon DEF Descendants
<1> HIDE DEF D
<1>2. ASSUME NEW u \in Children(p, D), NEW s \in SUBSET (ts \cup p.tx),
             ts \subseteq s, Children(p, s) \subseteq s
      PROVE  u \in s
  <2>1. D \subseteq s
    BY <1>1, <1>2, Zenon
  <2>2. u \in Children(p, s)
    BY <2>1, Zenon DEF Children
  <2> QED
    BY <1>2, <2>2, Zenon
<1>3. Children(p, D) \subseteq p.tx
  BY ChildrenInPool, Zenon
<1>4. ts \subseteq D
  BY <1>1, Zenon
<1>5. Children(p, D) \subseteq D
  BY <1>1, <1>2, <1>3, Zenon
<1> QED
  BY <1>4, <1>5, Zenon DEF D

\* remove with fRecursive leaves no child of what it takes
LEMMA RemovedRecursive ==
  ASSUME NEW p, Exact(p), NEW ts
  PROVE  LET q == removeRecursive(p, ts)
         IN  /\ Exact(q) /\ q.tx \subseteq p.tx /\ q.tx \cap ts = {}
             /\ \A t \in q.tx : \A o \in Ins[t] :
                  (o[1] \in p.tx => o[1] \in q.tx) /\ o[1] \notin ts
<1> DEFINE D == Descendants(p, ts)
           q == removeRecursive(p, ts)
<1>1. Exact(q) /\ q.tx = p.tx \ (D \cap p.tx)
  BY WithoutExact, Zenon DEF removeRecursive
<1>2. ts \subseteq D /\ Children(p, D) \subseteq D
  BY DescendantsClosed, Zenon
<1> HIDE DEF D, q
<1>3. ASSUME NEW t \in q.tx, NEW o \in Ins[t] PROVE o[1] \notin D
  <2>1. t \in p.tx /\ t \notin D
    BY <1>1, <1>3, Zenon
  <2>2. o[1] \in D => t \in Children(p, D)
    BY <2>1, <1>3, ChildrenInPool, Zenon
  <2> QED
    BY <1>2, <2>1, <2>2, Zenon
<1>4. q.tx \subseteq p.tx /\ q.tx \cap ts = {}
  BY <1>1, <1>2, Zenon
<1>5. \A t \in q.tx : \A o \in Ins[t] : (o[1] \in p.tx => o[1] \in q.tx) /\ o[1] \notin ts
  BY <1>1, <1>2, <1>3, Zenon
<1> QED
  BY <1>1, <1>4, <1>5, Zenon DEF q

\* remove without fRecursive takes one transaction
LEMMA RemovedOne ==
  ASSUME NEW p, Exact(p), NEW t
  PROVE  Exact(remove(p, t, FALSE)) /\ remove(p, t, FALSE).tx = p.tx \ {t}
<1>1. remove(p, t, FALSE) = Without(p, {t} \cap p.tx) /\ {t} \cap p.tx \in SUBSET p.tx
  BY Zenon DEF remove
<1>2. p.tx \ ({t} \cap p.tx) = p.tx \ {t}
  BY Zenon
<1> QED
  BY <1>1, <1>2, WithoutExact, Zenon

-----------------------------------------------------------------------------
(* AcceptToMemoryPool *)

\* What an accepted transaction has passed
LEMMA Accepted ==
  ASSUME NEW p, NEW c, NEW t \in Tx, AcceptResult(p, c, t) = "ok"
  PROVE  /\ t \notin CoinBase \cup CoinStake /\ t \notin p.tx /\ Ins[t] \cap DOMAIN p.next = {}
         /\ \A o \in Ins[t] : o[1] \in p.tx \/ (o \in Unspent(c) /\ ~Immature(o, c))
<1>1. /\ ~(t \in CoinBase \cup CoinStake \/ ~IsStandardTx(t))
      /\ ~(t \in p.tx \/ Ins[t] \cap DOMAIN p.next # {})
      /\ ~(\E o \in Ins[t] : o[1] \notin p.tx /\ (o \notin Unspent(c) \/ Immature(o, c)))
  BY Zenon DEF AcceptResult
<1> QED
  BY <1>1, Zenon

\* It can join the pool
LEMMA AcceptedFits ==
  ASSUME NEW p, NEW c, NEW t \in Tx, ChainOK(c), PoolOK(p, c), AcceptResult(p, c, t) = "ok"
  PROVE  PoolOK(addUnchecked(p, t), c)
<1> DEFINE q == addUnchecked(p, t)
<1>1. /\ t \notin CoinBase \cup CoinStake /\ t \notin p.tx /\ Ins[t] \cap DOMAIN p.next = {}
      /\ \A o \in Ins[t] : o[1] \in p.tx \/ (o \in Unspent(c) /\ ~Immature(o, c))
  BY Accepted, Zenon
<1>2. Exact(q) /\ q.tx = p.tx \cup {t}
  BY <1>1, AddExact, Zenon DEF PoolOK
<1> HIDE DEF q
<1>3. Minable(q, c)
  BY <1>1, <1>2, Zenon DEF PoolOK, Minable
<1>4. t \notin Confirmed(c)
  <2> SUFFICES ASSUME t \in Confirmed(c) PROVE FALSE
    BY Zenon
  <2>1. PICK o \in Ins[t] : TRUE
    BY <1>1, MempoolAssumption, Zenon
  <2>2. o[1] \in Confirmed(c) /\ o \notin Unspent(c)
    BY ParentsConfirmed, Zenon
  <2> QED
    BY <1>1, <2>2, Zenon DEF PoolOK, Apart
<1>5. Apart(q, c)
  BY <1>2, <1>4, Zenon DEF PoolOK, Apart
<1> QED
  BY <1>2, <1>3, <1>5, Zenon DEF PoolOK, q

-----------------------------------------------------------------------------
(* The loops: their recursive functions have solutions *)

\* A set of natural numbers that is not empty has a least element
LEMMA Least ==
  ASSUME NEW T \in SUBSET Nat, T # {}
  PROVE  \E x \in T : \A y \in T : x <= y
<1>1. \E R : IsWellFoundedOn(R, Nat) /\ \A x, y \in Nat : <<y, x>> \in R <=> y < x
  <2>1. \A x, y \in Nat : <<y, x>> \in OpToRel(<, Nat) <=> y < x
    BY Zenon DEF OpToRel
  <2> QED
    BY <2>1, NatLessThanWellFounded, Zenon
<1>2. PICK R : IsWellFoundedOn(R, Nat) /\ \A x, y \in Nat : <<y, x>> \in R <=> y < x
  BY <1>1, Zenon
<1>3. PICK x \in T : \A y \in T : ~(<<y, x>> \in R)
  BY <1>2, WFMin, Zenon
<1>4. ASSUME NEW y \in T PROVE x <= y
  <2>1. x \in Nat /\ y \in Nat
    BY Zenon
  <2>2. ~(y < x)
    BY <2>1, <1>2, <1>3, Zenon
  <2> QED
    BY <2>1, <2>2
<1> QED
  BY <1>4, Zenon

\* Induction: a least counterexample would have a predecessor that is none
LEMMA NatInd ==
  ASSUME NEW S, 0 \in S, \A n \in Nat : n \in S => n + 1 \in S
  PROVE  Nat \subseteq S
<1> SUFFICES ASSUME Nat \ S # {} PROVE FALSE
  BY Zenon
<1>1. PICK x \in Nat \ S : \A y \in Nat \ S : x <= y
  <2>1. (Nat \ S) \in SUBSET Nat
    BY Zenon
  <2> QED
    BY <2>1, Least, Zenon
<1>2. x \in Nat /\ x # 0
  BY Zenon
<1>3. x - 1 \in Nat /\ ~(x <= x - 1) /\ (x - 1) + 1 = x
  BY <1>2
<1>4. x - 1 \in S
  BY <1>1, <1>3, Zenon
<1> QED
  BY <1>3, <1>4, Zenon

\* removeForBlock, transaction by transaction
LEMMA AfterBlockTxsDef ==
  ASSUME NEW p, NEW block, Len(block) \in Nat
  PROVE  \A i \in 0..Len(block) :
           AfterBlockTxs(p, block)[i] = IF i = 0 THEN p ELSE removeConfirmed(AfterBlockTxs(p, block)[i - 1], block[i])
<1> DEFINE Step(a, j) == removeConfirmed(a, block[j])
           Sol(f, n) == f = [j \in 0..n |-> IF j = 0 THEN p ELSE Step(f[j - 1], j)]
           S == {n \in Nat : \E f : Sol(f, n)}
<1>1. Len(block) \in S =>
        AfterBlockTxs(p, block) = [j \in 0..Len(block) |-> IF j = 0 THEN p ELSE Step(AfterBlockTxs(p, block)[j - 1], j)]
  BY Zenon DEF AfterBlockTxs
<1> HIDE DEF Step
<1>2. 0 \in S
  <2>1. Sol([j \in 0..0 |-> p], 0)
    OBVIOUS
  <2> QED
    BY <2>1, Zenon
<1>3. ASSUME NEW n \in Nat, n \in S PROVE n + 1 \in S
  <2>1. PICK f : Sol(f, n)
    BY <1>3, Zenon
  <2> DEFINE g == [j \in 0..(n + 1) |-> IF j = n + 1 THEN Step(f[n], n + 1) ELSE f[j]]
  <2>2. \A j \in 0..n : f[j] = IF j = 0 THEN p ELSE Step(f[j - 1], j)
    BY <2>1, Zenon
  <2>3. ASSUME NEW j \in 0..(n + 1) PROVE g[j] = IF j = 0 THEN p ELSE Step(g[j - 1], j)
    <3>1. CASE j = n + 1
      BY <3>1
    <3>2. CASE j # n + 1
      <4>1. j \in 0..n /\ (j # 0 => j - 1 \in 0..(n + 1) /\ j - 1 # n + 1)
        BY <3>2
      <4> QED
        BY <2>2, <3>2, <4>1, Zenon
    <3> QED
      BY <3>1, <3>2, Zenon
  <2>4. g = [j \in 0..(n + 1) |-> g[j]]
    BY Zenon
  <2> HIDE DEF g
  <2>5. Sol(g, n + 1)
    BY <2>3, <2>4, Zenon
  <2> QED
    BY <2>5
<1> HIDE DEF S
<1>4. Len(block) \in S
  BY <1>2, <1>3, NatInd, Zenon
<1> QED
  BY <1>1, <1>4, Zenon DEF Step

\* DisconnectTip, transaction by transaction
LEMMA ResurrectedDef ==
  ASSUME NEW c, NEW p, NEW block, Len(block) \in Nat
  PROVE  \A i \in 0..Len(block) :
           Resurrected(c, p, block)[i] = IF i = 0 THEN p ELSE Resurrect(c, Resurrected(c, p, block)[i - 1], block[i])
<1> DEFINE Step(a, j) == Resurrect(c, a, block[j])
           Sol(f, n) == f = [j \in 0..n |-> IF j = 0 THEN p ELSE Step(f[j - 1], j)]
           S == {n \in Nat : \E f : Sol(f, n)}
<1>1. Len(block) \in S =>
        Resurrected(c, p, block) = [j \in 0..Len(block) |-> IF j = 0 THEN p ELSE Step(Resurrected(c, p, block)[j - 1], j)]
  BY Zenon DEF Resurrected
<1> HIDE DEF Step
<1>2. 0 \in S
  <2>1. Sol([j \in 0..0 |-> p], 0)
    OBVIOUS
  <2> QED
    BY <2>1, Zenon
<1>3. ASSUME NEW n \in Nat, n \in S PROVE n + 1 \in S
  <2>1. PICK f : Sol(f, n)
    BY <1>3, Zenon
  <2> DEFINE g == [j \in 0..(n + 1) |-> IF j = n + 1 THEN Step(f[n], n + 1) ELSE f[j]]
  <2>2. \A j \in 0..n : f[j] = IF j = 0 THEN p ELSE Step(f[j - 1], j)
    BY <2>1, Zenon
  <2>3. ASSUME NEW j \in 0..(n + 1) PROVE g[j] = IF j = 0 THEN p ELSE Step(g[j - 1], j)
    <3>1. CASE j = n + 1
      BY <3>1
    <3>2. CASE j # n + 1
      <4>1. j \in 0..n /\ (j # 0 => j - 1 \in 0..(n + 1) /\ j - 1 # n + 1)
        BY <3>2
      <4> QED
        BY <2>2, <3>2, <4>1, Zenon
    <3> QED
      BY <3>1, <3>2, Zenon
  <2>4. g = [j \in 0..(n + 1) |-> g[j]]
    BY Zenon
  <2> HIDE DEF g
  <2>5. Sol(g, n + 1)
    BY <2>3, <2>4, Zenon
  <2> QED
    BY <2>5
<1> HIDE DEF S
<1>4. Len(block) \in S
  BY <1>2, <1>3, NatInd, Zenon
<1> QED
  BY <1>1, <1>4, Zenon DEF Step

\* The loop over vWorkQueue, orphan by orphan
LEMMA ProcessOrphansDef ==
  ASSUME NEW w, Retries \in Nat
  PROVE  \A i \in 0..Retries :
           ProcessOrphans(w)[i] = IF i = 0 THEN w ELSE (IF ProcessOrphans(w)[i - 1].queue = <<>> THEN ProcessOrphans(w)[i - 1] ELSE RetryOrphan(ProcessOrphans(w)[i - 1]))
<1> DEFINE Step(a, j) == (IF a.queue = <<>> THEN a ELSE RetryOrphan(a))
           Sol(f, n) == f = [j \in 0..n |-> IF j = 0 THEN w ELSE Step(f[j - 1], j)]
           S == {n \in Nat : \E f : Sol(f, n)}
<1>1. Retries \in S =>
        ProcessOrphans(w) = [j \in 0..Retries |-> IF j = 0 THEN w ELSE Step(ProcessOrphans(w)[j - 1], j)]
  BY Zenon DEF ProcessOrphans
<1> HIDE DEF Step
<1>2. 0 \in S
  <2>1. Sol([j \in 0..0 |-> w], 0)
    OBVIOUS
  <2> QED
    BY <2>1, Zenon
<1>3. ASSUME NEW n \in Nat, n \in S PROVE n + 1 \in S
  <2>1. PICK f : Sol(f, n)
    BY <1>3, Zenon
  <2> DEFINE g == [j \in 0..(n + 1) |-> IF j = n + 1 THEN Step(f[n], n + 1) ELSE f[j]]
  <2>2. \A j \in 0..n : f[j] = IF j = 0 THEN w ELSE Step(f[j - 1], j)
    BY <2>1, Zenon
  <2>3. ASSUME NEW j \in 0..(n + 1) PROVE g[j] = IF j = 0 THEN w ELSE Step(g[j - 1], j)
    <3>1. CASE j = n + 1
      BY <3>1
    <3>2. CASE j # n + 1
      <4>1. j \in 0..n /\ (j # 0 => j - 1 \in 0..(n + 1) /\ j - 1 # n + 1)
        BY <3>2
      <4> QED
        BY <2>2, <3>2, <4>1, Zenon
    <3> QED
      BY <3>1, <3>2, Zenon
  <2>4. g = [j \in 0..(n + 1) |-> g[j]]
    BY Zenon
  <2> HIDE DEF g
  <2>5. Sol(g, n + 1)
    BY <2>3, <2>4, Zenon
  <2> QED
    BY <2>5
<1> HIDE DEF S
<1>4. Retries \in S
  BY <1>2, <1>3, NatInd, Zenon
<1> QED
  BY <1>1, <1>4, Zenon DEF Step

\* The transactions of a set in the order of their hashes
LEMMA HashOrder ==
  ASSUME NEW ts \in SUBSET Tx
  PROVE  /\ InHashOrder(ts) \in Seq(ts) /\ Len(InHashOrder(ts)) \in Nat
         /\ \A i \in 1..Len(InHashOrder(ts)) : InHashOrder(ts)[i] \in ts
         /\ \A t \in ts : \E i \in 1..Len(InHashOrder(ts)) : InHashOrder(ts)[i] = t
<1> DEFINE upto(t) == {u \in ts : Hash[u] <= Hash[t]}
           n == Cardinality(ts)
           f == [t \in ts |-> Cardinality(upto(t))]
<1>1. IsFiniteSet(ts) /\ n \in Nat
  BY MempoolAssumption, FS_Subset, FS_CardinalityType, Zenon
<1>2. \A t \in ts : Hash[t] \in Nat
  BY MempoolAssumption, Zenon
<1>3. \A t, u \in ts : Hash[t] = Hash[u] => t = u
  BY MempoolAssumption, Zenon DEF IsInjective
<1>4. ASSUME NEW t \in ts
      PROVE  IsFiniteSet(upto(t)) /\ Cardinality(upto(t)) \in 1..n
  <2>1. upto(t) \in SUBSET ts /\ t \in upto(t)
    BY <1>2
  <2> HIDE DEF upto, n
  <2>2. IsFiniteSet(upto(t)) /\ Cardinality(upto(t)) <= n
    BY <1>1, <2>1, FS_Subset, Zenon DEF n
  <2>3. Cardinality(upto(t)) \in Nat /\ Cardinality(upto(t)) # 0
    BY <2>1, <2>2, FS_CardinalityType, FS_EmptySet, Zenon
  <2> QED
    BY <1>1, <2>2, <2>3
<1>5. ASSUME NEW t \in ts, NEW u \in ts, Hash[t] < Hash[u]
      PROVE  Cardinality(upto(t)) # Cardinality(upto(u))
  <2>1. upto(t) \in SUBSET upto(u) /\ u \in upto(u) /\ u \notin upto(t)
    BY <1>2, <1>5
  <2> HIDE DEF upto
  <2> QED
    BY <1>4, <2>1, FS_Subset, Zenon
<1>6. f \in Injection(ts, 1..n)
  <2>1. f \in [ts -> 1..n]
    BY <1>4, Zenon
  <2>2. ASSUME NEW t \in ts, NEW u \in ts, f[t] = f[u] PROVE t = u
    <3>1. Cardinality(upto(t)) = Cardinality(upto(u))
      BY <2>2, Zenon
    <3> HIDE DEF upto
    <3>2. ~(Hash[t] < Hash[u]) /\ ~(Hash[u] < Hash[t])
      BY <1>5, <3>1, Zenon
    <3> QED
      BY <1>2, <1>3, <3>2
  <2> HIDE DEF f
  <2> QED
    BY <2>1, <2>2, Zenon DEF Injection, IsInjective
<1>7. f \in Surjection(ts, 1..n)
  <2>1. IsFiniteSet(1..n) /\ Cardinality(1..n) = n
    BY <1>1, FS_Interval
  <2> HIDE DEF f
  <2> QED
    BY <1>6, <2>1, FS_Injection, Zenon
<1>8. \A i \in 1..n : \E t \in ts : Cardinality(upto(t)) = i
  BY <1>7, Zenon DEF Surjection
<1> DEFINE s == InHashOrder(ts)
<1>9. s = [i \in 1..n |-> CHOOSE t \in ts : Cardinality(upto(t)) = i]
  BY Zenon DEF InHashOrder
<1> HIDE DEF upto, n, s, f
<1>10. \A i \in 1..n : s[i] \in ts /\ Cardinality(upto(s[i])) = i
  BY <1>8, <1>9, Zenon
<1>11. s \in [1..n -> ts]
  BY <1>9, <1>10, Zenon
<1>12. s \in Seq(ts) /\ Len(s) = n
  BY <1>1, <1>11
<1>13. ASSUME NEW t \in ts PROVE \E i \in 1..n : s[i] = t
  <2>1. PICK i \in 1..n : i = Cardinality(upto(t))
    BY <1>4, Zenon
  <2>2. s[i] \in ts /\ Cardinality(upto(s[i])) = Cardinality(upto(t))
    BY <1>10, <2>1, Zenon
  <2>3. ~(Hash[t] < Hash[s[i]]) /\ ~(Hash[s[i]] < Hash[t])
    BY <1>5, <2>2, Zenon
  <2>4. s[i] = t
    BY <1>2, <1>3, <2>2, <2>3
  <2> QED
    BY <2>4, Zenon
<1> QED
  BY <1>1, <1>10, <1>12, <1>13, Zenon DEF s

-----------------------------------------------------------------------------
(* The chain, one block more or one fewer *)

LEMMA Height ==
  ASSUME NEW c, ChainOK(c), NEW h \in DOMAIN c, NEW t \in c[h]
  PROVE  HeightOf(t, c) = h
<1>1. HeightOf(t, c) \in DOMAIN c /\ t \in c[HeightOf(t, c)]
  BY Zenon DEF HeightOf
<1> QED
  BY <1>1, Zenon DEF ChainOK

LEMMA Longer ==
  ASSUME NEW c \in Seq(SUBSET Tx), NEW b \in SUBSET Tx
  PROVE  /\ Append(c, b) \in Seq(SUBSET Tx) /\ Len(c) \in Nat /\ DOMAIN c = 1..Len(c)
         /\ DOMAIN Append(c, b) = 1..(Len(c) + 1) /\ Len(Append(c, b)) = Len(c) + 1
         /\ \A h \in 1..Len(c) : Append(c, b)[h] = c[h]
         /\ Append(c, b)[Len(c) + 1] = b
OBVIOUS

LEMMA LongerConfirmed ==
  ASSUME NEW c \in Seq(SUBSET Tx), NEW b \in SUBSET Tx
  PROVE  Confirmed(Append(c, b)) = Confirmed(c) \cup b
<1> DEFINE d == Append(c, b)
           n == Len(c)
<1>1. /\ n \in Nat /\ DOMAIN c = 1..n /\ DOMAIN d = 1..(n + 1)
      /\ \A h \in 1..n : d[h] = c[h]
      /\ d[n + 1] = b
  BY Longer, Zenon
<1> HIDE DEF d, n
<1>2. ASSUME NEW t PROVE (\E h \in DOMAIN d : t \in d[h]) <=> (\E h \in DOMAIN c : t \in c[h]) \/ t \in b
  <2>1. \A h \in 1..(n + 1) : h \in 1..n \/ h = n + 1
    BY <1>1
  <2>2. n + 1 \in 1..(n + 1) /\ \A h \in 1..n : h \in 1..(n + 1)
    BY <1>1
  <2> QED
    BY <1>1, <2>1, <2>2, Zenon
<1>3. \A t : t \in Confirmed(d) <=> t \in Confirmed(c) \cup b
  BY <1>2, ConfirmedIn, Zenon
<1> QED
  BY <1>3, Zenon DEF d

\* A valid block extends the chain
LEMMA Connected ==
  ASSUME ChainOK(chain), NEW b \in SUBSET Tx, ValidBlock(b)
  PROVE  ChainOK(Append(chain, b))
<1> DEFINE d == Append(chain, b)
           n == Len(chain)
<1>1. /\ chain \in Seq(SUBSET Tx) /\ d \in Seq(SUBSET Tx)
      /\ n \in Nat /\ DOMAIN chain = 1..n /\ DOMAIN d = 1..(n + 1)
      /\ \A h \in 1..n : d[h] = chain[h]
      /\ d[n + 1] = b
  BY Longer DEF ChainOK
<1>2. /\ b \cap Confirmed(chain) = {}
      /\ \A t \in b : \A o \in Ins[t] : o \in Unspent(chain) \/ o[1] \in b
  BY Zenon DEF ValidBlock
<1> HIDE DEF d, n
<1>3. \A h \in 1..(n + 1) : h \in 1..n \/ h = n + 1
  BY <1>1
<1>4. \A h \in 1..n : b \cap chain[h] = {}
  BY <1>1, <1>2, ConfirmedIn, Zenon
<1>5. \A h, k \in 1..n : h # k => chain[h] \cap chain[k] = {}
  BY <1>1, Zenon DEF ChainOK
<1>6. ASSUME NEW h \in DOMAIN d, NEW k \in DOMAIN d, h # k PROVE d[h] \cap d[k] = {}
  BY <1>1, <1>3, <1>4, <1>5, <1>6, Zenon
<1>7. ASSUME NEW h \in DOMAIN d, NEW t \in d[h], NEW o \in Ins[t]
      PROVE  \E k \in DOMAIN d : k <= h /\ o[1] \in d[k]
  <2>1. CASE h \in 1..n
    <3>1. PICK k \in 1..n : k <= h /\ o[1] \in chain[k]
      BY <1>1, <1>7, <2>1, Zenon DEF ChainOK
    <3>2. k \in DOMAIN d /\ d[k] = chain[k]
      BY <1>1
    <3> QED
      BY <3>1, <3>2, Zenon
  <2>2. CASE h = n + 1 /\ o[1] \in b
    BY <1>1, <2>2
  <2>3. CASE h = n + 1 /\ o \in Unspent(chain)
    <3>1. o[1] \in Confirmed(chain)
      BY <1>1, <1>7, <2>3, UnspentIff, Zenon
    <3>2. PICK k \in 1..n : o[1] \in chain[k]
      BY <1>1, <3>1, ConfirmedIn, Zenon
    <3>3. k \in DOMAIN d /\ d[k] = chain[k] /\ k <= h
      BY <1>1, <2>3
    <3> QED
      BY <3>2, <3>3, Zenon
  <2> QED
    BY <1>1, <1>2, <1>3, <1>7, <2>1, <2>2, <2>3, Zenon
<1> QED
  BY <1>1, <1>6, <1>7, Zenon DEF ChainOK, d

\* What is mature stays mature in a longer chain
LEMMA StaysMature ==
  ASSUME NEW c, NEW b \in SUBSET Tx, ChainOK(c), ChainOK(Append(c, b)),
         NEW o, o[1] \in Confirmed(c), ~Immature(o, c)
  PROVE  ~Immature(o, Append(c, b))
<1> DEFINE d == Append(c, b)
           n == Len(c)
<1>1. /\ n \in Nat /\ DOMAIN c = 1..n /\ DOMAIN d = 1..(n + 1) /\ Len(d) = n + 1
      /\ \A h \in 1..n : d[h] = c[h]
  BY Longer DEF ChainOK
<1> HIDE DEF d, n
<1>2. PICK h \in 1..n : o[1] \in c[h]
  BY <1>1, ConfirmedIn, Zenon
<1>3. HeightOf(o[1], c) = h /\ HeightOf(o[1], d) = h
  <2>1. h \in DOMAIN c /\ h \in DOMAIN d /\ o[1] \in d[h]
    BY <1>1, <1>2
  <2> QED
    BY <1>2, <2>1, Height, Zenon DEF d
<1>4. o[1] \in CoinBase \cup CoinStake => ~(n + 1 - h < Maturity)
  BY <1>3, Zenon DEF Immature, n
<1>5. h \in Nat /\ n \in Nat /\ Maturity \in Nat
  BY <1>1, MempoolAssumption
<1>6. o[1] \in CoinBase \cup CoinStake => ~(n + 1 + 1 - h < Maturity)
  BY <1>4, <1>5
<1> QED
  BY <1>1, <1>3, <1>6, Zenon DEF Immature, d

\* The chain without its tip
LEMMA Disconnected ==
  ASSUME NEW c, ChainOK(c), c # <<>>
  PROVE  /\ ChainOK(Below(c)) /\ Confirmed(Below(c)) \subseteq Confirmed(c)
         /\ c[Len(c)] \in SUBSET Tx
<1> DEFINE d == Below(c)
           n == Len(c)
<1>1. c \in Seq(SUBSET Tx) /\ n \in Nat \ {0} /\ DOMAIN c = 1..n /\ c[n] \in SUBSET Tx
  BY DEF ChainOK
<1>2. d \in Seq(SUBSET Tx) /\ DOMAIN d = 1..(n - 1) /\ \A h \in 1..(n - 1) : d[h] = c[h]
  BY <1>1 DEF Below
<1> HIDE DEF d, n
<1>3. \A h \in 1..(n - 1) : h \in 1..n
  BY <1>1
<1>4. \A h, k \in DOMAIN d : h # k => d[h] \cap d[k] = {}
  BY <1>1, <1>2, <1>3, Zenon DEF ChainOK
<1>5. ASSUME NEW h \in DOMAIN d, NEW t \in d[h], NEW o \in Ins[t]
      PROVE  \E k \in DOMAIN d : k <= h /\ o[1] \in d[k]
  <2>1. PICK k \in 1..n : k <= h /\ o[1] \in c[k]
    BY <1>1, <1>2, <1>3, Zenon DEF ChainOK
  <2>2. k \in 1..(n - 1)
    BY <1>1, <1>2, <2>1
  <2> QED
    BY <1>2, <2>1, <2>2, Zenon
<1>6. Confirmed(d) \subseteq Confirmed(c)
  BY <1>1, <1>2, <1>3, ConfirmedIn, Zenon
<1> QED
  BY <1>1, <1>2, <1>4, <1>5, <1>6, Zenon DEF ChainOK, d, n

-----------------------------------------------------------------------------
(* removeForBlock *)

\* What removeForBlock has made of p once it has seen the transactions of done
Cleared(p, q, done) ==
  /\ Exact(q) /\ q.tx \subseteq p.tx /\ q.tx \cap done = {}
  /\ \A t \in q.tx : \A o \in Ins[t] :
       (o[1] \in p.tx => o[1] \in q.tx \cup done) /\ \A u \in done : o \notin Ins[u]

LEMMA ClearedStep ==
  ASSUME NEW p, NEW q, NEW done, NEW u, Cleared(p, q, done)
  PROVE  Cleared(p, removeConfirmed(q, u), done \cup {u})
<1> DEFINE a == remove(q, u, FALSE)
           C == {a.next[o] : o \in Ins[u] \cap DOMAIN a.next} \ {u}
           b == removeConfirmed(q, u)
<1>1. Exact(a) /\ a.tx = q.tx \ {u}
  BY RemovedOne, Zenon DEF Cleared
<1>2. b = removeRecursive(a, C)
  BY Zenon DEF removeConfirmed, removeConflicts
<1> HIDE DEF a, b
<1>3. /\ Exact(b) /\ b.tx \subseteq a.tx /\ b.tx \cap C = {}
      /\ \A t \in b.tx : \A o \in Ins[t] : o[1] \in a.tx => o[1] \in b.tx
  <2> HIDE DEF C
  <2> QED
    BY <1>1, <1>2, RemovedRecursive, Zenon
<1>4. ASSUME NEW t \in b.tx, NEW o \in Ins[t] PROVE o \notin Ins[u]
  <2> SUFFICES ASSUME o \in Ins[u] PROVE FALSE
    BY Zenon
  <2>1. t \in a.tx /\ t # u
    BY <1>1, <1>3, Zenon
  <2>2. o \in DOMAIN a.next /\ a.next[o] = t
    BY <1>1, <2>1, Zenon DEF Exact
  <2>3. t \in C
    BY <2>1, <2>2, Zenon
  <2> QED
    BY <1>3, <2>3, Zenon
<1> HIDE DEF C
<1>5. b.tx \subseteq p.tx /\ b.tx \cap (done \cup {u}) = {}
  BY <1>1, <1>3, Zenon DEF Cleared
<1>6. ASSUME NEW t \in b.tx, NEW o \in Ins[t]
      PROVE  /\ o[1] \in p.tx => o[1] \in b.tx \cup (done \cup {u})
             /\ \A v \in done \cup {u} : o \notin Ins[v]
  <2>1. t \in q.tx
    BY <1>1, <1>3, Zenon
  <2>2. (o[1] \in p.tx => o[1] \in q.tx \cup done) /\ \A v \in done : o \notin Ins[v]
    BY <2>1, Zenon DEF Cleared
  <2> QED
    BY <1>1, <1>3, <1>4, <2>2, Zenon
<1> QED
  BY <1>3, <1>5, <1>6, Zenon DEF Cleared, b

LEMMA BlockCleared ==
  ASSUME NEW p, Exact(p), NEW b \in SUBSET Tx
  PROVE  Cleared(p, removeForBlock(p, InHashOrder(b)), b)
<1> DEFINE block == InHashOrder(b)
           f == AfterBlockTxs(p, block)
           done(i) == {block[j] : j \in 1..i}
<1>1. /\ Len(block) \in Nat
      /\ \A i \in 1..Len(block) : block[i] \in b
      /\ \A t \in b : \E i \in 1..Len(block) : block[i] = t
  BY HashOrder, Zenon
<1> HIDE DEF block
<1>2. \A i \in 0..Len(block) :
        f[i] = IF i = 0 THEN p ELSE removeConfirmed(f[i - 1], block[i])
  BY <1>1, AfterBlockTxsDef
<1> HIDE DEF f
<1> DEFINE S == {i \in Nat : i \in 0..Len(block) => Cleared(p, f[i], done(i))}
<1>3. 0 \in S
  <2>1. f[0] = p /\ done(0) = {}
    <3>1. 0 \in 0..Len(block) /\ 1..0 = {}
      BY <1>1
    <3> QED
      BY <1>2, <3>1, Zenon
  <2>2. Cleared(p, p, {})
    BY Zenon DEF Cleared
  <2> QED
    BY <2>1, <2>2, Zenon
<1>4. ASSUME NEW i \in Nat, i \in S PROVE i + 1 \in S
  <2> SUFFICES ASSUME i + 1 \in 0..Len(block) PROVE Cleared(p, f[i + 1], done(i + 1))
    OBVIOUS
  <2>1. i \in 0..Len(block) /\ i + 1 # 0 /\ i + 1 - 1 = i
    BY <1>1
  <2>2. f[i + 1] = removeConfirmed(f[i], block[i + 1])
    BY <1>2, <2>1
  <2>3. done(i + 1) = done(i) \cup {block[i + 1]}
    <3>1. \A j : j \in 1..(i + 1) <=> j \in 1..i \/ j = i + 1
      OBVIOUS
    <3> QED
      BY <3>1, Zenon
  <2>4. Cleared(p, f[i], done(i))
    BY <1>4, <2>1, Zenon
  <2> HIDE DEF done
  <2> QED
    BY <2>2, <2>3, <2>4, ClearedStep
<1>5. Nat \subseteq S
  <2> HIDE DEF S
  <2> QED
    BY <1>3, <1>4, NatInd, Zenon
<1>6. Cleared(p, f[Len(block)], done(Len(block)))
  <2>1. Len(block) \in Nat /\ Len(block) \in 0..Len(block)
    BY <1>1
  <2> QED
    BY <1>5, <2>1, Zenon
<1>7. done(Len(block)) = b
  BY <1>1, Zenon
<1> QED
  BY <1>6, <1>7, Zenon DEF removeForBlock, f, block

\* ConnectTip: what is left of the pool belongs to the longer chain
LEMMA PoolConnected ==
  ASSUME NEW p, ChainOK(chain), PoolOK(p, chain), NEW b \in SUBSET Tx, ValidBlock(b)
  PROVE  PoolOK(removeForBlock(p, InHashOrder(b)), Append(chain, b))
<1> DEFINE q == removeForBlock(p, InHashOrder(b))
           d == Append(chain, b)
<1>1. Cleared(p, q, b)
  BY BlockCleared, Zenon DEF PoolOK
<1>2. ChainOK(d) /\ Confirmed(d) = Confirmed(chain) \cup b
  BY Connected, LongerConfirmed, Zenon DEF ChainOK
<1>3. Apart(q, d)
  <2> HIDE DEF q, d
  <2> QED
    BY <1>1, <1>2, Zenon DEF Cleared, PoolOK, Apart
<1>4. ASSUME NEW t \in q.tx, NEW o \in Ins[t]
      PROVE  o[1] \in q.tx \/ (o \in Unspent(d) /\ ~Immature(o, d))
  <2> HIDE DEF q
  <2>1. t \in p.tx /\ t \in Tx
    BY <1>1, Zenon DEF Cleared, PoolOK, Exact
  <2>2. \A u \in b : o \notin Ins[u]
    BY <1>1, Zenon DEF Cleared
  <2>3. CASE o[1] \in p.tx /\ o[1] \notin q.tx
    <3>1. o[1] \in b /\ o[1] \notin CoinBase \cup CoinStake
      BY <1>1, <2>3, Zenon DEF Cleared, PoolOK, Exact
    <3>2. ASSUME NEW u \in Confirmed(chain) PROVE o \notin Ins[u]
      BY <2>3, ParentsConfirmed, Zenon DEF PoolOK, Apart
    <3>3. o \in Unspent(d)
      <4> HIDE DEF d
      <4> QED
        BY <1>2, <2>1, <2>2, <3>1, <3>2, UnspentIff, Zenon
    <3> QED
      BY <3>1, <3>3, Zenon DEF Immature
  <2>4. CASE o[1] \notin p.tx
    <3>1. o \in Unspent(chain) /\ ~Immature(o, chain)
      BY <2>1, <2>4, Zenon DEF PoolOK, Minable
    <3>2. o[1] \in Confirmed(chain) /\ \A u \in Confirmed(chain) : o \notin Ins[u]
      BY <2>1, <3>1, UnspentIff, Zenon
    <3>3. ~Immature(o, d)
      BY <1>2, <3>1, <3>2, StaysMature, Zenon
    <3>4. o \in Unspent(d)
      <4> HIDE DEF d
      <4> QED
        BY <1>2, <2>1, <2>2, <3>2, UnspentIff, Zenon
    <3> QED
      BY <3>3, <3>4, Zenon
  <2> QED
    BY <2>3, <2>4, Zenon
<1> HIDE DEF q, d
<1> QED
  BY <1>1, <1>3, <1>4, Zenon DEF Cleared, PoolOK, Minable, q, d

-----------------------------------------------------------------------------
(* DisconnectTip *)

\* A pool while the transactions of a block come back: what it spends of chain c is unspent
Fresh(p, c) ==
  /\ Exact(p) /\ Apart(p, c)
  /\ \A t \in p.tx : \A o \in Ins[t] : o[1] \in Confirmed(c) => o \in Unspent(c)

LEMMA FreshBelow ==
  ASSUME NEW p, NEW c, ChainOK(c), c # <<>>, PoolOK(p, c)
  PROVE  Fresh(p, Below(c))
<1> DEFINE d == Below(c)
<1>1. Confirmed(d) \subseteq Confirmed(c)
  BY Disconnected, Zenon
<1> HIDE DEF d
<1>2. ASSUME NEW t \in p.tx, NEW o \in Ins[t], o[1] \in Confirmed(d)
      PROVE  o \in Unspent(d)
  <2>1. t \in Tx
    BY Zenon DEF PoolOK, Exact
  <2>2. o \in Unspent(c)
    BY <1>1, <1>2, Zenon DEF PoolOK, Minable, Apart
  <2>3. \A u \in Confirmed(c) : o \notin Ins[u]
    BY <2>1, <2>2, UnspentIff, Zenon
  <2> QED
    BY <1>1, <1>2, <2>1, <2>3, UnspentIff, Zenon
<1>3. Exact(p) /\ Apart(p, d)
  BY <1>1, Zenon DEF PoolOK, Apart
<1> QED
  BY <1>2, <1>3, Zenon DEF Fresh, d

LEMMA FreshStep ==
  ASSUME NEW p, NEW c, ChainOK(c), NEW t \in Tx, Fresh(p, c)
  PROVE  Fresh(Resurrect(c, p, t), c)
<1> DEFINE q == Resurrect(c, p, t)
<1>1. CASE AcceptResult(p, c, t) = "ok"
  <2>1. /\ t \notin CoinBase \cup CoinStake /\ t \notin p.tx /\ Ins[t] \cap DOMAIN p.next = {}
        /\ \A o \in Ins[t] : o[1] \in p.tx \/ (o \in Unspent(c) /\ ~Immature(o, c))
    BY <1>1, Accepted, Zenon
  <2>2. Exact(q) /\ q.tx = p.tx \cup {t}
    BY <1>1, <2>1, AddExact, Zenon DEF Resurrect, Fresh
  <2> HIDE DEF q
  <2>3. \A o \in Ins[t] : o[1] \in Confirmed(c) => o \in Unspent(c)
    BY <2>1, Zenon DEF Fresh, Apart
  <2>4. t \notin Confirmed(c)
    <3> SUFFICES ASSUME t \in Confirmed(c) PROVE FALSE
      BY Zenon
    <3>1. PICK o \in Ins[t] : TRUE
      BY <2>1, MempoolAssumption, Zenon
    <3> QED
      BY <2>3, ParentsConfirmed, Zenon
  <2>5. Apart(q, c)
    BY <2>2, <2>4, Zenon DEF Fresh, Apart
  <2> QED
    BY <2>2, <2>3, <2>5, Zenon DEF Fresh, q
<1>2. CASE AcceptResult(p, c, t) # "ok"
  <2>1. q = removeRecursive(p, {t})
    BY <1>2, Zenon DEF Resurrect, remove
  <2> HIDE DEF q
  <2>2. Exact(q) /\ q.tx \subseteq p.tx
    BY <2>1, RemovedRecursive, Zenon DEF Fresh
  <2>3. Apart(q, c)
    BY <2>2, Zenon DEF Fresh, Apart
  <2> QED
    BY <2>2, <2>3, Zenon DEF Fresh, q
<1> QED
  BY <1>1, <1>2, Zenon

LEMMA BlockResurrected ==
  ASSUME NEW p, NEW c, ChainOK(c), NEW b \in SUBSET Tx, Fresh(p, c)
  PROVE  Fresh(Resurrected(c, p, InHashOrder(b))[Len(InHashOrder(b))], c)
<1> DEFINE block == InHashOrder(b)
           f == Resurrected(c, p, block)
<1>1. /\ Len(block) \in Nat
      /\ \A i \in 1..Len(block) : block[i] \in b
  BY HashOrder, Zenon
<1> HIDE DEF block
<1>2. \A i \in 0..Len(block) : f[i] = IF i = 0 THEN p ELSE Resurrect(c, f[i - 1], block[i])
  BY <1>1, ResurrectedDef
<1> HIDE DEF f
<1> DEFINE S == {i \in Nat : i \in 0..Len(block) => Fresh(f[i], c)}
<1>3. 0 \in S
  <2>1. 0 \in 0..Len(block)
    BY <1>1
  <2>2. f[0] = p
    BY <1>2, <2>1, Zenon
  <2> QED
    BY <2>2, Zenon
<1>4. ASSUME NEW i \in Nat, i \in S PROVE i + 1 \in S
  <2> SUFFICES ASSUME i + 1 \in 0..Len(block) PROVE Fresh(f[i + 1], c)
    OBVIOUS
  <2>1. i \in 0..Len(block) /\ i + 1 # 0 /\ i + 1 - 1 = i /\ i + 1 \in 1..Len(block)
    BY <1>1
  <2>2. f[i + 1] = Resurrect(c, f[i], block[i + 1])
    BY <1>2, <2>1
  <2>3. block[i + 1] \in Tx /\ Fresh(f[i], c)
    BY <1>1, <1>4, <2>1, Zenon
  <2> QED
    BY <2>2, <2>3, FreshStep, Zenon
<1>5. Nat \subseteq S
  <2> HIDE DEF S
  <2> QED
    BY <1>3, <1>4, NatInd, Zenon
<1>6. Fresh(f[Len(block)], c)
  <2>1. Len(block) \in Nat /\ Len(block) \in 0..Len(block)
    BY <1>1
  <2> QED
    BY <1>5, <2>1, Zenon
<1> QED
  BY <1>6, Zenon DEF f, block

\* removeCoinbaseSpends leaves what the chain has coins for
LEMMA SpendsRemoved ==
  ASSUME NEW p, NEW c, Fresh(p, c)
  PROVE  PoolOK(removeCoinbaseSpends(p, c), c)
<1> DEFINE bad == {t \in p.tx : \E o \in Ins[t] :
                     o[1] \notin p.tx /\ (~HaveCoins(o[1], c) \/ Immature(o, c))}
           q == removeCoinbaseSpends(p, c)
<1>1. q = removeRecursive(p, bad)
  BY Zenon DEF removeCoinbaseSpends
<1> HIDE DEF q
<1>2. /\ Exact(q) /\ q.tx \subseteq p.tx /\ q.tx \cap bad = {}
      /\ \A t \in q.tx : \A o \in Ins[t] : o[1] \in p.tx => o[1] \in q.tx
  <2> HIDE DEF bad
  <2> QED
    BY <1>1, RemovedRecursive, Zenon DEF Fresh
<1>3. Apart(q, c)
  BY <1>2, Zenon DEF Fresh, Apart
<1>4. ASSUME NEW t \in q.tx, NEW o \in Ins[t], o[1] \notin q.tx
      PROVE  o \in Unspent(c) /\ ~Immature(o, c)
  <2>1. t \in p.tx /\ t \notin bad /\ o[1] \notin p.tx
    BY <1>2, <1>4, Zenon
  <2>2. HaveCoins(o[1], c) /\ ~Immature(o, c)
    BY <2>1, Zenon
  <2>3. o[1] \in Confirmed(c)
    BY <2>2, CoinsConfirmed, Zenon
  <2> QED
    BY <2>1, <2>2, <2>3, Zenon DEF Fresh
<1> HIDE DEF bad
<1> QED
  BY <1>2, <1>3, <1>4, Zenon DEF PoolOK, Minable, q

-----------------------------------------------------------------------------
(* The "tx" message *)

\* An index of orphans: it has each orphan at each transaction it waits for, and no more
Indexed(orphans, byPrev) ==
  /\ DOMAIN orphans \subseteq Tx /\ DOMAIN byPrev \subseteq Tx
  /\ \A x \in Tx :
       LET waiting == {t \in DOMAIN orphans : \E o \in Ins[t] : o[1] = x}
       IN  IF x \in DOMAIN byPrev THEN byPrev[x] = waiting /\ waiting # {} ELSE waiting = {}

LEMMA OrphansOKIs ==
  OrphansOK <=> /\ Indexed(mapOrphanTransactions, mapOrphanTransactionsByPrev)
                /\ Cardinality(DOMAIN mapOrphanTransactions) <= nMaxOrphanTx
BY Zenon DEF OrphansOK, OrphansIndexed, Indexed

LEMMA Erased ==
  ASSUME NEW orphans, NEW byPrev, Indexed(orphans, byPrev), NEW ts
  PROVE  /\ Indexed(EraseOrphans(orphans, ts), EraseByPrev(byPrev, ts))
         /\ DOMAIN EraseOrphans(orphans, ts) = DOMAIN orphans \ ts
<1> DEFINE D == DOMAIN orphans
           W(x) == {t \in D : \E o \in Ins[t] : o[1] = x}
           E == DOMAIN EraseOrphans(orphans, ts)
           V(x) == {t \in E : \E o \in Ins[t] : o[1] = x}
           next == EraseByPrev(byPrev, ts)
<1>1. E = D \ ts
  BY Zenon DEF EraseOrphans
<1>2. /\ DOMAIN next = {x \in DOMAIN byPrev : byPrev[x] \ ts # {}}
      /\ \A x \in DOMAIN next : next[x] = byPrev[x] \ ts
  BY Zenon DEF EraseByPrev
<1> HIDE DEF D, E, next
<1>3. \A x : V(x) = W(x) \ ts
  BY <1>1, Zenon
<1>4. ASSUME NEW x \in Tx
      PROVE  IF x \in DOMAIN next THEN next[x] = V(x) /\ V(x) # {} ELSE V(x) = {}
  <2>1. IF x \in DOMAIN byPrev THEN byPrev[x] = W(x) /\ W(x) # {} ELSE W(x) = {}
    BY Zenon DEF Indexed, D
  <2>2. V(x) = W(x) \ ts
    BY <1>3, Zenon
  <2> HIDE DEF V, W
  <2> QED
    BY <1>2, <2>1, <2>2, Zenon
<1>5. E \subseteq Tx /\ DOMAIN next \subseteq Tx
  BY <1>1, <1>2, Zenon DEF Indexed, D
<1> QED
  BY <1>1, <1>4, <1>5, Zenon DEF Indexed, D, E, next

\* AddOrphanTx
LEMMA Added ==
  ASSUME Indexed(mapOrphanTransactions, mapOrphanTransactionsByPrev), NEW t \in Tx, NEW peer
  PROVE  /\ Indexed(WithOrphan(t, peer), ByPrevWith(t))
         /\ DOMAIN WithOrphan(t, peer) = DOMAIN mapOrphanTransactions \cup {t}
<1> DEFINE D == DOMAIN mapOrphanTransactions
           W(x) == {u \in D : \E o \in Ins[u] : o[1] = x}
           E == DOMAIN WithOrphan(t, peer)
           V(x) == {u \in E : \E o \in Ins[u] : o[1] = x}
           prevs == {o[1] : o \in Ins[t]}
           byPrev == mapOrphanTransactionsByPrev
           old(x) == IF x \in DOMAIN byPrev THEN byPrev[x] ELSE {}
           next == ByPrevWith(t)
<1>1. E = D \cup {t}
  BY Zenon DEF WithOrphan
<1>2. /\ DOMAIN next = DOMAIN byPrev \cup prevs
      /\ \A x \in DOMAIN next : next[x] = IF x \in prevs THEN old(x) \cup {t} ELSE old(x)
  BY Zenon DEF ByPrevWith
<1> HIDE DEF D, E, next
<1>3. \A x : V(x) = W(x) \cup (IF x \in prevs THEN {t} ELSE {})
  BY <1>1, Zenon
<1>4. prevs \subseteq Tx
  BY Inputs, Zenon
<1>5. ASSUME NEW x \in Tx
      PROVE  IF x \in DOMAIN next THEN next[x] = V(x) /\ V(x) # {} ELSE V(x) = {}
  <2>1. IF x \in DOMAIN byPrev THEN byPrev[x] = W(x) /\ W(x) # {} ELSE W(x) = {}
    BY Zenon DEF Indexed, D
  <2>2. V(x) = W(x) \cup (IF x \in prevs THEN {t} ELSE {})
    BY <1>3, Zenon
  <2> HIDE DEF V, W, prevs, byPrev
  <2>3. old(x) = W(x)
    BY <2>1, Zenon
  <2> HIDE DEF old
  <2> QED
    BY <1>2, <2>1, <2>2, <2>3, Zenon
<1>6. E \subseteq Tx /\ DOMAIN next \subseteq Tx
  BY <1>1, <1>2, <1>4, Zenon DEF Indexed, D
<1> QED
  BY <1>1, <1>5, <1>6, Zenon DEF Indexed, D, E, next

\* EraseOrphanTx
LEMMA OrphansErased ==
  ASSUME OrphansOK, NEW ts, EraseOrphanTx(ts)
  PROVE  OrphansOK'
<1>1. /\ Indexed(mapOrphanTransactions, mapOrphanTransactionsByPrev)
      /\ Cardinality(DOMAIN mapOrphanTransactions) <= nMaxOrphanTx
  BY OrphansOKIs, Zenon
<1>2. /\ Indexed(mapOrphanTransactions', mapOrphanTransactionsByPrev')
      /\ DOMAIN mapOrphanTransactions' = DOMAIN mapOrphanTransactions \ ts
  BY <1>1, Erased, Zenon DEF EraseOrphanTx
<1>3. Cardinality(DOMAIN mapOrphanTransactions') <= nMaxOrphanTx
  <2> DEFINE D == DOMAIN mapOrphanTransactions
  <2>1. IsFiniteSet(D)
    BY <1>1, MempoolAssumption, FS_Subset, Zenon DEF Indexed
  <2>2. D \ ts \in SUBSET D
    BY Zenon
  <2> HIDE DEF D
  <2>3. IsFiniteSet(D \ ts) /\ Cardinality(D \ ts) <= Cardinality(D)
    BY <2>1, <2>2, FS_Subset, Zenon
  <2>4. Cardinality(D) \in Nat /\ Cardinality(D \ ts) \in Nat /\ nMaxOrphanTx \in Nat
    BY <2>1, <2>3, FS_CardinalityType, MempoolAssumption, Zenon
  <2> QED
    BY <1>1, <1>2, <2>3, <2>4 DEF D
<1> QED
  BY <1>2, <1>3, Zenon DEF OrphansOK, OrphansIndexed, Indexed

\* LimitOrphanTxSize
LEMMA OrphanKept ==
  ASSUME OrphansOK, NEW t \in Tx, NEW peer, TxOrphaned(t, peer)
  PROVE  OrphansOK'
<1> DEFINE orphans == WithOrphan(t, peer)
           D == DOMAIN orphans
<1>1. PICK ts \in Evicted(orphans) :
        /\ mapOrphanTransactions' = EraseOrphans(orphans, ts)
        /\ mapOrphanTransactionsByPrev' = EraseByPrev(ByPrevWith(t), ts)
  BY Zenon DEF TxOrphaned
<1>2. Indexed(orphans, ByPrevWith(t))
  BY OrphansOKIs, Added, Zenon
<1> HIDE DEF orphans
<1>3. /\ Indexed(mapOrphanTransactions', mapOrphanTransactionsByPrev')
      /\ DOMAIN mapOrphanTransactions' = D \ ts
  BY <1>1, <1>2, Erased, Zenon
<1>4. /\ ts \in SUBSET D
      /\ Cardinality(ts) = IF Cardinality(D) > nMaxOrphanTx THEN Cardinality(D) - nMaxOrphanTx ELSE 0
  BY <1>1, Zenon DEF Evicted
<1>5. IsFiniteSet(D)
  BY <1>2, MempoolAssumption, FS_Subset, Zenon DEF Indexed
<1> HIDE DEF D
<1>6. Cardinality(D \ ts) <= nMaxOrphanTx
  <2>1. D \cap ts = ts
    BY <1>4, Zenon
  <2>2. Cardinality(D \ ts) = Cardinality(D) - Cardinality(ts)
    BY <1>5, <2>1, FS_Difference, Zenon
  <2>3. Cardinality(D) \in Nat /\ nMaxOrphanTx \in Nat
    BY <1>5, FS_CardinalityType, MempoolAssumption, Zenon
  <2> QED
    BY <1>4, <2>2, <2>3
<1> QED
  BY <1>3, <1>6, Zenon DEF OrphansOK, OrphansIndexed, Indexed

\* The work of the "tx" handler: its queue has orphans, and its pool belongs to the chain
WorkOK(w) == w.queue \in Seq(Tx) /\ PoolOK(w.pool, chain)

LEMMA WaitingQueue ==
  ASSUME OrphansOK, NEW t \in Tx
  PROVE  InHashOrder(WaitingFor(t)) \in Seq(Tx)
<1>1. WaitingFor(t) \in SUBSET Tx
  BY OrphansOKIs, Zenon DEF WaitingFor, Indexed
<1>2. InHashOrder(WaitingFor(t)) \in Seq(WaitingFor(t))
  BY <1>1, HashOrder, Zenon
<1> QED
  BY <1>1, <1>2

LEMMA RetryOK ==
  ASSUME ChainOK(chain), OrphansOK, NEW w, WorkOK(w), w.queue # <<>>
  PROVE  WorkOK(RetryOrphan(w))
<1> DEFINE t == Head(w.queue)
           r == RetryOrphan(w)
<1>1. t \in Tx /\ Tail(w.queue) \in Seq(Tx)
  BY DEF WorkOK
<1>2. PICK ok \in BOOLEAN :
        /\ ok => AcceptResult(w.pool, chain, t) = "ok"
        /\ r.queue = Tail(w.queue) \o (IF ok THEN InHashOrder(WaitingFor(t)) ELSE <<>>)
        /\ r.pool = IF ok THEN addUnchecked(w.pool, t) ELSE w.pool
  <2> DEFINE ok == mapOrphanTransactions[t] \notin w.bad /\ AcceptResult(w.pool, chain, t) = "ok"
  <2>1. r.queue = Tail(w.queue) \o (IF ok THEN InHashOrder(WaitingFor(t)) ELSE <<>>)
    BY Zenon DEF RetryOrphan
  <2>2. r.pool = IF ok THEN addUnchecked(w.pool, t) ELSE w.pool
    BY Zenon DEF RetryOrphan
  <2> QED
    BY <2>1, <2>2, Zenon
<1> HIDE DEF t, r
<1>3. InHashOrder(WaitingFor(t)) \in Seq(Tx)
  BY <1>1, WaitingQueue, Zenon
<1>4. r.queue \in Seq(Tx)
  BY <1>1, <1>2, <1>3
<1>5. PoolOK(r.pool, chain)
  BY <1>1, <1>2, AcceptedFits, Zenon DEF WorkOK
<1> QED
  BY <1>4, <1>5, Zenon DEF WorkOK, r

LEMMA RetriesFinite ==
  ASSUME OrphansOK
  PROVE  Retries \in Nat
<1> DEFINE R == UNION {{x} \X mapOrphanTransactionsByPrev[x] : x \in DOMAIN mapOrphanTransactionsByPrev}
<1>1. \A x \in DOMAIN mapOrphanTransactionsByPrev : x \in Tx /\ mapOrphanTransactionsByPrev[x] \subseteq Tx
  BY OrphansOKIs, Zenon DEF Indexed
<1>2. R \in SUBSET (Tx \X Tx)
  BY <1>1
<1>3. IsFiniteSet(Tx \X Tx)
  BY MempoolAssumption, FS_Product, Zenon
<1> HIDE DEF R
<1>4. Cardinality(R) \in Nat
  BY <1>2, <1>3, FS_Subset, FS_CardinalityType, Zenon
<1> QED
  BY <1>4, Zenon DEF Retries, R

LEMMA OrphansProcessed ==
  ASSUME ChainOK(chain), OrphansOK, NEW w, WorkOK(w)
  PROVE  WorkOK(ProcessOrphans(w)[Retries])
<1> DEFINE f == ProcessOrphans(w)
<1>1. Retries \in Nat
  BY RetriesFinite, Zenon
<1>2. \A i \in 0..Retries :
        f[i] = IF i = 0 THEN w ELSE (IF f[i - 1].queue = <<>> THEN f[i - 1] ELSE RetryOrphan(f[i - 1]))
  BY <1>1, ProcessOrphansDef, Zenon
<1> HIDE DEF f
<1> DEFINE S == {i \in Nat : i \in 0..Retries => WorkOK(f[i])}
<1>3. 0 \in S
  <2>1. 0 \in 0..Retries
    BY <1>1
  <2>2. f[0] = w
    BY <1>2, <2>1, Zenon
  <2> QED
    BY <2>2, Zenon
<1>4. ASSUME NEW i \in Nat, i \in S PROVE i + 1 \in S
  <2> SUFFICES ASSUME i + 1 \in 0..Retries PROVE WorkOK(f[i + 1])
    OBVIOUS
  <2>1. i \in 0..Retries /\ i + 1 # 0 /\ i + 1 - 1 = i
    BY <1>1
  <2>2. f[i + 1] = IF f[i].queue = <<>> THEN f[i] ELSE RetryOrphan(f[i])
    BY <1>2, <2>1
  <2>3. WorkOK(f[i])
    BY <1>4, <2>1, Zenon
  <2> QED
    BY <2>2, <2>3, RetryOK, Zenon
<1>5. Nat \subseteq S
  <2> HIDE DEF S
  <2> QED
    BY <1>3, <1>4, NatInd, Zenon
<1> QED
  BY <1>1, <1>5 DEF f

-----------------------------------------------------------------------------
(* The steps of the node *)

LEMMA PoolSet ==
  ASSUME NEW q, NEW c, PoolOK(q, c), SetPool(q)
  PROVE  PoolOK(Pool', c)
<1>1. Pool'.tx = q.tx /\ Pool'.next = q.next /\ Pool'.size = q.size
  BY Zenon DEF SetPool, Pool
<1> QED
  BY <1>1, Zenon DEF PoolOK, Exact, Minable, Apart

LEMMA NodeSame ==
  ASSUME NodeOK, UNCHANGED nodeVars
  PROVE  NodeOK'
BY Zenon DEF NodeOK, nodeVars, poolVars, orphanVars, Pool, OrphansOK, OrphansIndexed

LEMMA OrphansSame ==
  ASSUME OrphansOK, UNCHANGED orphanVars
  PROVE  OrphansOK'
BY Zenon DEF orphanVars, OrphansOK, OrphansIndexed

LEMMA PoolSame ==
  ASSUME ChainOK(chain), PoolOK(Pool, chain), UNCHANGED <<chain, poolVars>>
  PROVE  ChainOK(chain') /\ PoolOK(Pool', chain')
BY Zenon DEF poolVars, Pool

LEMMA AcceptedStep ==
  ASSUME NodeOK, NEW t \in Tx, TxAccepted(t)
  PROVE  NodeOK'
<1> DEFINE w0 == [queue |-> InHashOrder(WaitingFor(t)), pool |-> addUnchecked(Pool, t),
                  erase |-> {}, bad |-> {}]
<1>1. AcceptResult(Pool, chain, t) = "ok" /\ chain' = chain
  BY Zenon DEF TxAccepted
<1>2. PICK w : w = ProcessOrphans(w0)[Retries] /\ SetPool(w.pool) /\ EraseOrphanTx(w.erase)
  BY Zenon DEF TxAccepted
<1>3. WorkOK(w0)
  <2>1. w0.queue = InHashOrder(WaitingFor(t)) /\ w0.pool = addUnchecked(Pool, t)
    BY Zenon
  <2> HIDE DEF w0
  <2>2. PoolOK(w0.pool, chain)
    BY <1>1, <2>1, AcceptedFits, Zenon DEF NodeOK
  <2>3. w0.queue \in Seq(Tx)
    BY <2>1, WaitingQueue, Zenon DEF NodeOK
  <2> QED
    BY <2>2, <2>3, Zenon DEF WorkOK
<1> HIDE DEF w0
<1>4. WorkOK(w)
  BY <1>2, <1>3, OrphansProcessed, Zenon DEF NodeOK
<1>5. PoolOK(Pool', chain')
  BY <1>1, <1>2, <1>4, PoolSet, Zenon DEF WorkOK
<1>6. OrphansOK'
  BY <1>2, OrphansErased, Zenon DEF NodeOK
<1> QED
  BY <1>1, <1>5, <1>6, Zenon DEF NodeOK

LEMMA ConnectStep ==
  ASSUME NodeOK, NEW b \in SUBSET Tx, ConnectTip(b)
  PROVE  NodeOK'
<1>1. /\ ValidBlock(b) /\ SetPool(removeForBlock(Pool, InHashOrder(b)))
      /\ chain' = Append(chain, b) /\ UNCHANGED orphanVars
  BY Zenon DEF ConnectTip
<1>2. ChainOK(Append(chain, b))
  BY <1>1, Connected, Zenon DEF NodeOK
<1>3. PoolOK(removeForBlock(Pool, InHashOrder(b)), Append(chain, b))
  BY <1>1, PoolConnected, Zenon DEF NodeOK
<1>4. PoolOK(Pool', Append(chain, b))
  BY <1>1, <1>3, PoolSet, Zenon
<1>5. OrphansOK'
  BY <1>1, OrphansSame, Zenon DEF NodeOK
<1> QED
  BY <1>1, <1>2, <1>4, <1>5, Zenon DEF NodeOK

LEMMA DisconnectStep ==
  ASSUME NodeOK, DisconnectTip
  PROVE  NodeOK'
<1> DEFINE b == chain[Len(chain)]
           p == Resurrected(Below(chain), Pool, InHashOrder(b))[Len(InHashOrder(b))]
<1>1. /\ chain # <<>> /\ chain' = Below(chain) /\ UNCHANGED orphanVars
      /\ SetPool(removeCoinbaseSpends(p, Below(chain)))
  BY Zenon DEF DisconnectTip, AfterDisconnect
<1>2. ChainOK(Below(chain)) /\ b \in SUBSET Tx
  BY <1>1, Disconnected, Zenon DEF NodeOK
<1>3. Fresh(Pool, Below(chain))
  BY <1>1, FreshBelow, Zenon DEF NodeOK
<1>4. Fresh(p, Below(chain))
  BY <1>2, <1>3, BlockResurrected, Zenon
<1> HIDE DEF p
<1>5. PoolOK(Pool', Below(chain))
  BY <1>1, <1>4, SpendsRemoved, PoolSet, Zenon
<1>6. OrphansOK'
  BY <1>1, OrphansSame, Zenon DEF NodeOK
<1> QED
  BY <1>1, <1>2, <1>5, <1>6, Zenon DEF NodeOK

LEMMA PoolStep ==
  ASSUME NodeOK, NEW ts \in SUBSET Tx, PoolNext(ts)
  PROVE  NodeOK'
<1>1. CASE \E t \in ts : TxAccepted(t)
  BY <1>1, AcceptedStep, Zenon
<1>2. ASSUME NEW t \in ts, NEW peer \in Peer, TxOrphaned(t, peer) PROVE NodeOK'
  <2>1. OrphansOK'
    BY <1>2, OrphanKept, Zenon DEF NodeOK
  <2>2. ChainOK(chain') /\ PoolOK(Pool', chain')
    BY <1>2, PoolSame, Zenon DEF NodeOK, TxOrphaned
  <2> QED
    BY <2>1, <2>2, Zenon DEF NodeOK
<1>3. ASSUME NEW peer \in Peer, EraseOrphansFor(peer) PROVE NodeOK'
  <2>1. OrphansOK'
    BY <1>3, OrphansErased, Zenon DEF NodeOK, EraseOrphansFor
  <2>2. ChainOK(chain') /\ PoolOK(Pool', chain')
    BY <1>3, PoolSame, Zenon DEF NodeOK, EraseOrphansFor
  <2> QED
    BY <2>1, <2>2, Zenon DEF NodeOK
<1>4. CASE \E b \in SUBSET ts : ConnectTip(b)
  <2>1. PICK b \in SUBSET ts : ConnectTip(b)
    BY <1>4, Zenon
  <2> QED
    BY <2>1, ConnectStep, Zenon
<1> QED
  BY <1>1, <1>2, <1>3, <1>4, DisconnectStep, Zenon DEF PoolNext

-----------------------------------------------------------------------------
(* The thread that makes blocks *)

\* What a filling of the block is: transactions of the pool, each after its parents
LEMMA Filling ==
  ASSUME NEW vtx \in Fillings
  PROVE  \E n \in Nat :
           /\ vtx \in [1..n -> mapTx] /\ DOMAIN vtx = 1..n
           /\ Range(vtx) = {vtx[i] : i \in 1..n}
           /\ \A i \in 1..n : LET before == {vtx[j] : j \in 1..(i - 1)}
                              IN  /\ vtx[i] \notin before
                                  /\ DependsOn(vtx[i]) \subseteq before
                                  /\ InputsOK(vtx[i], before)
<1>1. PICK n \in 0..BlockSize : vtx \in [1..n -> mapTx]
  BY Zenon DEF Fillings
<1>2. n \in Nat /\ DOMAIN vtx = 1..n /\ vtx \in Seq(mapTx) /\ Len(vtx) = n
  BY <1>1, TemplateAssumption
<1>3. ASSUME NEW i \in 1..n
      PROVE  Range(SubSeq(vtx, 1, i - 1)) = {vtx[j] : j \in 1..(i - 1)}
  <2> DEFINE before == SubSeq(vtx, 1, i - 1)
  <2>1. DOMAIN before = 1..(i - 1) /\ \A j \in 1..(i - 1) : before[j] = vtx[j]
    BY <1>2
  <2> HIDE DEF before
  <2>2. Range(before) = {vtx[j] : j \in 1..(i - 1)}
    BY <2>1, Zenon DEF Range
  <2> QED
    BY <2>2, Zenon DEF before
<1>4. ASSUME NEW i \in 1..n
      PROVE  LET before == {vtx[j] : j \in 1..(i - 1)}
             IN  /\ vtx[i] \notin before
                 /\ DependsOn(vtx[i]) \subseteq before
                 /\ InputsOK(vtx[i], before)
  <2>1. LET before == Range(SubSeq(vtx, 1, i - 1))
        IN  /\ vtx[i] \notin before
            /\ DependsOn(vtx[i]) \subseteq before
            /\ InputsOK(vtx[i], before)
    BY <1>2, Zenon DEF Fillings, MayFollow
  <2> QED
    BY <1>3, <2>1, Zenon
<1>5. Range(vtx) = {vtx[i] : i \in 1..n}
  BY <1>2, Zenon DEF Range
<1> QED
  BY <1>1, <1>2, <1>4, <1>5, Zenon

\* The transactions of a block the thread makes
LEMMA BlockOfTx ==
  ASSUME IInv, miner.pc = "ready", NEW cb \in NewCoinBase, NEW vtx \in Fillings
  PROVE  BlockOf(cb, miner.stake, vtx) \in SUBSET Tx
<1>1. cb \in Tx
  BY MempoolAssumption, Zenon DEF NewCoinBase
<1>2. miner.stake \in CoinStake \cup {NoStake}
  BY DEF IInv, MinerOK, Idle
<1>3. Range(vtx) \subseteq Tx
  <2>1. Range(vtx) \subseteq mapTx
    BY Filling
  <2>2. mapTx \subseteq Tx
    BY Zenon DEF IInv, NodeOK, PoolOK, Exact, Pool
  <2> QED
    BY <2>1, <2>2, Zenon
<1> QED
  BY <1>1, <1>2, <1>3, MempoolAssumption, Zenon DEF BlockOf

\* A block that spends the pool is valid, unless its coinstake went stale
LEMMA TemplateValid ==
  ASSUME IInv, miner.pc = "ready", NEW cb \in NewCoinBase, NEW vtx \in Fillings,
         miner.stake # NoStake => \A o \in Ins[miner.stake] :
           o \in Unspent(chain) /\ ~Immature(o, chain) /\ o \notin DOMAIN mapNextTx
  PROVE  TestBlockValidity(BlockOf(cb, miner.stake, vtx), vtx)
<1> DEFINE s == miner.stake
           R == Range(vtx)
           b == BlockOf(cb, s, vtx)
<1>1. PICK n \in Nat :
           /\ vtx \in [1..n -> mapTx] /\ DOMAIN vtx = 1..n
           /\ R = {vtx[i] : i \in 1..n}
           /\ \A i \in 1..n : LET before == {vtx[j] : j \in 1..(i - 1)}
                              IN  /\ vtx[i] \notin before
                                  /\ DependsOn(vtx[i]) \subseteq before
                                  /\ InputsOK(vtx[i], before)
  BY Filling, Zenon
<1>2. /\ mapTx \subseteq Tx \ (CoinBase \cup CoinStake)
      /\ mapTx \cap Confirmed(chain) = {}
      /\ \A t \in mapTx : \A o \in Ins[t] : o \in DOMAIN mapNextTx /\ mapNextTx[o] = t
  BY DEF IInv, NodeOK, PoolOK, Exact, Apart, Pool
<1>3. ChainOK(chain)
  BY Zenon DEF IInv, NodeOK
<1>4. s \in CoinStake \cup {NoStake} /\ NoStake \notin Tx
  BY TemplateAssumption DEF IInv, MinerOK, Idle, NoStake
<1>5. /\ cb \in CoinBase /\ cb \in Tx /\ cb \notin Confirmed(chain) /\ Ins[cb] = {}
      /\ s # NoStake => Outs[cb] = 0
  BY MempoolAssumption, Zenon DEF NewCoinBase
<1>6. b = {cb} \cup ({s} \ {NoStake}) \cup R
  BY Zenon DEF BlockOf
<1>7. R \subseteq mapTx
  BY <1>1
<1>8. ASSUME NEW t \in R
      PROVE  /\ t \notin Invalid
             /\ \A o \in Ins[t] : (o \in Unspent(chain) \/ o[1] \in R) /\ ~Immature(o, chain)
  <2>1. PICK i \in 1..n : t = vtx[i]
    BY <1>1, Zenon
  <2>2. InputsOK(t, {vtx[j] : j \in 1..(i - 1)})
    BY <1>1, <2>1, Zenon
  <2>3. {vtx[j] : j \in 1..(i - 1)} \subseteq R
    BY <1>1, <2>1
  <2> QED
    BY <2>2, <2>3, Zenon DEF InputsOK, CheckInputs
<1>9. s # NoStake => s \in Tx /\ s \notin Invalid /\ s \notin CoinBase /\ s \notin Confirmed(chain)
  <2>1. s # NoStake => s \in Tx /\ s \notin Invalid /\ s \notin CoinBase
    BY <1>4, MempoolAssumption, Zenon
  <2>2. ASSUME s # NoStake, s \in Confirmed(chain) PROVE FALSE
    <3>1. PICK o \in Ins[s] : TRUE
      BY <2>1, <2>2, MempoolAssumption
    <3> QED
      BY <1>3, <2>2, <3>1, ParentsConfirmed, Zenon
  <2> QED
    BY <2>1, <2>2, Zenon
<1> HIDE DEF s, R, b
<1>10. ParentsFirst(vtx)
  <2> SUFFICES ASSUME NEW i \in 1..n, NEW j \in 1..n, vtx[j] \in {o[1] : o \in Ins[vtx[i]]}
               PROVE  j < i
    BY <1>1, Zenon DEF ParentsFirst
  <2>1. vtx[j] \notin Confirmed(chain)
    BY <1>1, <1>2, Zenon
  <2>2. vtx[j] \in DependsOn(vtx[i])
    BY <2>1, CoinsConfirmed, Zenon DEF DependsOn
  <2>3. PICK k \in 1..(i - 1) : vtx[k] = vtx[j]
    <3>1. DependsOn(vtx[i]) \subseteq {vtx[m] : m \in 1..(i - 1)}
      BY <1>1, Zenon
    <3> HIDE <1>1
    <3> QED
      BY <2>2, <3>1, Zenon
  <2>4. ASSUME ~(j < i) PROVE FALSE
    <3>1. k \in 1..(j - 1)
      BY <2>3, <2>4
    <3>2. vtx[j] \in {vtx[m] : m \in 1..(j - 1)}
      BY <2>3, <3>1, Zenon
    <3> QED
      BY <1>1, <3>2, Zenon
  <2> QED
    BY <2>4, Zenon
<1>11. Cardinality(b \cap CoinBase) = 1 /\ \A t \in b \cap CoinBase : t = cb
  <2>1. b \cap CoinBase = {cb}
    BY <1>2, <1>5, <1>6, <1>7, <1>9
  <2> QED
    BY <2>1, FS_Singleton, Zenon
<1>12. Cardinality(b \cap CoinStake) <= 1 /\ (b \cap CoinStake # {} => s # NoStake)
  <2>1. b \cap CoinStake = {} \/ b \cap CoinStake = {s}
    BY <1>2, <1>4, <1>5, <1>6, <1>7, MempoolAssumption
  <2>2. b \cap CoinStake # {} => s # NoStake
    BY <1>2, <1>5, <1>6, <1>7, MempoolAssumption, Zenon
  <2>3. Cardinality({}) = 0 /\ Cardinality({s}) = 1
    BY FS_EmptySet, FS_Singleton, Zenon
  <2>4. Cardinality(b \cap CoinStake) = 0 \/ Cardinality(b \cap CoinStake) = 1
    BY <2>1, <2>3, Zenon
  <2> QED
    BY <2>2, <2>4
<1>13. b \cap (Invalid \cup Confirmed(chain)) = {}
  BY <1>2, <1>5, <1>6, <1>7, <1>8, <1>9, MempoolAssumption
<1>14. ASSUME NEW t \in b, NEW o \in Ins[t]
       PROVE  /\ o \in Unspent(chain) \/ o[1] \in b \ (CoinBase \cup CoinStake)
              /\ ~Immature(o, chain)
  <2>1. (t = s /\ s # NoStake) \/ t \in R
    BY <1>5, <1>6, <1>14, Zenon
  <2>2. CASE t = s /\ s # NoStake
    BY <2>2, Zenon DEF s
  <2>3. CASE t \in R
    BY <1>2, <1>6, <1>7, <1>8, <2>3, Zenon
  <2> QED
    BY <2>1, <2>2, <2>3, Zenon
<1>15. ASSUME NEW t \in b, NEW u \in b \ {t}, NEW o \in Ins[t], o \in Ins[u] PROVE FALSE
  <2>1. ((t = s /\ s # NoStake) \/ t \in R) /\ ((u = s /\ s # NoStake) \/ u \in R)
    BY <1>5, <1>6, <1>15, Zenon
  <2>2. s # NoStake => \A i \in Ins[s] : i \notin DOMAIN mapNextTx
    BY Zenon DEF s
  <2> QED
    BY <1>2, <1>7, <1>15, <2>1, <2>2
<1>16. ValidBlock(b)
  BY <1>5, <1>11, <1>12, <1>13, <1>14, <1>15, Zenon DEF ValidBlock
<1> QED
  BY <1>10, <1>16, Zenon DEF TestBlockValidity, b, s

-----------------------------------------------------------------------------
(* The invariant *)

LEMMA InitIInv ==
  ASSUME Init
  PROVE  IInv
<1>1. /\ chain = <<>> /\ mapTx = {} /\ mapNextTx = <<>> /\ totalTxSize = 0
      /\ mapOrphanTransactions = <<>> /\ mapOrphanTransactionsByPrev = <<>>
      /\ miner = Idle /\ world \in Worlds
  BY Zenon DEF Init, PoolInit
<1>2. ChainOK(chain)
  BY <1>1 DEF ChainOK
<1>3. PoolOK(Pool, chain)
  <2>1. Pool.tx = {} /\ DOMAIN Pool.next = {} /\ Pool.size = 0 /\ Cardinality({}) = 0
    BY <1>1, FS_EmptySet DEF Pool
  <2> QED
    BY <2>1, Zenon DEF PoolOK, Exact, Minable, Apart
<1>4. OrphansOK
  <2>1. DOMAIN mapOrphanTransactions = {} /\ DOMAIN mapOrphanTransactionsByPrev = {}
    BY <1>1
  <2>2. Indexed(mapOrphanTransactions, mapOrphanTransactionsByPrev)
    BY <2>1, Zenon DEF Indexed
  <2>3. Cardinality(DOMAIN mapOrphanTransactions) <= nMaxOrphanTx
    BY <2>1, FS_EmptySet, MempoolAssumption
  <2> QED
    BY <2>2, <2>3, OrphansOKIs, Zenon
<1> QED
  BY <1>1, <1>2, <1>3, <1>4, Zenon DEF IInv, NodeOK, MinerOK

\* The steps of the thread before it holds the locks, and when it drops a block
LEMMA MinerStep ==
  ASSUME IInv, StartMining \/ CreateCoinStake \/ StakeNotFound \/ PaymentChanges \/ BlockDropped
  PROVE  IInv' /\ (miner.pc = "ready" => miner' # Idle)
<1>1. UNCHANGED <<nodeVars, world>>
  BY Zenon DEF StartMining, CreateCoinStake, StakeNotFound, PaymentChanges, BlockDropped
<1>2. NodeOK' /\ world' \in Worlds
  BY <1>1, NodeSame, Zenon DEF IInv
<1>3. Len(chain) + 1 \in Nat
  BY DEF IInv, NodeOK, ChainOK
<1>4. MinerOK
  BY Zenon DEF IInv
<1>5. CASE StartMining
  <2>1. PICK s \in SelectStakeCoins \cup {NoStake} :
          miner' = [pc |-> IF s = NoStake THEN "ready" ELSE "selected",
                    height |-> Len(chain) + 1, stake |-> s, minted |-> Len(chain) + 1,
                    fits |-> TRUE]
    BY <1>5, Zenon DEF StartMining
  <2>2. s \in CoinStake \cup {NoStake}
    BY Zenon DEF SelectStakeCoins
  <2>3. MinerOK'
    BY <1>3, <2>1, <2>2, Zenon DEF MinerOK
  <2>4. miner.pc = "idle"
    BY <1>5, Zenon DEF StartMining, Idle
  <2> QED
    BY <1>2, <2>3, <2>4, Zenon DEF IInv
<1>6. CASE CreateCoinStake
  <2>1. miner.pc = "selected" /\ miner' = [miner EXCEPT !.pc = "ready", !.minted = Len(chain) + 1]
    BY <1>6, Zenon DEF CreateCoinStake
  <2> DEFINE Working == [pc : {"selected", "ready"}, height : Nat, stake : CoinStake \cup {NoStake},
                         minted : Nat, fits : BOOLEAN]
  <2>2. MinerOK'
    <3>1. miner \in Working
      BY <1>4, <2>1 DEF MinerOK, Idle
    <3>2. [miner EXCEPT !.pc = "ready"] \in Working
      BY <3>1, Zenon
    <3>3. miner' = [[miner EXCEPT !.pc = "ready"] EXCEPT !.minted = Len(chain) + 1]
      BY <2>1, <3>1, Zenon
    <3>4. miner' \in Working
      BY <1>3, <3>2, <3>3, Zenon
    <3> QED
      BY <3>4, Zenon DEF MinerOK
  <2> QED
    BY <1>2, <2>1, <2>2, Zenon DEF IInv
<1>7. CASE StakeNotFound
  BY <1>2, <1>7, Zenon DEF IInv, StakeNotFound, MinerOK
<1>8. CASE PaymentChanges
  <2>1. miner.pc = "ready" /\ miner' = [miner EXCEPT !.fits = FALSE]
    BY <1>8, Zenon DEF PaymentChanges
  <2>2. MinerOK' /\ miner'.pc = "ready"
    BY <1>4, <2>1, Zenon DEF MinerOK, Idle
  <2> QED
    BY <1>2, <2>2 DEF IInv, Idle
<1>9. CASE BlockDropped
  BY <1>2, <1>9, Zenon DEF IInv, BlockDropped, MinerOK
<1> QED
  BY <1>5, <1>6, <1>7, <1>8, <1>9, Zenon

LEMMA MadeStep ==
  ASSUME IInv, TemplateMade
  PROVE  IInv' /\ miner' # Idle
<1>1. PICK cb \in NewCoinBase, vtx \in Fillings :
        miner' = [pc |-> "made", height |-> miner.height, prev |-> chain,
                  block |-> BlockOf(cb, miner.stake, vtx)]
  BY Zenon DEF TemplateMade
<1>2. miner.pc = "ready" /\ UNCHANGED <<nodeVars, world>>
  BY Zenon DEF TemplateMade
<1>3. NodeOK' /\ world' \in Worlds
  BY <1>2, NodeSame, Zenon DEF IInv
<1>4. miner.height \in Nat /\ chain \in Seq(SUBSET Tx)
  BY <1>2 DEF IInv, MinerOK, Idle, NodeOK, ChainOK
<1>5. BlockOf(cb, miner.stake, vtx) \in SUBSET Tx
  BY <1>2, BlockOfTx, Zenon
<1>6. MinerOK' /\ miner' # Idle
  BY <1>1, <1>4, <1>5, Zenon DEF MinerOK, Idle
<1> QED
  BY <1>3, <1>6, Zenon DEF IInv

LEMMA RefusedStep ==
  ASSUME IInv, TemplateRefused
  PROVE  IInv'
<1> DEFINE p == [tx |-> {}, next |-> <<>>, size |-> 0]
<1>1. PoolOK(p, chain)
  <2>1. p.tx = {} /\ DOMAIN p.next = {} /\ p.size = 0 /\ Cardinality({}) = 0
    BY FS_EmptySet
  <2> HIDE DEF p
  <2> QED
    BY <2>1, Zenon DEF PoolOK, Exact, Minable, Apart
<1>2. SetPool(p) /\ miner' = Idle /\ chain' = chain /\ UNCHANGED orphanVars /\ world' = world
  BY Zenon DEF TemplateRefused, clear
<1> HIDE DEF p
<1>3. PoolOK(Pool', chain')
  BY <1>1, <1>2, PoolSet, Zenon
<1>4. OrphansOK'
  BY <1>2, OrphansSame, Zenon DEF IInv, NodeOK
<1> QED
  BY <1>2, <1>3, <1>4, Zenon DEF IInv, NodeOK, MinerOK

LEMMA NextIInv ==
  ASSUME IInv, [Next]_vars
  PROVE  IInv'
<1>1. CASE PoolNext(world.tx) /\ UNCHANGED <<miner, world>>
  <2>1. world.tx \in SUBSET Tx
    BY TemplateAssumption, Zenon DEF IInv
  <2>2. NodeOK'
    BY <1>1, <2>1, PoolStep, Zenon DEF IInv
  <2> QED
    BY <1>1, <2>2, Zenon DEF IInv, MinerOK
<1>2. CASE BlockAccepted
  <2>1. miner.block \in SUBSET Tx
    BY <1>2 DEF IInv, MinerOK, BlockAccepted, Idle
  <2>2. NodeOK'
    BY <1>2, <2>1, ConnectStep, Zenon DEF IInv, BlockAccepted
  <2> QED
    BY <1>2, <2>2, Zenon DEF IInv, MinerOK, BlockAccepted
<1>3. CASE UNCHANGED vars
  <2>1. NodeOK'
    BY <1>3, NodeSame, Zenon DEF IInv, vars
  <2> QED
    BY <1>3, <2>1, Zenon DEF IInv, MinerOK, vars
<1> QED
  BY <1>1, <1>2, <1>3, MinerStep, MadeStep, RefusedStep, Zenon DEF Next

-----------------------------------------------------------------------------
(* The theorems *)

\* For any transactions, blocks and reorganisations, mapNextTx has the inputs of the pool's
\* transactions and no others, each with the one that spends it, and totalTxSize counts
\* them: addUnchecked and remove keep it because AcceptToMemoryPool refuses what conflicts.
THEOREM NextTxStaysExact == Spec => []NextTxExact
<1>1. IInv => NextTxExact
  BY Zenon DEF IInv, NodeOK, PoolOK, Exact, NextTxExact, Pool
<1> QED
  BY <1>1, InitIInv, NextIInv, PTL DEF Spec

\* Everything in the pool could be in the next block, for any chain that ConnectTip and
\* DisconnectTip have gone through: what a block spends leaves the pool with all that depends
\* on it, and removeCoinbaseSpends takes what a disconnected block leaves without coins.
THEOREM PoolStaysMinable == Spec => []PoolMinable
<1>1. IInv => PoolMinable
  BY PoolFields, Zenon DEF IInv, NodeOK, PoolOK, Minable, PoolMinable
<1> QED
  BY <1>1, InitIInv, NextIInv, PTL DEF Spec

\* mapOrphanTransactionsByPrev has every orphan at every transaction it waits for, has no
\* other and no empty entry, and there are at most -maxorphantx orphans: for any number of
\* peers and orphans, whatever is evicted and in whatever order the orphans are retried.
THEOREM OrphansStayIndexed == Spec => []OrphansIndexed
<1>1. IInv => OrphansIndexed
  BY Zenon DEF IInv, NodeOK, OrphansOK
<1> QED
  BY <1>1, InitIInv, NextIInv, PTL DEF Spec

\* CreateNewBlock throws the pool away only because of a coinstake that went stale: whatever
\* it picks from a pool that belongs to the chain is a valid block, for any pool, any order
\* of the transactions that respects what they depend on, and any size of the block.
THEOREM ClearedForStaleStakeOnly == Spec => PoolClearedForStaleStakeOnly
<1> DEFINE A == (miner.pc = "ready" /\ miner' = Idle) =>
                  \/ ~StakeFits
                  \/ miner.stake # NoStake /\ \E o \in Ins[miner.stake] :
                       o \notin Unspent(chain) \/ Immature(o, chain) \/ o \in DOMAIN mapNextTx
<1>1. ASSUME IInv, [Next]_vars PROVE [A]_vars
  <2> SUFFICES ASSUME Next, miner.pc = "ready", miner' = Idle PROVE A
    BY <1>1, Zenon
  <2>1. CASE TemplateRefused
    <3> SUFFICES ASSUME StakeFits,
                        miner.stake # NoStake => \A o \in Ins[miner.stake] :
                          o \in Unspent(chain) /\ ~Immature(o, chain) /\ o \notin DOMAIN mapNextTx
                 PROVE  FALSE
      BY Zenon
    <3>1. PICK cb \in NewCoinBase, vtx \in Fillings :
            ~StakeFits \/ ~TestBlockValidity(BlockOf(cb, miner.stake, vtx), vtx)
      BY <2>1, Zenon DEF TemplateRefused
    <3> QED
      BY <1>1, <3>1, TemplateValid, Zenon
  <2>2. CASE PoolNext(world.tx) /\ UNCHANGED <<miner, world>>
    BY <2>2 DEF Idle
  <2>3. CASE BlockAccepted
    BY <2>3, Zenon DEF BlockAccepted
  <2> HIDE DEF A
  <2> QED
    BY <1>1, <2>1, <2>2, <2>3, MinerStep, MadeStep, Zenon DEF Next
<1> QED
  BY <1>1, InitIInv, NextIInv, PTL DEF Spec, PoolClearedForStaleStakeOnly

=============================================================================
