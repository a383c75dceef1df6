----------------------- MODULE ChainActivationProofs -----------------------
(***************************************************************************)
(* Proofs about the block index and the choice of the active chain, for    *)
(* every block tree, every order of arrival, any number of threads and any *)
(* invalid blocks.                                                         *)
(*                                                                         *)
(* The invariant has five layers, each of which needs the ones before it:  *)
(* what is linked and what waits; what the candidates and the holder of    *)
(* cs_main are worth; that the active chain is free of failed blocks; that *)
(* every failed block lies above an invalid one; and that the best block   *)
(* is not forgotten.  The last is the hard one.  A reorganisation that     *)
(* meets an invalid block leaves a tip worse than blocks already pruned    *)
(* from the candidates, so "every good block at least as good as the tip   *)
(* is a candidate" is false.  What survives is an anchor: some block that  *)
(* was active before, is still good, and is at least as good as the tip,   *)
(* such that all good blocks from it upwards are candidates.               *)
(***************************************************************************)
EXTENDS ChainActivation, FiniteSetTheorems, TLAPS

\* A node that invalidates blocks is not killed: InvalidateBlock writes the index, with the
\* blocks marked, before the chain is shortened
NotKilledWhileInvalidating == ~({"invalidate", "crash"} \subseteq scenario.ops)

\* The behaviours that the last layer is about
Quiet == NothingReconsidered /\ NotKilledWhileInvalidating

Saved ==
  [known : SUBSET Block, data : SUBSET Block, failedValid : SUBSET (Block \ {Genesis}),
   failedChild : SUBSET (Block \ {Genesis}), tip : Block]

\* An index, in memory or on disk, has the data of its whole active chain
IndexOK(saved) == saved \in Saved /\ Chain[saved.tip] \subseteq saved.data

IndexInv ==
  /\ IndexOK(Snapshot(tip)) /\ IndexOK(disk)
  /\ disk.tip \in Chain[tip]
  /\ linked = {b \in data : Chain[b] \subseteq data}
  /\ unlinked = data \ linked
  /\ seq \in [Block -> Nat] /\ nBlockSequenceId \in Nat
  /\ scenario \in Scenario

CandidatesOK == \A c \in candidates : c \in linked /\ ~Worse(c, tip, seq)

\* Nobody holds cs_main, or a usable candidate better than the old tip is being made
\* active, or an invalid block is being removed, or more blocks are left than are replayed
JobOK ==
  \/ job = Idle
  \/ /\ job \in [op : {"activate"}, thread : Thread, target : candidates, old : Block]
     /\ Worse(job.old, job.target, seq)
     /\ Usable(job.target)
  \/ /\ job \in [op : {"invalidate"}, thread : Thread, target : failedValid]
     /\ "invalidate" \in scenario.ops
  \/ /\ job \in [op : {"replay"}, thread : Thread, left : Nat]
     /\ "replay" \in scenario.ops
     /\ job.left < Cardinality(Chain[tip])

ThreadsOK ==
  /\ thr \in [Thread -> Block \cup {Out, Loop, Replay, Flushing}]
  /\ \A t \in Thread : thr[t] = Replay => "replay" \in scenario.ops

JobInv == CandidatesOK /\ JobOK /\ ThreadsOK

\* Failed blocks are on the active chain only while it is being cut below them
CutBelowFailed ==
  \A x \in Chain[tip] \cap Failed : job.op = "invalidate" /\ job.target \in Chain[x]

SavedActive == Chain[disk.tip] \cap (disk.failedValid \cup disk.failedChild) = {}

ActiveInv ==
  NotKilledWhileInvalidating => CutBelowFailed /\ ("crash" \in scenario.ops => SavedActive)

Explained(valid, child) == \A b \in valid \cup child : Chain[b] \cap valid # {}

FailedInv ==
  NothingReconsidered =>
    Explained(failedValid, failedChild) /\ Explained(disk.failedValid, disk.failedChild)

Anchor(r) ==
  /\ Chain[r] \cap (failedValid \cup scenario.badConnect) = {}
  /\ ~Worse(r, tip, seq)
  /\ \A b \in linked : ~HasInvalidAncestor(b) /\ ~Worse(b, r, seq) => b \in candidates

\* Connecting has never failed for a block of the active chain
TipConnects == refused = {} /\ Chain[tip] \cap scenario.badConnect = {}

Anchored == job.op # "invalidate" => \E r \in linked : Anchor(r)

\* What is being made active is the best there is
TargetIsBest ==
  job.op = "activate" => \A b \in linked : ~HasInvalidAncestor(b) => ~Worse(job.target, b, seq)

\* A thread that is going to look at the candidates again
Busy(t) == thr[t] = Loop \/ (thr[t] \in Block /\ thr[t] # tip)

BestOrBusy == job = Idle => (\A b \in linked : ~Better(b)) \/ \E t \in Thread : Busy(t)

BestInv == Quiet => TipConnects /\ Anchored /\ TargetIsBest /\ BestOrBusy

IInv == IndexInv /\ JobInv /\ ActiveInv /\ FailedInv /\ BestInv

-----------------------------------------------------------------------------
(* Chains of blocks *)

\* A set of natural numbers that is not empty has a least element
LEMMA Least ==
  ASSUME NEW T \in SUBSET Nat, T # {}
  PROVE  \E x \in T : \A y \in T : x <= y
<1>1. \E R : IsWellFoundedOn(R, Nat) /\ \A x, y \in Nat : <<y, x>> \in R <=> y < x
  <2>1. \A x, y \in Nat : <<y, x>> \in OpToRel(<, Nat) <=> y < x
    BY Zenon DEF OpToRel
  <2> QED
    BY <2>1, NatLessThanWellFounded, Zenon
<1>2. PICK R : IsWellFoundedOn(R, Nat) /\ \A x, y \in Nat : <<y, x>> \in R <=> y < x
  BY <1>1, Zenon
<1>3. PICK x \in T : \A y \in T : ~(<<y, x>> \in R)
  BY <1>2, WFMin, Zenon
<1>4. ASSUME NEW y \in T PROVE x <= y
  <2>1. x \in Nat /\ y \in Nat
    BY Zenon
  <2>2. ~(y < x)
    BY <2>1, <1>2, <1>3, Zenon
  <2> QED
    BY <2>1, <2>2
<1> QED
  BY <1>4, Zenon

Closed(S) == \A x \in S \ {Genesis} : Prev[x] \in S
Closure(b) == {x \in Block : \A S \in SUBSET Block : b \in S /\ Closed(S) => x \in S}

\* The recursive definition of Chain has a solution: the least set with b that is closed
\* under Prev
LEMMA ChainDef ==
  Chain = [b \in Block |-> IF b = Genesis THEN {b} ELSE {b} \cup Chain[Prev[b]]]
<1> DEFINE G == [b \in Block |-> Closure(b)]
<1>1. ASSUME NEW b \in Block PROVE b = Genesis => Closure(b) = {b}
  <2>1. Closed({Genesis})
    BY Zenon DEF Closed
  <2> QED
    BY <2>1, TreeAssumption, Zenon DEF Closure
<1>2. ASSUME NEW b \in Block, b # Genesis PROVE Closure(b) = {b} \cup Closure(Prev[b])
  <2> USE <1>2
  <2>1. Closure(Prev[b]) \subseteq Closure(b) /\ b \in Closure(b) /\ Closure(b) \subseteq Block
    BY TreeAssumption, Zenon DEF Closure, Closed
  <2>2. Closed({b} \cup Closure(Prev[b]))
    <3>1. Prev[b] \in Closure(Prev[b])
      BY TreeAssumption, Zenon DEF Closure
    <3>2. ASSUME NEW x \in Closure(Prev[b]), x # Genesis PROVE Prev[x] \in Closure(Prev[b])
      BY <3>2, TreeAssumption, Zenon DEF Closure, Closed
    <3> QED
      BY <3>1, <3>2, Zenon DEF Closed
  <2>3. ({b} \cup Closure(Prev[b])) \in SUBSET Block
    BY Zenon DEF Closure
  <2>4. Closure(b) \subseteq {b} \cup Closure(Prev[b])
    BY <2>2, <2>3, Zenon DEF Closure
  <2> QED
    BY <2>1, <2>4, Zenon
<1>3. G = [b \in Block |-> IF b = Genesis THEN {b} ELSE {b} \cup G[Prev[b]]]
  BY <1>1, <1>2, TreeAssumption, Zenon
<1> HIDE DEF G
<1> QED
  BY <1>3, Zenon DEF Chain

LEMMA ChainStep ==
  /\ Chain[Genesis] = {Genesis}
  /\ \A b \in Block \ {Genesis} : Prev[b] \in Block /\ Chain[b] = {b} \cup Chain[Prev[b]]
BY ChainDef, TreeAssumption, Zenon

\* What holds of the genesis block and of a block whenever it holds of its parent, holds
\* of every block: a counterexample of least work would have a parent with less
LEMMA BlockInduction ==
  ASSUME NEW S, Genesis \in S, \A b \in Block \ {Genesis} : Prev[b] \in S => b \in S
  PROVE  Block \subseteq S
<1> SUFFICES ASSUME Block \ S # {} PROVE FALSE
  BY Zenon
<1> DEFINE T == {Work[b] : b \in Block \ S}
<1>1. T \in SUBSET Nat /\ T # {}
  BY TreeAssumption
<1>2. PICK w \in T : \A y \in T : w <= y
  <2> HIDE DEF T
  <2> QED
    BY <1>1, Least, Zenon
<1>3. PICK b \in Block \ S : w = Work[b]
  BY <1>2, Zenon
<1>4. b # Genesis /\ Prev[b] \in Block \ S
  BY <1>3, TreeAssumption, Zenon
<1>5. Work[b] <= Work[Prev[b]] /\ Work[Prev[b]] < Work[b]
  BY <1>2, <1>3, <1>4, TreeAssumption
<1>6. Work[b] \in Nat /\ Work[Prev[b]] \in Nat
  BY <1>4, TreeAssumption, Zenon
<1> QED
  BY <1>5, <1>6

\* A chain is a set of blocks from the genesis block to its end, and work grows along it
LEMMA ChainBasic ==
  \A b \in Block :
    /\ Chain[b] \subseteq Block /\ b \in Chain[b] /\ Genesis \in Chain[b]
    /\ \A c \in Chain[b] : c = b \/ Work[c] < Work[b]
<1> DEFINE P(b) == /\ Chain[b] \subseteq Block /\ b \in Chain[b] /\ Genesis \in Chain[b]
                   /\ \A c \in Chain[b] : c = b \/ Work[c] < Work[b]
           S == {b \in Block : P(b)}
<1>1. Genesis \in S
  BY ChainStep, TreeAssumption, Zenon
<1>2. ASSUME NEW b \in Block \ {Genesis}, Prev[b] \in S PROVE b \in S
  <2>1. /\ b \in Block /\ Prev[b] \in Block /\ Chain[b] = {b} \cup Chain[Prev[b]]
        /\ Work[Prev[b]] < Work[b] /\ Work \in [Block -> Nat]
    BY ChainStep, TreeAssumption, Zenon
  <2>2. P(Prev[b])
    BY <1>2, Zenon
  <2>3. ASSUME NEW c \in Chain[Prev[b]] PROVE Work[c] < Work[b]
    <3>1. Work[c] \in Nat /\ Work[b] \in Nat /\ Work[Prev[b]] \in Nat
      BY <2>1, <2>2, Zenon
    <3> QED
      BY <2>1, <2>2, <3>1
  <2>4. P(b)
    BY <2>1, <2>2, <2>3, Zenon
  <2> QED
    BY <2>4, Zenon
<1> HIDE DEF S
<1>3. Block \subseteq S
  BY <1>1, <1>2, BlockInduction, Zenon
<1> QED
  BY <1>3, Zenon DEF S

\* An ancestor of an ancestor is one
LEMMA ChainTrans == \A b \in Block : \A c \in Chain[b] : Chain[c] \subseteq Chain[b]
<1> DEFINE S == {b \in Block : \A c \in Chain[b] : Chain[c] \subseteq Chain[b]}
<1>1. Genesis \in S
  BY ChainStep, TreeAssumption, Zenon
<1>2. ASSUME NEW b \in Block \ {Genesis}, Prev[b] \in S PROVE b \in S
  BY <1>2, ChainStep
<1> HIDE DEF S
<1>3. Block \subseteq S
  BY <1>1, <1>2, BlockInduction, Zenon
<1> QED
  BY <1>3, Zenon DEF S

\* Of two ancestors of a block one is an ancestor of the other
LEMMA ChainTotal == \A b \in Block : \A c, d \in Chain[b] : c \in Chain[d] \/ d \in Chain[c]
<1> DEFINE S == {b \in Block : \A c, d \in Chain[b] : c \in Chain[d] \/ d \in Chain[c]}
<1>1. Genesis \in S
  BY ChainStep, TreeAssumption, Zenon
<1>2. ASSUME NEW b \in Block \ {Genesis}, Prev[b] \in S PROVE b \in S
  BY <1>2, ChainStep
<1> HIDE DEF S
<1>3. Block \subseteq S
  BY <1>1, <1>2, BlockInduction, Zenon
<1> QED
  BY <1>3, Zenon DEF S

\* The block after an ancestor, on the way to a block
LEMMA ChainNext ==
  \A b \in Block : \A c \in Chain[b] \ {b} : \E d \in Chain[b] \ {Genesis} : Prev[d] = c
<1> DEFINE S == {b \in Block : \A c \in Chain[b] \ {b} : \E d \in Chain[b] \ {Genesis} : Prev[d] = c}
<1>1. Genesis \in S
  BY ChainStep, TreeAssumption, Zenon
<1>2. ASSUME NEW b \in Block \ {Genesis}, Prev[b] \in S PROVE b \in S
  BY <1>2, ChainStep, ChainBasic
<1> HIDE DEF S
<1>3. Block \subseteq S
  BY <1>1, <1>2, BlockInduction, Zenon
<1> QED
  BY <1>3, Zenon DEF S

\* A block is not its parent's ancestor, and a chain is one longer than the parent's
LEMMA ChainShorter ==
  \A b \in Block \ {Genesis} :
    /\ b \notin Chain[Prev[b]]
    /\ Cardinality(Chain[b]) \in Nat
    /\ Cardinality(Chain[Prev[b]]) = Cardinality(Chain[b]) - 1
<1> SUFFICES ASSUME NEW b \in Block \ {Genesis}
             PROVE  /\ b \notin Chain[Prev[b]]
                    /\ Cardinality(Chain[b]) \in Nat
                    /\ Cardinality(Chain[Prev[b]]) = Cardinality(Chain[b]) - 1
  BY Zenon
<1>1. Prev[b] \in Block /\ Work[Prev[b]] < Work[b] /\ Work[Prev[b]] \in Nat /\ Work[b] \in Nat
  BY TreeAssumption, Zenon
<1>2. b \notin Chain[Prev[b]]
  BY <1>1, ChainBasic
<1>3. IsFiniteSet(Chain[b])
  BY TreeAssumption, ChainBasic, FS_Subset, Zenon
<1>4. Chain[Prev[b]] = Chain[b] \ {b} /\ b \in Chain[b]
  BY <1>2, ChainStep
<1> QED
  BY <1>2, <1>3, <1>4, FS_RemoveElement, FS_CardinalityType, Zenon

-----------------------------------------------------------------------------
(* The order of the candidates *)

\* CBlockIndexWorkComparator is a strict total order
LEMMA WorseOrder ==
  ASSUME NEW s \in [Block -> Nat]
  PROVE  /\ \A a \in Block : ~Worse(a, a, s)
         /\ \A a, b \in Block : Worse(a, b, s) => ~Worse(b, a, s)
         /\ \A a, b \in Block : a # b => Worse(a, b, s) \/ Worse(b, a, s)
         /\ \A a, b, c \in Block : Worse(a, b, s) /\ Worse(b, c, s) => Worse(a, c, s)
         /\ \A a, b, c \in Block : ~Worse(a, b, s) /\ ~Worse(b, c, s) => ~Worse(a, c, s)
<1>1. \A a \in Block : Work[a] \in Nat /\ Addr[a] \in Nat /\ s[a] \in Nat
  BY TreeAssumption, Zenon
<1>2. \A a, b \in Block : Addr[a] = Addr[b] => a = b
  BY TreeAssumption, Zenon
<1> QED
  BY <1>1, <1>2 DEF Worse

\* An ancestor sorts before its descendants
LEMMA AncestorWorse ==
  ASSUME NEW b \in Block, NEW c \in Chain[b], NEW s \in [Block -> Nat]
  PROVE  c \in Block /\ ~Worse(b, c, s)
<1>1. c \in Block /\ (c = b \/ Work[c] < Work[b])
  BY ChainBasic, Zenon
<1>2. CASE c = b
  BY <1>2, WorseOrder, Zenon
<1>3. CASE Work[c] < Work[b]
  BY <1>1, <1>3, TreeAssumption, WorseOrder, Zenon DEF Worse
<1> QED
  BY <1>1, <1>2, <1>3, Zenon

\* The order depends only on the sequence ids of the two blocks
LEMMA WorseSame ==
  ASSUME NEW a, NEW b, NEW s, NEW r, s[a] = r[a], s[b] = r[b]
  PROVE  Worse(a, b, s) <=> Worse(a, b, r)
BY Zenon DEF Worse

\* A set of blocks that is not empty has a best element: one that the fewest are better than
LEMMA BestExists ==
  ASSUME NEW S \in SUBSET Block, S # {}, NEW s \in [Block -> Nat]
  PROVE  \E m \in S : \A c \in S \ {m} : Worse(c, m, s)
<1> DEFINE Above(x) == {c \in S : Worse(x, c, s)}
           T == {Cardinality(Above(x)) : x \in S}
<1>1. \A x : IsFiniteSet(Above(x)) /\ Cardinality(Above(x)) \in Nat
  <2>1. \A x : Above(x) \in SUBSET Block
    BY Zenon
  <2> QED
    BY <2>1, TreeAssumption, FS_Subset, FS_CardinalityType, Zenon
<1>2. T \in SUBSET Nat /\ T # {}
  BY <1>1, Zenon
<1>3. PICK n \in T : \A y \in T : n <= y
  <2> HIDE DEF T
  <2> QED
    BY <1>2, Least, Zenon
<1>4. PICK m \in S : n = Cardinality(Above(m))
  BY <1>3, Zenon
<1>5. ASSUME NEW c \in S \ {m} PROVE Worse(c, m, s)
  <2> SUFFICES ASSUME ~Worse(c, m, s) PROVE FALSE
    BY Zenon
  <2>1. Worse(m, c, s)
    BY WorseOrder, Zenon
  <2>2. Above(c) \subseteq Above(m) /\ c \in Above(m) /\ c \notin Above(c)
    BY <2>1, WorseOrder, Zenon
  <2>3. Cardinality(Above(c)) <= Cardinality(Above(m)) /\ Cardinality(Above(c)) # Cardinality(Above(m))
    BY <2>2, <1>1, FS_Subset, Zenon
  <2>4. Cardinality(Above(m)) <= Cardinality(Above(c))
    BY <1>3, <1>4, Zenon
  <2> HIDE DEF Above
  <2> QED
    BY <2>3, <2>4, <1>1
<1> QED
  BY <1>5, Zenon

\* The candidates that FindMostWorkChain passes over, down to the nearest failed block
Dropped == UNION {AboveFailed(c) \cup {NearestFailed(c)} : c \in PassedOver}

\* A candidate that cannot be used has a nearest failed block on its path
LEMMA NearestFailedExists ==
  ASSUME NEW c \in Block, ~Usable(c)
  PROVE  NearestFailed(c) \in Path(c) \cap Failed
<1> DEFINE S == Path(c) \cap Failed
           T == {Work[c] - Work[x] : x \in S}
<1>1. S # {} /\ \A x \in S : x \in Block /\ x \in Chain[c] /\ Work[x] \in Nat /\ Work[x] <= Work[c]
  BY ChainBasic, TreeAssumption DEF Usable, Path
<1> USE <1>1
<1>2. Work[c] \in Nat
  BY TreeAssumption, Zenon
<1>3. T \in SUBSET Nat /\ T # {}
  BY <1>2
<1>4. PICK n \in T : \A y \in T : n <= y
  <2> HIDE DEF T
  <2> QED
    BY <1>3, Least, Zenon
<1>5. PICK f \in S : n = Work[c] - Work[f]
  BY <1>4, Zenon
<1>6. ASSUME NEW g \in S PROVE g \in Chain[f]
  <2>1. Work[c] - Work[f] <= Work[c] - Work[g]
    BY <1>4, <1>5, Zenon
  <2>2. ~(Work[f] < Work[g])
    BY <2>1, <1>2
  <2>3. g \in Chain[f] \/ f \in Chain[g]
    BY ChainTotal, Zenon
  <2>4. f \in Chain[g] => f = g
    BY <2>2, ChainBasic, Zenon
  <2> QED
    BY <2>3, <2>4, ChainBasic, Zenon
<1> QED
  BY <1>5, <1>6, Zenon DEF NearestFailed

\* What FindMostWorkChain marks or drops lies above a failed block off the active chain
LEMMA DroppedFailed ==
  ASSUME candidates \subseteq Block
  PROVE  \A x \in Dropped :
           x \in Block /\ \E f \in Failed \cap Block : f \in Chain[x] /\ f \notin Chain[tip]
<1> SUFFICES ASSUME NEW c \in PassedOver, NEW x \in AboveFailed(c) \cup {NearestFailed(c)}
             PROVE  x \in Block /\ \E f \in Failed \cap Block : f \in Chain[x] /\ f \notin Chain[tip]
  BY Zenon DEF Dropped
<1> DEFINE f == NearestFailed(c)
<1>1. c \in Block /\ ~Usable(c)
  BY Zenon DEF PassedOver
<1>2. f \in Chain[c] /\ f \notin Chain[tip] /\ f \in Failed
  BY <1>1, NearestFailedExists, Zenon DEF Path
<1>3. x \in Chain[c] /\ (x = f \/ x \notin Chain[f])
  BY <1>2, Zenon DEF AboveFailed
<1> HIDE DEF f
<1>4. f \in Chain[x] /\ x \in Block /\ f \in Block
  BY <1>1, <1>2, <1>3, ChainTotal, ChainBasic, Zenon
<1> QED
  BY <1>2, <1>4, Zenon

\* The block that ActivateBestChainStep connects next
LEMMA NextBlockFacts ==
  ASSUME job.target \in Block, tip \in Chain[job.target] \ {job.target}
  PROVE  /\ NextBlock \in Chain[job.target] \ {Genesis} /\ NextBlock \in Block
         /\ Prev[NextBlock] = tip
         /\ Chain[NextBlock] = {NextBlock} \cup Chain[tip]
         /\ NextBlock \notin Chain[tip]
<1>1. \E b \in Chain[job.target] \ {Genesis} : Prev[b] = tip
  BY ChainNext, Zenon
<1>2. NextBlock \in Chain[job.target] \ {Genesis} /\ Prev[NextBlock] = tip
  BY <1>1, Zenon DEF NextBlock
<1>3. NextBlock \in Block
  BY <1>2, ChainBasic, Zenon
<1> QED
  BY <1>2, <1>3, ChainStep, ChainShorter, Zenon

-----------------------------------------------------------------------------
(* The index: what is linked, what waits, what is on disk *)

\* What is on disk, or would be if tip x were flushed now
LEMMA SnapshotOK ==
  ASSUME NEW x
  PROVE  IndexOK(Snapshot(x)) <=>
           /\ known \in SUBSET Block /\ data \in SUBSET Block
           /\ failedValid \in SUBSET (Block \ {Genesis})
           /\ failedChild \in SUBSET (Block \ {Genesis})
           /\ x \in Block /\ Chain[x] \subseteq data
BY Zenon DEF IndexOK, Saved, Snapshot

\* The five layers hold when the node has only the genesis block
LEMMA InitIInv == Init => IInv
<1> SUFFICES ASSUME Init PROVE IInv
  BY Zenon
<1>1. Chain[Genesis] = {Genesis} /\ Genesis \in Block
  BY ChainStep, TreeAssumption, Zenon
<1>2. /\ known = {Genesis} /\ data = {Genesis} /\ linked = {Genesis} /\ unlinked = {}
      /\ failedValid = {} /\ failedChild = {} /\ candidates = {Genesis} /\ tip = Genesis
  BY Zenon DEF Init
<1>3. refused = {} /\ thr = [t \in Thread |-> Out] /\ job = Idle /\ scenario \in Scenario
  BY Zenon DEF Init
<1>4. seq \in [Block -> Nat] /\ nBlockSequenceId \in Nat
  <2>1. seq = [b \in Block |-> IF b = Genesis THEN 1 ELSE 0] /\ nBlockSequenceId = 2
    BY Zenon DEF Init
  <2> QED
    BY <2>1, Zenon
<1>5. disk = Snapshot(Genesis)
  BY Zenon DEF Init
<1>6. disk.tip = Genesis /\ disk.failedValid = {} /\ disk.failedChild = {}
  BY <1>2, <1>5, Zenon DEF Snapshot
<1>7. IndexOK(Snapshot(Genesis))
  BY <1>1, <1>2, SnapshotOK, Zenon
<1>8. IndexInv
  BY <1>1, <1>2, <1>3, <1>4, <1>5, <1>6, <1>7, Zenon DEF IndexInv
<1>9. ~Worse(Genesis, Genesis, seq)
  BY <1>1, <1>4, WorseOrder, Zenon
<1>10. CandidatesOK
  BY <1>2, <1>9, Zenon DEF CandidatesOK
<1>11. JobOK
  BY <1>3, Zenon DEF JobOK
<1>12. ThreadsOK
  BY <1>3, Zenon DEF ThreadsOK, Out, Replay
<1>13. CutBelowFailed
  BY <1>2, Zenon DEF CutBelowFailed, Failed
<1>14. SavedActive
  BY <1>6, Zenon DEF SavedActive
<1>15. FailedInv
  BY <1>2, <1>6, Zenon DEF FailedInv, Explained
<1>16. TipConnects
  <2>1. scenario.badConnect \in SUBSET (Block \ {Genesis})
    BY <1>3, ParameterAssumption, Zenon
  <2> QED
    BY <2>1, <1>1, <1>2, <1>3, Zenon DEF TipConnects
<1>17. Anchored
  BY <1>1, <1>2, <1>9, <1>16, Zenon DEF Anchored, Anchor, TipConnects
<1>18. TargetIsBest
  BY <1>3, Zenon DEF TargetIsBest, Idle
<1>19. BestOrBusy
  <2>1. ~(Work[Genesis] > Work[Genesis])
    BY <1>1, TreeAssumption
  <2> QED
    BY <2>1, <1>2, Zenon DEF BestOrBusy, Better
<1> QED
  BY <1>8, <1>10, <1>11, <1>12, <1>13, <1>14, <1>15, <1>16, <1>17, <1>18, <1>19, Zenon
  DEF IInv, JobInv, ActiveInv, BestInv

LEMMA IndexFacts ==
  ASSUME IndexInv
  PROVE  /\ known \in SUBSET Block /\ data \in SUBSET Block
         /\ failedValid \in SUBSET (Block \ {Genesis})
         /\ failedChild \in SUBSET (Block \ {Genesis})
         /\ tip \in Block /\ Chain[tip] \subseteq data /\ tip \in linked
         /\ linked \in SUBSET Block /\ linked \subseteq data
         /\ \A b \in linked : Chain[b] \subseteq linked
         /\ disk.tip \in Block /\ Chain[disk.tip] \subseteq Chain[tip]
<1>1. /\ known \in SUBSET Block /\ data \in SUBSET Block
      /\ failedValid \in SUBSET (Block \ {Genesis})
      /\ failedChild \in SUBSET (Block \ {Genesis})
      /\ tip \in Block /\ Chain[tip] \subseteq data
  BY SnapshotOK, Zenon DEF IndexInv
<1>2. linked = {b \in data : Chain[b] \subseteq data} /\ disk.tip \in Chain[tip]
  BY Zenon DEF IndexInv
<1>3. \A b \in linked : Chain[b] \subseteq linked
  BY <1>1, <1>2, ChainTrans, Zenon
<1> QED
  BY <1>1, <1>2, <1>3, ChainBasic, ChainTrans, Zenon

\* The actions, with what the rest of the proof needs to know of their parameters
LEMMA NextCases ==
  ASSUME scenario \in Scenario, [Next]_vars
  PROVE  /\ scenario' = scenario
         /\ \/ UNCHANGED vars
            \/ StepDisconnect \/ StepConnect \/ StepInvalid
            \/ InvalidateDisconnect \/ InvalidateRestore \/ ReplayDisconnect \/ ReplayDone
            \/ \E t \in Thread :
                 \/ ActivateBestChain(t) \/ LoopCondition(t) \/ LeaveLoop(t)
                 \/ DisconnectBlocksAndReprocess(t) \/ Restart(t)
            \/ \E t \in Thread, b \in Block \ {Genesis} :
                 \/ AcceptBlockHeader(b) \/ ProcessNewBlock(t, b) \/ InvalidateBlock(t, b)
                 \/ ReconsiderBlock(t, b) \/ ReprocessBlocks(t, b) \/ ReprocessReconsider(t, b)
<1>1. scenario.arriving \subseteq Block \ {Genesis}
  BY ParameterAssumption, Zenon
<1>2. CASE UNCHANGED vars
  BY <1>2, Zenon DEF vars
<1>3. CASE JobStep
  BY <1>3, Zenon DEF JobStep
<1>4. ASSUME NEW t \in Thread, LoopStep(t) \/ ReplayStep(t) \/ (Restart(t) /\ UNCHANGED scenario)
      PROVE  /\ scenario' = scenario
             /\ \/ ActivateBestChain(t) \/ LoopCondition(t) \/ LeaveLoop(t)
                \/ DisconnectBlocksAndReprocess(t) \/ Restart(t)
  BY <1>4, Zenon DEF LoopStep, ReplayStep
<1>5. ASSUME NEW t \in Thread, NEW b \in scenario.arriving, External(t, b)
      PROVE  /\ scenario' = scenario /\ b \in Block \ {Genesis}
             /\ \/ AcceptBlockHeader(b) \/ ProcessNewBlock(t, b) \/ InvalidateBlock(t, b)
                \/ ReconsiderBlock(t, b) \/ ReprocessBlocks(t, b) \/ ReprocessReconsider(t, b)
  BY <1>1, <1>5, Zenon DEF External
<1> QED
  BY <1>2, <1>3, <1>4, <1>5, Zenon DEF Next

\* A block's data arrive: it and the blocks that waited for it alone are linked
LEMMA ReceivedLinks ==
  ASSUME IndexInv, NEW b \in Block \ {Genesis}, b \notin data, Prev[b] \notin Failed,
         ReceivedBlockTransactions(b)
  PROVE  /\ data' = data \cup {b}
         /\ linked' = {c \in data' : Chain[c] \subseteq data'}
         /\ unlinked' = data' \ linked'
         /\ seq' \in [Block -> Nat] /\ nBlockSequenceId' \in Nat
         /\ linked \subseteq linked'
         /\ \A c \in linked : seq'[c] = seq[c]
         /\ \A c \in linked' \ linked : ~Worse(c, tip, seq') => c \in candidates'
         /\ \A c \in candidates' \ candidates : ~Worse(c, tip, seq') /\ c \in linked'
         /\ candidates \subseteq candidates'
<1> DEFINE new == NewlyLinked(b)
<1>1. /\ data \in SUBSET Block /\ b \in Block /\ b # Genesis /\ Prev[b] \in Block
      /\ linked = {c \in data : Chain[c] \subseteq data} /\ unlinked = data \ linked
      /\ data' = data \cup {b}
      /\ seq \in [Block -> Nat] /\ nBlockSequenceId \in Nat
  BY IndexFacts, ChainStep, Zenon DEF IndexInv, ReceivedBlockTransactions
<1> USE <1>1
<1>2. CASE Prev[b] \in linked
  <2>1. Chain[b] \subseteq data'
    BY <1>2, ChainStep, Zenon
  <2>2. new \subseteq Block /\ b \in new /\ new \cap linked = {}
    BY ChainBasic, Zenon DEF NewlyLinked
  <2>3. ASSUME NEW c \in new PROVE c \in data' /\ Chain[c] \subseteq data'
    BY <2>1, Zenon DEF NewlyLinked
  <2>4. ASSUME NEW c \in data', Chain[c] \subseteq data', c \notin linked PROVE c \in new
    <3> USE <2>4
    <3>1. c \in Block /\ b \in Chain[c]
      BY ChainBasic, Zenon
    <3>2. ASSUME NEW x \in Chain[c], x \notin Chain[b] PROVE x \in unlinked
      <4>1. x \in Block /\ b \in Chain[x] /\ x # b
        BY <3>1, <3>2, ChainTotal, ChainBasic, Zenon
      <4> QED
        BY <4>1, <3>2, Zenon
    <3>3. c = b \/ c \in unlinked
      BY Zenon
    <3> QED
      BY <3>1, <3>2, <3>3, Zenon DEF NewlyLinked
  <2>5. IsFiniteSet(new) /\ Cardinality(new) \in Nat
    BY <2>2, TreeAssumption, FS_Subset, FS_CardinalityType, Zenon
  <2> HIDE DEF new
  <2>6. PICK s \in [new -> nBlockSequenceId..(nBlockSequenceId + Cardinality(new) - 1)] :
          /\ seq' = [c \in Block |-> IF c \in new THEN s[c] ELSE seq[c]]
          /\ nBlockSequenceId' = nBlockSequenceId + Cardinality(new)
          /\ linked' = linked \cup new
          /\ candidates' = candidates \cup {c \in new : ~Worse(c, tip, seq')}
          /\ unlinked' = unlinked \ new
    BY <1>2, Zenon DEF ReceivedBlockTransactions, new
  <2> USE <2>6
  <2>7. \A c \in new : s[c] \in Nat
    BY <2>5
  <2>8. seq' \in [Block -> Nat] /\ nBlockSequenceId' \in Nat
    BY <2>5, <2>7
  <2>9. linked' = {c \in data' : Chain[c] \subseteq data'} /\ unlinked' = data' \ linked'
    BY <2>2, <2>3, <2>4, Zenon
  <2>10. \A c \in linked : seq'[c] = seq[c]
    BY <2>2, Zenon
  <2> QED
    BY <2>8, <2>9, <2>10, Zenon
<1>3. CASE Prev[b] \notin linked
  <2>1. unlinked' = unlinked \cup {b} /\ UNCHANGED <<linked, seq, nBlockSequenceId, candidates>>
    BY <1>3, Zenon DEF ReceivedBlockTransactions
  <2>2. ASSUME NEW c \in data', Chain[c] \subseteq data' PROVE b \notin Chain[c]
    <3> SUFFICES ASSUME b \in Chain[c] PROVE FALSE
      BY Zenon
    <3>1. Chain[b] \subseteq data' /\ Chain[Prev[b]] \subseteq Chain[b] /\ b \notin Chain[Prev[b]]
      BY <2>2, ChainTrans, ChainStep, ChainShorter
    <3>2. Chain[Prev[b]] \subseteq data /\ Prev[b] \in Chain[Prev[b]]
      BY <3>1, ChainBasic, Zenon
    <3> QED
      BY <1>3, <3>2, Zenon
  <2>3. linked = {c \in data' : Chain[c] \subseteq data'}
    BY <2>2, ChainBasic, Zenon
  <2>4. b \notin linked
    BY Zenon
  <2> QED
    BY <2>1, <2>3, <2>4, Zenon
<1> QED
  BY <1>2, <1>3, Zenon

\* A step that leaves the index alone and moves the tip to a block whose chain is there
LEMMA IndexKept ==
  ASSUME IndexInv, UNCHANGED <<index, scenario>>,
         failedValid' \in SUBSET (Block \ {Genesis}), failedChild' \in SUBSET (Block \ {Genesis}),
         tip' \in linked, disk' = disk \/ IndexOK(disk'), disk'.tip \in Chain[tip']
  PROVE  IndexInv'
<1>1. IndexOK(disk')
  BY Zenon DEF IndexInv
<1>2. /\ UNCHANGED <<known, data, linked, seq, nBlockSequenceId, unlinked, scenario>>
      /\ known \in SUBSET Block /\ data \in SUBSET Block
      /\ tip' \in Block /\ Chain[tip'] \subseteq data
  BY IndexFacts, Zenon DEF index, IndexInv
<1>3. IndexOK(Snapshot(tip))'
  BY <1>2, Zenon DEF IndexOK, Snapshot, Saved
<1> QED
  BY <1>1, <1>2, <1>3, Zenon DEF IndexInv

\* LoadBlockIndexDB builds a consistent index from a consistent copy
LEMMA LoadOK ==
  ASSUME NEW saved, IndexOK(saved), LoadBlockIndexDB(saved), scenario' \in Scenario
  PROVE  /\ IndexInv'
         /\ candidates' = {c \in linked' \ Failed' : ~Worse(c, tip', seq')}
         /\ tip' = saved.tip /\ failedValid' = saved.failedValid /\ failedChild' = saved.failedChild
         /\ disk' = saved
<1>1. /\ known' = saved.known /\ data' = saved.data
      /\ failedValid' = saved.failedValid /\ failedChild' = saved.failedChild
      /\ linked' = {b \in data' : Chain[b] \subseteq data'}
      /\ unlinked' = {b \in data' \ {Genesis} : Prev[b] \notin linked'}
      /\ seq' = [b \in Block |-> 0] /\ nBlockSequenceId' = 1
      /\ tip' = saved.tip /\ disk' = saved
      /\ candidates' = LoadedCandidates(saved, seq')
  BY Zenon DEF LoadBlockIndexDB, LoadBlockIndexGuts, LoadedLinked, LoadedUnlinked
<1> USE <1>1
<1>2. IndexOK(Snapshot(tip))' /\ data' \in SUBSET Block /\ tip' \in Block
  BY Zenon DEF IndexOK, Snapshot, Saved
<1>3. Genesis \in data'
  BY <1>2, ChainBasic, Zenon DEF IndexOK
<1>4. ASSUME NEW b \in data' PROVE b \in unlinked' <=> b \notin linked'
  <2>1. CASE b = Genesis
    BY <2>1, <1>3, ChainStep, Zenon
  <2>2. CASE b # Genesis
    <3>1. b \in Block /\ Prev[b] \in Block /\ Chain[b] = {b} \cup Chain[Prev[b]]
      BY <2>2, <1>2, ChainStep, Zenon
    <3>2. b \in linked' <=> Prev[b] \in linked'
      BY <3>1, ChainBasic, Zenon
    <3> QED
      BY <2>2, <3>2, Zenon
  <2> QED
    BY <2>1, <2>2, Zenon
<1>5. unlinked' = data' \ linked'
  BY <1>4, Zenon
<1>6. disk'.tip \in Chain[tip']
  BY <1>2, ChainBasic, Zenon
<1>7. IndexInv'
  BY <1>2, <1>5, <1>6, Zenon DEF IndexInv
<1>8. candidates' = {c \in linked' \ Failed' : ~Worse(c, tip', seq')}
  BY Zenon DEF LoadedCandidates, LoadedValid, LoadedLinked, Prune, Failed
<1> QED
  BY <1>7, <1>8, Zenon

\* DisconnectTip leaves a good index in memory and on disk
LEMMA DisconnectOK ==
  ASSUME IndexInv, tip # Genesis, DisconnectTip
  PROVE  /\ tip' = Prev[tip] /\ tip' \in linked /\ tip' \in Block
         /\ Chain[tip'] = Chain[tip] \ {tip}
         /\ tip' \in Chain[tip] /\ tip \notin Chain[tip']
         /\ disk' = Snapshot(tip') /\ IndexOK(disk') /\ disk'.tip \in Chain[tip']
<1>1. tip \in Block \ {Genesis} /\ tip \in linked
  BY IndexFacts, Zenon
<1>2. tip' = Prev[tip] /\ disk' = Snapshot(tip')
  BY Zenon DEF DisconnectTip, UpdateTip
<1>3. /\ tip' \in Block /\ Chain[tip] = {tip} \cup Chain[tip'] /\ tip \notin Chain[tip']
      /\ tip' \in Chain[tip']
  BY <1>1, <1>2, ChainStep, ChainShorter, ChainBasic, Zenon
<1>4. tip' \in linked /\ Chain[tip'] \subseteq data
  BY <1>1, <1>3, IndexFacts, Zenon
<1>5. IndexOK(disk') /\ disk'.tip = tip'
  BY <1>2, <1>3, <1>4, IndexFacts, SnapshotOK, Zenon DEF Snapshot
<1> QED
  BY <1>2, <1>3, <1>4, <1>5, Zenon

\* What the operation of the holder of cs_main says
LEMMA JobFacts ==
  ASSUME IndexInv, JobInv
  PROVE  /\ job.op = "activate" =>
              /\ job \in [op : {"activate"}, thread : Thread, target : candidates, old : Block]
              /\ job.target \in linked /\ job.target \in Block
              /\ Worse(job.old, job.target, seq) /\ Usable(job.target)
         /\ job.op = "invalidate" =>
              /\ job \in [op : {"invalidate"}, thread : Thread, target : failedValid]
              /\ job.target \in Block \ {Genesis}
              /\ "invalidate" \in scenario.ops
         /\ job.op = "replay" =>
              /\ job \in [op : {"replay"}, thread : Thread, left : Nat]
              /\ "replay" \in scenario.ops
              /\ job.left < Cardinality(Chain[tip])
         /\ job = Idle <=> job.op = "idle"
         /\ job.op \in {"idle", "activate", "invalidate", "replay"}
BY IndexFacts DEF JobInv, CandidatesOK, JobOK, Idle

\* Only blocks above the genesis block are disconnected
LEMMA NotGenesis ==
  ASSUME IndexInv, JobInv, StepDisconnect \/ InvalidateDisconnect \/ ReplayDisconnect
  PROVE  tip # Genesis
<1>1. CASE StepDisconnect
  BY <1>1, JobFacts, ChainBasic, Zenon DEF StepDisconnect
<1>2. CASE InvalidateDisconnect
  BY <1>2, JobFacts, ChainStep, Zenon DEF InvalidateDisconnect
<1>3. CASE ReplayDisconnect
  <2>1. Cardinality(Chain[Genesis]) = 1
    BY ChainStep, FS_Singleton, Zenon
  <2>2. job.left \in Nat /\ job.left > 0 /\ job.left < Cardinality(Chain[tip])
    BY <1>3, JobFacts, Zenon DEF ReplayDisconnect
  <2> QED
    BY <2>1, <2>2
<1> QED
  BY <1>1, <1>2, <1>3, Zenon

\* The block that is connected next has its data, is not marked, and extends the tip
LEMMA ConnectFacts ==
  ASSUME IndexInv, JobInv, job.op = "activate", tip \in Chain[job.target] \ {job.target}
  PROVE  /\ NextBlock \in linked /\ NextBlock \in Block \ {Genesis}
         /\ NextBlock \in Chain[job.target] /\ NextBlock \notin Failed
         /\ Chain[NextBlock] = {NextBlock} \cup Chain[tip]
         /\ NextBlock \notin Chain[tip]
         /\ tip \in Chain[NextBlock]
<1>1. job.target \in Block /\ job.target \in linked /\ Usable(job.target) /\ tip \in Block
  BY JobFacts, IndexFacts, Zenon
<1>2. /\ NextBlock \in Chain[job.target] \ {Genesis} /\ NextBlock \in Block
      /\ Chain[NextBlock] = {NextBlock} \cup Chain[tip]
      /\ NextBlock \notin Chain[tip]
  BY <1>1, NextBlockFacts, Zenon
<1>3. NextBlock \in linked
  BY <1>1, <1>2, IndexFacts, Zenon
<1>4. NextBlock \notin Failed
  BY <1>1, <1>2, Zenon DEF Usable, Path
<1> QED
  BY <1>1, <1>2, <1>3, <1>4, ChainBasic, Zenon

\* Every step keeps the first layer
LEMMA IndexNext ==
  ASSUME IndexInv, JobInv, [Next]_vars
  PROVE  IndexInv'
<1>1. scenario' = scenario /\ scenario \in Scenario
  BY NextCases, Zenon DEF IndexInv
<1> USE <1>1
<1>2. /\ failedValid \in SUBSET (Block \ {Genesis}) /\ failedChild \in SUBSET (Block \ {Genesis})
      /\ tip \in linked /\ disk.tip \in Chain[tip] /\ tip \in Block
      /\ candidates \subseteq Block
  BY IndexFacts, Zenon DEF IndexInv, JobInv, CandidatesOK
<1> USE <1>2
<1>3. CASE UNCHANGED vars
  BY <1>3, IndexKept, Zenon DEF vars, flags
<1>4. CASE StepDisconnect \/ InvalidateDisconnect \/ ReplayDisconnect
  <2>1. /\ tip' \in linked /\ tip' \in Block /\ IndexOK(disk') /\ disk'.tip \in Chain[tip']
        /\ tip' \in Chain[tip]
    BY <1>4, NotGenesis, DisconnectOK, Zenon DEF StepDisconnect, InvalidateDisconnect, ReplayDisconnect
  <2>2. CASE StepDisconnect \/ ReplayDisconnect
    BY <2>1, <2>2, IndexKept, Zenon DEF StepDisconnect, ReplayDisconnect, flags
  <2>3. CASE InvalidateDisconnect
    <3> USE <2>3
    <3>1. job.target \in Chain[tip'] => tip' # Genesis
      BY JobFacts, ChainStep, Zenon DEF InvalidateDisconnect
    <3>2. failedChild' \in SUBSET (Block \ {Genesis})
      BY <3>1, <2>1, Zenon DEF InvalidateDisconnect, MarkTip
    <3> QED
      BY <2>1, <3>2, IndexKept, Zenon DEF InvalidateDisconnect
  <2> QED
    BY <1>4, <2>2, <2>3, Zenon
<1>5. CASE StepConnect
  <2> USE <1>5
  <2>1. NextBlock \in linked /\ tip' = NextBlock /\ Chain[tip] \subseteq Chain[NextBlock]
        /\ NextBlock \in Block
    BY ConnectFacts, Zenon DEF StepConnect, UpdateTip
  <2>2. disk' = disk \/ IndexOK(disk')
    <3>1. Chain[NextBlock] \subseteq data
      BY <2>1, IndexFacts, Zenon
    <3>2. IndexOK(Snapshot(NextBlock))
      BY <2>1, <3>1, IndexFacts, SnapshotOK, Zenon
    <3> QED
      BY <3>2, Zenon DEF StepConnect
  <2>3. disk'.tip \in Chain[tip']
    BY <2>1, ChainBasic DEF StepConnect, Snapshot
  <2> QED
    BY <2>1, <2>2, <2>3, IndexKept, Zenon DEF StepConnect, flags
<1>6. CASE StepInvalid
  BY <1>6, ConnectFacts, IndexKept, Zenon DEF StepInvalid
<1>7. CASE InvalidateRestore
  BY <1>7, IndexKept, Zenon DEF InvalidateRestore, flags
<1>8. CASE ReplayDone
  BY <1>8, IndexKept, Zenon DEF ReplayDone, flags
<1>9. ASSUME NEW t \in Thread, ActivateBestChain(t) PROVE IndexInv'
  <2>1. \A x \in Dropped : x \in Block \ {Genesis}
    BY DroppedFailed, ChainStep, Zenon DEF Failed
  <2>2. failedChild' \subseteq failedChild \cup Dropped
    BY <1>9 DEF ActivateBestChain, FindMostWorkChain, Dropped
  <2> QED
    BY <2>1, <2>2, <1>9, IndexKept, Zenon DEF ActivateBestChain
<1>10. ASSUME NEW t \in Thread, LoopCondition(t) \/ DisconnectBlocksAndReprocess(t) PROVE IndexInv'
  BY <1>10, IndexKept, Zenon DEF LoopCondition, DisconnectBlocksAndReprocess, flags
<1>11. ASSUME NEW t \in Thread, LeaveLoop(t) PROVE IndexInv'
  <2>1. disk' = disk \/ (IndexOK(disk') /\ disk'.tip = tip)
    BY <1>11 DEF LeaveLoop, IndexInv, Snapshot
  <2> QED
    BY <2>1, <1>11, ChainBasic, IndexKept, Zenon DEF LeaveLoop, flags
<1>12. ASSUME NEW t \in Thread, Restart(t) PROVE IndexInv'
  <2>1. IndexOK(disk) /\ IndexOK(Snapshot(disk.tip))
    BY IndexFacts, SnapshotOK, Zenon DEF IndexInv
  <2> QED
    BY <2>1, <1>12, LoadOK, Zenon DEF Restart
<1>13. ASSUME NEW t \in Thread, NEW b \in Block \ {Genesis}, ProcessNewBlock(t, b) PROVE IndexInv'
  <2>1. CASE ReceivedBlockTransactions(b) /\ known' = known \cup {b} /\ UNCHANGED flags
             /\ b \notin data /\ Prev[b] \notin Failed
    <3>1. /\ data' = data \cup {b} /\ linked' = {c \in data' : Chain[c] \subseteq data'}
          /\ unlinked' = data' \ linked' /\ seq' \in [Block -> Nat] /\ nBlockSequenceId' \in Nat
      BY <2>1, ReceivedLinks, Zenon
    <3>2. UNCHANGED <<tip, disk>>
      BY <1>13, Zenon DEF ProcessNewBlock
    <3>3. IndexOK(Snapshot(tip))'
      BY <3>1, <3>2, <2>1, IndexFacts, Zenon DEF IndexOK, Snapshot, Saved, flags
    <3> QED
      BY <3>1, <3>2, <3>3, Zenon DEF IndexInv
  <2>2. CASE /\ UNCHANGED <<data, linked, seq, nBlockSequenceId, unlinked>>
             /\ known' \in SUBSET Block
             /\ failedValid' \in SUBSET (Block \ {Genesis}) /\ failedChild' \in SUBSET (Block \ {Genesis})
    <3>1. UNCHANGED <<tip, disk>>
      BY <1>13, Zenon DEF ProcessNewBlock
    <3>2. IndexOK(Snapshot(tip))'
      BY <3>1, <2>2, IndexFacts, Zenon DEF IndexOK, Snapshot, Saved
    <3> QED
      BY <3>1, <3>2, <2>2, Zenon DEF IndexInv
  <2>3. CASE ~CheckBlock(b)
    BY <2>3, <1>13, <2>2, IndexFacts, Zenon DEF ProcessNewBlock, index, flags
  <2>4. CASE AcceptEarly(t, b)
    BY <2>4, <2>2, IndexFacts, Zenon DEF AcceptEarly, Reconsider, index, flags
  <2>5. CASE b \notin data /\ Prev[b] \notin Failed /\ AcceptGood(t, b)
    BY <2>5, <2>1, Zenon DEF AcceptGood, AddToBlockIndex
  <2>6. CASE AcceptBad(b) \/ AcceptStakeRefused(b)
    BY <2>6, <2>2, IndexFacts, Zenon DEF AcceptBad, AcceptStakeRefused, AddToBlockIndex, flags
  <2> QED
    BY <1>13, <2>3, <2>4, <2>5, <2>6, Zenon DEF ProcessNewBlock
<1>14. ASSUME NEW b \in Block \ {Genesis}, AcceptBlockHeader(b) PROVE IndexInv'
  <2>1. IndexOK(Snapshot(tip))'
    BY <1>14, IndexFacts, Zenon DEF AcceptBlockHeader, AddToBlockIndex, IndexOK, Snapshot, Saved, flags
  <2> QED
    BY <2>1, <1>14, Zenon DEF AcceptBlockHeader, IndexInv
<1>15. ASSUME NEW t \in Thread, NEW b \in Block \ {Genesis}, InvalidateBlock(t, b) PROVE IndexInv'
  <2>1. failedChild' \in SUBSET (Block \ {Genesis})
    BY <1>15, ChainStep, Zenon DEF InvalidateBlock, MarkTip
  <2> QED
    BY <2>1, <1>15, IndexKept, Zenon DEF InvalidateBlock
<1>16. ASSUME NEW t \in Thread, NEW b \in Block \ {Genesis},
              ReconsiderBlock(t, b) \/ ReprocessReconsider(t, b)
       PROVE  IndexInv'
  BY <1>16, IndexKept, Zenon DEF ReconsiderBlock, ReprocessReconsider, Reconsider
<1>17. ASSUME NEW t \in Thread, NEW b \in Block \ {Genesis}, ReprocessBlocks(t, b) PROVE IndexInv'
  BY <1>17, IndexKept, Zenon DEF ReprocessBlocks, flags
<1> QED
  BY <1>3, <1>4, <1>5, <1>6, <1>7, <1>8, <1>9, <1>10, <1>11, <1>12, <1>13, <1>14, <1>15, <1>16,
     <1>17, NextCases, Zenon

-----------------------------------------------------------------------------
(* The candidates and the holder of cs_main *)

\* Candidates that stay are no worse than a tip that only went down
LEMMA CandidatesKept ==
  ASSUME IndexInv, CandidatesOK, UNCHANGED <<linked, seq>>, tip' \in Chain[tip],
         candidates' \subseteq candidates
  PROVE  CandidatesOK'
<1>1. ASSUME NEW c \in candidates' PROVE c \in linked' /\ ~Worse(c, tip', seq')
  <2>1. c \in linked /\ c \in Block /\ ~Worse(c, tip, seq) /\ tip \in Block
    BY <1>1, IndexFacts, Zenon DEF CandidatesOK
  <2>2. tip' \in Block /\ ~Worse(tip, tip', seq) /\ seq \in [Block -> Nat]
    BY <2>1, AncestorWorse, Zenon DEF IndexInv
  <2>3. ~Worse(c, tip', seq)
    BY <2>1, <2>2, WorseOrder, Zenon
  <2> QED
    BY <2>1, <2>3, Zenon
<1> QED
  BY <1>1, Zenon DEF CandidatesOK

\* A block is reconsidered: it is a candidate again if the tip is worse
LEMMA ReconsiderCandidates ==
  ASSUME IndexInv, CandidatesOK, UNCHANGED <<linked, seq, tip>>, NEW b, Reconsider(b)
  PROVE  CandidatesOK'
<1>1. ASSUME NEW c \in candidates' PROVE c \in linked /\ ~Worse(c, tip, seq)
  <2>1. CASE c \in candidates
    BY <2>1, Zenon DEF CandidatesOK
  <2>2. CASE c \notin candidates
    <3>1. c \in linked /\ Worse(tip, c, seq)
      BY <2>2, Zenon DEF Reconsider
    <3>2. c \in Block /\ tip \in Block /\ seq \in [Block -> Nat]
      BY <3>1, IndexFacts, Zenon DEF IndexInv
    <3> QED
      BY <3>1, <3>2, WorseOrder, Zenon
  <2> QED
    BY <2>1, <2>2, Zenon
<1> QED
  BY <1>1, Zenon DEF CandidatesOK

LEMMA CandidatesNext ==
  ASSUME IndexInv, JobInv, [Next]_vars
  PROVE  CandidatesOK'
<1>1. scenario' = scenario /\ scenario \in Scenario
  BY NextCases, Zenon DEF IndexInv
<1>2. /\ CandidatesOK /\ seq \in [Block -> Nat]
      /\ tip \in Block /\ tip \in Chain[tip] /\ tip \in linked /\ linked \subseteq Block
  BY IndexFacts, ChainBasic, Zenon DEF JobInv, IndexInv
<1> USE <1>2
<1>3. CASE UNCHANGED vars
  BY <1>3, CandidatesKept, Zenon DEF vars, index
<1>4. CASE StepDisconnect \/ InvalidateDisconnect \/ ReplayDisconnect
  <2>1. tip' \in Chain[tip]
    BY <1>4, NotGenesis, DisconnectOK, Zenon DEF StepDisconnect, InvalidateDisconnect, ReplayDisconnect
  <2>2. candidates' \subseteq candidates /\ UNCHANGED <<linked, seq>>
    BY <1>4, Zenon DEF StepDisconnect, InvalidateDisconnect, ReplayDisconnect, MarkTip, index
  <2> QED
    BY <2>1, <2>2, CandidatesKept, Zenon
<1>5. CASE StepConnect
  <2>1. tip' = NextBlock /\ candidates' = Prune(candidates, tip', seq) /\ UNCHANGED <<linked, seq>>
    BY <1>5, Zenon DEF StepConnect, UpdateTip, index
  <2> QED
    BY <2>1, Zenon DEF Prune, CandidatesOK
<1>6. CASE StepInvalid
  BY <1>6, CandidatesKept, Zenon DEF StepInvalid, index
<1>7. CASE InvalidateRestore
  BY <1>7, Zenon DEF InvalidateRestore, index, CandidatesOK
<1>8. CASE ReplayDone
  BY <1>8, CandidatesKept, Zenon DEF ReplayDone, index
<1>9. ASSUME NEW t \in Thread, ActivateBestChain(t) PROVE CandidatesOK'
  BY <1>9, CandidatesKept, Zenon DEF ActivateBestChain, FindMostWorkChain, index
<1>10. ASSUME NEW t \in Thread, LoopCondition(t) \/ LeaveLoop(t) \/ DisconnectBlocksAndReprocess(t)
       PROVE  CandidatesOK'
  BY <1>10, CandidatesKept, Zenon DEF LoopCondition, LeaveLoop, DisconnectBlocksAndReprocess, index
<1>11. ASSUME NEW t \in Thread, Restart(t) PROVE CandidatesOK'
  <2>1. IndexOK(disk) /\ IndexOK(Snapshot(disk.tip))
    BY IndexFacts, SnapshotOK, Zenon DEF IndexInv
  <2>2. candidates' = {c \in linked' \ Failed' : ~Worse(c, tip', seq')}
    BY <2>1, <1>1, <1>11, LoadOK, Zenon DEF Restart
  <2> QED
    BY <2>2, Zenon DEF CandidatesOK
<1>12. ASSUME NEW t \in Thread, NEW b \in Block \ {Genesis}, ProcessNewBlock(t, b)
       PROVE  CandidatesOK'
  <2>1. tip' = tip
    BY <1>12, Zenon DEF ProcessNewBlock
  <2>2. CASE UNCHANGED <<linked, seq, candidates>>
    BY <2>1, <2>2, CandidatesKept, Zenon
  <2>3. CASE ~CheckBlock(b)
    BY <2>3, <1>12, <2>2, Zenon DEF ProcessNewBlock, index
  <2>4. CASE AcceptEarly(t, b)
    BY <2>1, <2>4, <2>2, ReconsiderCandidates, Zenon DEF AcceptEarly, index
  <2>5. CASE b \notin data /\ Prev[b] \notin Failed /\ AcceptGood(t, b)
    <3>1. /\ linked \subseteq linked' /\ \A c \in linked : seq'[c] = seq[c]
          /\ \A c \in candidates' \ candidates : ~Worse(c, tip, seq') /\ c \in linked'
      BY <2>5, ReceivedLinks, Zenon DEF AcceptGood
    <3>2. ASSUME NEW c \in candidates PROVE ~Worse(c, tip, seq') /\ c \in linked'
      BY <3>1, WorseSame, Zenon DEF CandidatesOK
    <3> QED
      BY <2>1, <3>1, <3>2, Zenon DEF CandidatesOK
  <2>6. CASE AcceptBad(b) \/ AcceptStakeRefused(b)
    BY <2>6, <2>2, Zenon DEF AcceptBad, AcceptStakeRefused
  <2> QED
    BY <1>12, <2>3, <2>4, <2>5, <2>6, Zenon DEF ProcessNewBlock
<1>13. ASSUME NEW t \in Thread, NEW b \in Block \ {Genesis},
              AcceptBlockHeader(b) \/ InvalidateBlock(t, b) \/ ReprocessBlocks(t, b)
       PROVE  CandidatesOK'
  BY <1>13, CandidatesKept, Zenon DEF AcceptBlockHeader, InvalidateBlock, MarkTip, ReprocessBlocks, index
<1>14. ASSUME NEW t \in Thread, NEW b \in Block \ {Genesis},
              ReconsiderBlock(t, b) \/ ReprocessReconsider(t, b)
       PROVE  CandidatesOK'
  BY <1>14, ReconsiderCandidates, Zenon DEF ReconsiderBlock, ReprocessReconsider, index
<1> QED
  BY <1>1, <1>3, <1>4, <1>5, <1>6, <1>7, <1>8, <1>9, <1>10, <1>11, <1>12, <1>13, <1>14, NextCases, Zenon

\* A block that FindMostWorkChain returns stays a candidate, and its path stays unmarked
LEMMA MostWorkKept ==
  ASSUME IndexInv, CandidatesOK, FindMostWorkChain, UNCHANGED <<tip, failedValid>>,
         NEW m \in candidates, Usable(m)
  PROVE  m \in candidates' /\ Usable(m)'
<1>1. candidates \subseteq Block /\ m \in Block
  BY IndexFacts, Zenon DEF CandidatesOK
<1>2. ASSUME NEW x \in Path(m) PROVE x \notin Dropped
  <2> SUFFICES ASSUME x \in Dropped PROVE FALSE
    BY Zenon
  <2>1. PICK f \in Failed : f \in Chain[x] /\ f \notin Chain[tip]
    BY <1>1, DroppedFailed, Zenon
  <2>2. f \in Path(m)
    BY <2>1, <1>1, ChainTrans, Zenon DEF Path
  <2> QED
    BY <2>1, <2>2, Zenon DEF Usable
<1>3. m \notin Dropped
  <2>1. CASE m \in Chain[tip]
    <3>1. \A f \in Chain[m] : f \in Chain[tip]
      BY <2>1, ChainTrans, IndexFacts, Zenon
    <3> QED
      BY <3>1, <1>1, DroppedFailed, Zenon
  <2>2. CASE m \notin Chain[tip]
    BY <2>2, <1>1, <1>2, ChainBasic, Zenon DEF Path
  <2> QED
    BY <2>1, <2>2, Zenon
<1>4. candidates' = candidates \ Dropped /\ failedChild' \subseteq failedChild \cup Dropped
  BY DEF FindMostWorkChain, Dropped
<1>5. Path(m)' = Path(m)
  BY Zenon DEF Path
<1> QED
  BY <1>2, <1>3, <1>4, <1>5, Zenon DEF Usable, Failed

LEMMA JobSame ==
  ASSUME JobInv, UNCHANGED <<job, candidates, seq, tip, failedValid, failedChild, scenario>>
  PROVE  JobOK'
BY Zenon DEF JobInv, JobOK, Idle, Worse, Usable, Path, Failed

LEMMA JobNext ==
  ASSUME IndexInv, JobInv, [Next]_vars
  PROVE  JobOK'
<1>1. scenario' = scenario /\ scenario \in Scenario
  BY NextCases, Zenon DEF IndexInv
<1>2. /\ CandidatesOK /\ seq \in [Block -> Nat]
      /\ tip \in Block /\ tip \in linked /\ linked \subseteq Block
  BY IndexFacts, Zenon DEF JobInv, IndexInv
<1>3. CASE job' = Idle
  BY <1>3, Zenon DEF JobOK, Idle
<1>4. CASE UNCHANGED vars
  BY <1>4, JobSame, Zenon DEF vars, index, flags
<1>5. CASE StepDisconnect
  <2>1. /\ job.op = "activate"
        /\ job \in [op : {"activate"}, thread : Thread, target : candidates, old : Block]
        /\ job.target \in Block /\ Worse(job.old, job.target, seq) /\ Usable(job.target)
        /\ tip \notin Chain[job.target] /\ UNCHANGED <<job, candidates, seq, failedValid, failedChild>>
    BY <1>5, JobFacts, Zenon DEF StepDisconnect, index, flags
  <2>2. Chain[tip'] = Chain[tip] \ {tip}
    BY <1>5, NotGenesis, DisconnectOK, Zenon DEF StepDisconnect
  <2>3. Usable(job.target)'
    BY <2>1, <2>2, Zenon DEF Usable, Path, Failed
  <2> QED
    BY <2>1, <2>3, Zenon DEF JobOK
<1>6. CASE StepConnect
  <2>1. /\ job.op = "activate" /\ tip \in Chain[job.target] \ {job.target}
        /\ job \in [op : {"activate"}, thread : Thread, target : candidates, old : Block]
        /\ job.target \in Block /\ Worse(job.old, job.target, seq) /\ Usable(job.target)
        /\ UNCHANGED <<seq, failedValid, failedChild>>
        /\ tip' = NextBlock /\ candidates' = Prune(candidates, NextBlock, seq)
        /\ job' = Idle \/ job' = job
    BY <1>6, JobFacts, Zenon DEF StepConnect, UpdateTip, Release, index, flags
  <2>2. NextBlock \in Chain[job.target] /\ Chain[NextBlock] = {NextBlock} \cup Chain[tip]
    BY <2>1, ConnectFacts, Zenon
  <2>3. job.target \in candidates'
    BY <2>1, <2>2, <1>2, AncestorWorse, Zenon DEF Prune
  <2>4. Usable(job.target) /\ job' = job => Usable(job.target)'
    BY <2>1, <2>2, Zenon DEF Usable, Path, Failed
  <2> QED
    BY <1>3, <2>1, <2>3, <2>4, Zenon DEF JobOK
<1>7. CASE StepInvalid \/ InvalidateRestore \/ ReplayDone
  BY <1>7, <1>3, Zenon DEF StepInvalid, Release, InvalidateRestore, ReplayDone
<1>8. CASE InvalidateDisconnect
  <2>1. /\ job \in [op : {"invalidate"}, thread : Thread, target : failedValid]
        /\ "invalidate" \in scenario.ops /\ UNCHANGED <<job, failedValid>>
    BY <1>8, JobFacts, Zenon DEF InvalidateDisconnect
  <2> QED
    BY <2>1, <1>1, Zenon DEF JobOK
<1>9. CASE ReplayDisconnect
  <2>1. /\ job \in [op : {"replay"}, thread : Thread, left : Nat] /\ job.left > 0
        /\ "replay" \in scenario.ops /\ job.left < Cardinality(Chain[tip])
        /\ job' = [job EXCEPT !.left = job.left - 1]
    BY <1>9, JobFacts, Zenon DEF ReplayDisconnect
  <2>2. /\ tip \in Block \ {Genesis} /\ tip' = Prev[tip]
    BY <1>9, <1>2, NotGenesis, DisconnectOK, Zenon DEF ReplayDisconnect
  <2>3. Cardinality(Chain[tip']) = Cardinality(Chain[tip]) - 1 /\ Cardinality(Chain[tip]) \in Nat
    BY <2>2, ChainShorter, Zenon
  <2>4. job' \in [op : {"replay"}, thread : Thread, left : Nat] /\ job'.left = job.left - 1
    BY <2>1
  <2>5. job'.left < Cardinality(Chain[tip'])
    BY <2>1, <2>3, <2>4
  <2> QED
    BY <2>1, <2>4, <2>5, <1>1, Zenon DEF JobOK
<1>10. ASSUME NEW t \in Thread, ActivateBestChain(t) PROVE JobOK'
  <2>1. /\ FindMostWorkChain /\ UNCHANGED <<tip, failedValid, seq>>
        /\ job' = Idle \/ \E m \in MostWork \ {tip} : job' = Activating(t, m)
    BY <1>10, Zenon DEF ActivateBestChain, index
  <2>2. ASSUME NEW m \in MostWork \ {tip}, job' = Activating(t, m) PROVE JobOK'
    <3>1. m \in candidates /\ Usable(m) /\ m \in Block
      BY <1>2, Zenon DEF MostWork, UsableCandidates, CandidatesOK
    <3>2. m \in candidates' /\ Usable(m)'
      BY <2>1, <3>1, <1>2, MostWorkKept, Zenon
    <3>3. Worse(tip, m, seq)
      BY <3>1, <1>2, WorseOrder, Zenon DEF CandidatesOK
    <3>4. /\ job' \in [op : {"activate"}, thread : Thread, target : candidates', old : Block]
          /\ job'.target = m /\ job'.old = tip
      BY <2>2, <3>2, <1>2, Zenon DEF Activating
    <3>5. Usable(job.target)'
      BY <3>2, <3>4, Zenon DEF Usable, Path
    <3>6. Worse(job.old, job.target, seq)'
      BY <2>1, <3>3, <3>4, Zenon
    <3> QED
      BY <3>4, <3>5, <3>6, Zenon DEF JobOK
  <2> QED
    BY <1>3, <2>1, <2>2, Zenon
<1>11. ASSUME NEW t \in Thread, LoopCondition(t) PROVE JobOK'
  BY <1>11, <1>1, JobSame, Zenon DEF LoopCondition, index, flags
<1>12. ASSUME NEW t \in Thread, LeaveLoop(t) \/ Restart(t) PROVE JobOK'
  BY <1>12, <1>3, Zenon DEF LeaveLoop, Restart
<1>13. ASSUME NEW t \in Thread, DisconnectBlocksAndReprocess(t) PROVE JobOK'
  <2>1. /\ job' = Replaying(t, ReplayBlocks + 1) /\ thr[t] = Replay
        /\ Cardinality(Chain[tip]) > ReplayBlocks + 1 /\ tip' = tip
    BY <1>13, Zenon DEF DisconnectBlocksAndReprocess
  <2>2. /\ job' \in [op : {"replay"}, thread : Thread, left : Nat] /\ job'.left = ReplayBlocks + 1
    BY <2>1, ParameterAssumption DEF Replaying
  <2>3. "replay" \in scenario.ops
    BY <2>1, Zenon DEF JobInv, ThreadsOK
  <2>4. Cardinality(Chain[tip]) \in Nat
    BY <1>2, ChainBasic, TreeAssumption, FS_Subset, FS_CardinalityType, Zenon
  <2>5. job'.left < Cardinality(Chain[tip'])
    BY <2>1, <2>2, <2>4, ParameterAssumption, Zenon
  <2> QED
    BY <2>2, <2>3, <2>5, <1>1, Zenon DEF JobOK
<1>14. ASSUME NEW t \in Thread, NEW b \in Block \ {Genesis},
              \/ AcceptBlockHeader(b) \/ ProcessNewBlock(t, b) \/ ReconsiderBlock(t, b)
              \/ ReprocessReconsider(t, b)
       PROVE  JobOK'
  BY <1>14, <1>3, Zenon DEF AcceptBlockHeader, ProcessNewBlock, ReconsiderBlock, ReprocessReconsider
<1>15. ASSUME NEW t \in Thread, NEW b \in Block \ {Genesis}, InvalidateBlock(t, b) PROVE JobOK'
  <2>1. job' \in [op : {"invalidate"}, thread : Thread, target : failedValid']
    BY <1>15, Zenon DEF InvalidateBlock, Invalidating
  <2> QED
    BY <2>1, <1>1, <1>15, Zenon DEF InvalidateBlock, JobOK
<1>16. ASSUME NEW t \in Thread, NEW b \in Block \ {Genesis}, ReprocessBlocks(t, b) PROVE JobOK'
  BY <1>16, <1>1, JobSame, Zenon DEF ReprocessBlocks, index, flags
<1> QED
  BY <1>1, <1>4, <1>5, <1>6, <1>7, <1>8, <1>9, <1>10, <1>11, <1>12, <1>13, <1>14, <1>15, <1>16,
     NextCases, Zenon

LEMMA ThreadMoves ==
  ASSUME ThreadsOK, scenario' = scenario, NEW t, NEW p \in Block \cup {Out, Loop, Flushing},
         thr' = thr \/ thr' = [thr EXCEPT ![t] = p]
  PROVE  ThreadsOK'
<1>1. p # Replay
  BY ParameterAssumption, Zenon DEF Out, Loop, Flushing, Replay
<1> QED
  BY <1>1, Zenon DEF ThreadsOK

LEMMA ThreadsNext ==
  ASSUME IndexInv, JobInv, [Next]_vars
  PROVE  ThreadsOK'
<1>1. scenario' = scenario /\ scenario \in Scenario /\ ThreadsOK
  BY NextCases, Zenon DEF IndexInv, JobInv
<1> USE <1>1
<1>2. CASE thr' = thr
  BY <1>2, Zenon DEF ThreadsOK
<1>3. ASSUME NEW t, Returns(t) PROVE ThreadsOK'
  BY <1>3, ThreadMoves, Zenon DEF Returns
<1>4. ASSUME NEW t, NEW b, Starts(t, b) PROVE ThreadsOK'
  BY <1>4, ThreadMoves, Zenon DEF Starts
<1>5. CASE UNCHANGED vars
  BY <1>5, <1>2, Zenon DEF vars, threads
<1>6. CASE StepDisconnect \/ InvalidateDisconnect \/ ReplayDisconnect
  BY <1>6, <1>2, Zenon DEF StepDisconnect, InvalidateDisconnect, ReplayDisconnect, threads
<1>7. CASE StepConnect \/ StepInvalid
  <2>1. job.target \in Block
    BY <1>7, JobFacts, Zenon DEF StepConnect, StepInvalid
  <2>2. thr' = thr \/ thr' = [thr EXCEPT ![job.thread] = job.target]
    BY <1>7, Zenon DEF StepConnect, StepInvalid, Release, threads
  <2> QED
    BY <2>1, <2>2, ThreadMoves, Zenon
<1>8. CASE InvalidateRestore
  BY <1>8, <1>4, Zenon DEF InvalidateRestore
<1>9. CASE ReplayDone
  BY <1>9, ThreadMoves, Zenon DEF ReplayDone
<1>10. ASSUME NEW t \in Thread, ActivateBestChain(t) \/ LeaveLoop(t) \/ DisconnectBlocksAndReprocess(t)
       PROVE  ThreadsOK'
  BY <1>10, <1>2, <1>3, Zenon DEF ActivateBestChain, LeaveLoop, DisconnectBlocksAndReprocess, threads
<1>11. ASSUME NEW t \in Thread, LoopCondition(t) PROVE ThreadsOK'
  BY <1>11, ThreadMoves, Zenon DEF LoopCondition
<1>12. ASSUME NEW t \in Thread, Restart(t) PROVE ThreadsOK'
  BY <1>12, Zenon DEF Restart, ThreadsOK, Out, Loop, Replay
<1>13. ASSUME NEW t \in Thread, NEW b \in Block \ {Genesis}, ProcessNewBlock(t, b) PROVE ThreadsOK'
  BY <1>13, <1>2, <1>4, Zenon
     DEF ProcessNewBlock, AcceptEarly, AcceptGood, AcceptBad, AcceptStakeRefused, threads
<1>14. ASSUME NEW t \in Thread, NEW b \in Block \ {Genesis},
              \/ AcceptBlockHeader(b) \/ InvalidateBlock(t, b) \/ ReconsiderBlock(t, b)
              \/ ReprocessReconsider(t, b)
       PROVE  ThreadsOK'
  BY <1>14, <1>2, <1>4, Zenon
     DEF AcceptBlockHeader, InvalidateBlock, ReconsiderBlock, ReprocessReconsider, threads
<1>15. ASSUME NEW t \in Thread, NEW b \in Block \ {Genesis}, ReprocessBlocks(t, b) PROVE ThreadsOK'
  BY <1>15, Zenon DEF ReprocessBlocks, ThreadsOK
<1> QED
  BY <1>5, <1>6, <1>7, <1>8, <1>9, <1>10, <1>11, <1>12, <1>13, <1>14, <1>15, NextCases, Zenon

\* Every step keeps the second layer
LEMMA JobInvNext ==
  ASSUME IndexInv, JobInv, [Next]_vars
  PROVE  JobInv'
BY CandidatesNext, JobNext, ThreadsNext, Zenon DEF JobInv

-----------------------------------------------------------------------------
(* The active chain is free of failed blocks *)

\* Whoever does not cut the chain below an invalid block has no failed one on it
LEMMA ActiveClean ==
  ASSUME ActiveInv, NotKilledWhileInvalidating, job.op # "invalidate"
  PROVE  Chain[tip] \cap Failed = {}
BY Zenon DEF ActiveInv, CutBelowFailed

\* The active chain becomes no longer, or its flags fewer
LEMMA CleanKept ==
  ASSUME Chain[tip] \cap Failed = {}, Chain[tip'] \subseteq Chain[tip],
         Failed' \cap Chain[tip] \subseteq Failed
  PROVE  CutBelowFailed'
BY Zenon DEF CutBelowFailed

LEMMA SavedKept ==
  ASSUME \/ disk' = disk /\ SavedActive
         \/ \E x : disk' = Snapshot(x) /\ Chain[x] \cap Failed = {}
  PROVE  SavedActive'
BY DEF SavedActive, Snapshot, Failed

\* Every step keeps the third layer
LEMMA ActiveNext ==
  ASSUME IndexInv, JobInv, ActiveInv, [Next]_vars
  PROVE  ActiveInv'
<1>1. scenario' = scenario /\ scenario \in Scenario
  BY NextCases, Zenon DEF IndexInv
<1> SUFFICES ASSUME NotKilledWhileInvalidating
             PROVE  CutBelowFailed' /\ ("crash" \in scenario.ops => SavedActive')
  BY <1>1, Zenon DEF ActiveInv, NotKilledWhileInvalidating
<1>2. /\ tip \in Block /\ linked \subseteq Block /\ Chain[tip] \subseteq data
      /\ candidates \subseteq Block
  BY IndexFacts, Zenon DEF JobInv, CandidatesOK
<1>3. /\ CutBelowFailed
      /\ "crash" \in scenario.ops => SavedActive
      /\ "crash" \in scenario.ops => "invalidate" \notin scenario.ops
      /\ "crash" \in scenario.ops => job.op # "invalidate"
  BY JobFacts, Zenon DEF ActiveInv, NotKilledWhileInvalidating
<1>4. job = Idle => Chain[tip] \cap Failed = {}
  BY ActiveClean DEF Idle
<1>5. CASE UNCHANGED <<tip, failedValid, failedChild, job, disk>>
  BY <1>3, <1>5, Zenon DEF CutBelowFailed, SavedActive, Failed
<1>6. CASE job = Idle /\ tip' = tip /\ disk' = disk /\ Failed' \cap Chain[tip] \subseteq Failed
  BY <1>3, <1>4, <1>6, CleanKept, SavedKept, Zenon
<1>7. CASE UNCHANGED vars
  BY <1>5, <1>7, Zenon DEF vars, flags
<1>8. CASE StepDisconnect \/ ReplayDisconnect
  <2>1. /\ Chain[tip] \cap Failed = {} /\ UNCHANGED flags
        /\ Chain[tip'] \subseteq Chain[tip] /\ disk' = Snapshot(tip')
    BY <1>8, ActiveClean, NotGenesis, DisconnectOK, Zenon DEF StepDisconnect, ReplayDisconnect
  <2> QED
    BY <2>1, CleanKept, SavedKept, Zenon DEF flags, Failed
<1>9. CASE StepConnect
  <2>1. /\ job.op = "activate" /\ tip \in Chain[job.target] \ {job.target}
        /\ tip' = NextBlock /\ disk' \in {disk, Snapshot(NextBlock)} /\ UNCHANGED flags
    BY <1>9, Zenon DEF StepConnect, UpdateTip
  <2>2. Chain[tip] \cap Failed = {}
    BY <2>1, ActiveClean, Zenon
  <2>3. Chain[NextBlock] \cap Failed = {}
    BY <2>1, <2>2, ConnectFacts, Zenon
  <2> QED
    BY <2>1, <2>3, <1>3, SavedKept, Zenon DEF CutBelowFailed, flags, Failed
<1>10. CASE StepInvalid
  <2>1. /\ job.op = "activate" /\ tip \in Chain[job.target] \ {job.target} /\ UNCHANGED <<tip, disk>>
        /\ failedValid' = failedValid \cup {NextBlock} /\ failedChild' = failedChild
    BY <1>10, Zenon DEF StepInvalid
  <2>2. Chain[tip] \cap Failed = {}
    BY <2>1, ActiveClean, Zenon
  <2>3. NextBlock \notin Chain[tip]
    BY <2>1, ConnectFacts, Zenon
  <2> QED
    BY <2>1, <2>2, <2>3, <1>3, CleanKept, SavedKept, Zenon DEF Failed
<1>11. CASE InvalidateDisconnect
  <2>1. /\ job.op = "invalidate" /\ UNCHANGED <<failedValid, job>>
        /\ \/ failedChild' = failedChild
           \/ failedChild' = failedChild \cup {tip'} /\ job.target \in Chain[tip']
    BY <1>11, Zenon DEF InvalidateDisconnect, MarkTip
  <2>2. Chain[tip'] \subseteq Chain[tip]
    BY <1>11, NotGenesis, DisconnectOK, Zenon DEF InvalidateDisconnect
  <2> QED
    BY <2>1, <2>2, <1>3, Zenon DEF CutBelowFailed, Failed
<1>12. CASE InvalidateRestore
  <2>1. job.op = "invalidate" /\ job.target \notin Chain[tip] /\ UNCHANGED <<flags, tip, disk>>
    BY <1>12, Zenon DEF InvalidateRestore
  <2>2. Chain[tip] \cap Failed = {}
    BY <2>1, <1>2, <1>3, ChainTrans, Zenon DEF CutBelowFailed
  <2> QED
    BY <2>1, <2>2, <1>3, CleanKept, Zenon DEF flags, Failed
<1>13. CASE ReplayDone
  BY <1>13, <1>3, ActiveClean, CleanKept, SavedKept, Zenon DEF ReplayDone, flags, Failed
<1>14. ASSUME NEW t \in Thread, ActivateBestChain(t)
       PROVE  CutBelowFailed' /\ ("crash" \in scenario.ops => SavedActive')
  <2>1. \A x \in Dropped : x \notin Chain[tip]
    BY <1>2, DroppedFailed, ChainTrans, Zenon
  <2>2. failedChild' \subseteq failedChild \cup Dropped /\ UNCHANGED <<failedValid, tip, disk>> /\ job = Idle
    BY <1>14 DEF ActivateBestChain, FindMostWorkChain, Dropped
  <2> QED
    BY <2>1, <2>2, <1>6, Zenon DEF Failed
<1>15. ASSUME NEW t \in Thread, LoopCondition(t)
       PROVE  CutBelowFailed' /\ ("crash" \in scenario.ops => SavedActive')
  BY <1>15, <1>5, Zenon DEF LoopCondition, flags
<1>16. ASSUME NEW t \in Thread, LeaveLoop(t)
       PROVE  CutBelowFailed' /\ ("crash" \in scenario.ops => SavedActive')
  BY <1>16, <1>3, <1>4, CleanKept, SavedKept, Zenon DEF LeaveLoop, flags, Failed
<1>17. ASSUME NEW t \in Thread, DisconnectBlocksAndReprocess(t)
       PROVE  CutBelowFailed' /\ ("crash" \in scenario.ops => SavedActive')
  BY <1>17, <1>6, Zenon DEF DisconnectBlocksAndReprocess, flags, Failed
<1>18. ASSUME NEW t \in Thread, Restart(t)
       PROVE  CutBelowFailed' /\ ("crash" \in scenario.ops => SavedActive')
  <2>1. IndexOK(disk) /\ IndexOK(Snapshot(disk.tip)) /\ Chain[disk.tip] \subseteq Chain[tip]
    BY IndexFacts, SnapshotOK, Zenon DEF IndexInv
  <2>2. Chain[tip] \cap Failed = {} /\ SavedActive
    BY <1>18, <1>3, ActiveClean, Zenon DEF Restart
  <2>3. ASSUME NEW saved, IndexOK(saved), LoadBlockIndexDB(saved),
               Chain[saved.tip] \cap (saved.failedValid \cup saved.failedChild) = {}
        PROVE  CutBelowFailed' /\ SavedActive'
    BY <2>3, <1>1, LoadOK, Zenon DEF CutBelowFailed, SavedActive, Failed
  <2>4. CASE LoadBlockIndexDB(disk)
    BY <2>1, <2>2, <2>3, <2>4, Zenon DEF SavedActive
  <2>5. CASE LoadBlockIndexDB(Snapshot(disk.tip))
    BY <2>1, <2>2, <2>3, <2>5, Zenon DEF Snapshot, Failed
  <2> QED
    BY <1>18, <2>4, <2>5, Zenon DEF Restart
<1>19. ASSUME NEW t \in Thread, NEW b \in Block \ {Genesis}, ProcessNewBlock(t, b)
       PROVE  CutBelowFailed' /\ ("crash" \in scenario.ops => SavedActive')
  <2> USE <1>19
  <2>1. job = Idle /\ UNCHANGED <<tip, disk>>
    BY Zenon DEF ProcessNewBlock
  <2>2. CASE Failed' \subseteq Failed
    BY <2>1, <2>2, <1>6, Zenon
  <2>3. CASE b \notin data /\ AcceptBad(b)
    BY <2>1, <2>3, <1>2, <1>6, Zenon DEF AcceptBad, Failed
  <2>4. CASE ~CheckBlock(b)
    BY <2>2, <2>4, Zenon DEF ProcessNewBlock, flags, Failed
  <2>5. CASE AcceptEarly(t, b)
    BY <2>2, <2>5, Zenon DEF AcceptEarly, Reconsider, flags, Failed
  <2>6. CASE AcceptGood(t, b) \/ AcceptStakeRefused(b)
    BY <2>2, <2>6, Zenon DEF AcceptGood, AcceptStakeRefused, flags, Failed
  <2> QED
    BY <2>3, <2>4, <2>5, <2>6, Zenon DEF ProcessNewBlock
<1>20. ASSUME NEW b \in Block \ {Genesis}, AcceptBlockHeader(b)
       PROVE  CutBelowFailed' /\ ("crash" \in scenario.ops => SavedActive')
  BY <1>20, <1>6, Zenon DEF AcceptBlockHeader, flags, Failed
<1>21. ASSUME NEW t \in Thread, NEW b \in Block \ {Genesis}, InvalidateBlock(t, b)
       PROVE  CutBelowFailed' /\ ("crash" \in scenario.ops => SavedActive')
  <2>1. /\ job = Idle /\ failedValid' = failedValid \cup {b} /\ tip' = tip
        /\ failedChild' = failedChild \/ (failedChild' = failedChild \cup {tip} /\ b \in Chain[tip])
        /\ job'.op = "invalidate" /\ job'.target = b /\ "invalidate" \in scenario.ops
    BY <1>21, Zenon DEF InvalidateBlock, MarkTip, Invalidating
  <2>2. b \in Chain[b]
    BY ChainBasic, Zenon
  <2> QED
    BY <2>1, <2>2, <1>3, <1>4, Zenon DEF CutBelowFailed, Failed
<1>22. ASSUME NEW t \in Thread, NEW b \in Block \ {Genesis},
              ReconsiderBlock(t, b) \/ ReprocessReconsider(t, b)
       PROVE  CutBelowFailed' /\ ("crash" \in scenario.ops => SavedActive')
  BY <1>22, <1>6, Zenon DEF ReconsiderBlock, ReprocessReconsider, Reconsider, Failed
<1>23. ASSUME NEW t \in Thread, NEW b \in Block \ {Genesis}, ReprocessBlocks(t, b)
       PROVE  CutBelowFailed' /\ ("crash" \in scenario.ops => SavedActive')
  BY <1>23, <1>5, Zenon DEF ReprocessBlocks, flags
<1> QED
  BY <1>1, <1>7, <1>8, <1>9, <1>10, <1>11, <1>12, <1>13, <1>14, <1>15, <1>16, <1>17, <1>18,
     <1>19, <1>20, <1>21, <1>22, <1>23, NextCases, Zenon

-----------------------------------------------------------------------------
(* Every failed block lies above an invalid one *)

\* Every step keeps the fourth layer
LEMMA FailedNext ==
  ASSUME IndexInv, JobInv, FailedInv, [Next]_vars
  PROVE  FailedInv'
<1>1. scenario' = scenario /\ scenario \in Scenario
  BY NextCases, Zenon DEF IndexInv
<1> DEFINE Mem == Explained(failedValid, failedChild)
           Disk == Explained(disk.failedValid, disk.failedChild)
<1> SUFFICES ASSUME NothingReconsidered PROVE Mem' /\ Disk'
  BY <1>1, Zenon DEF FailedInv, NothingReconsidered
<1>2. /\ tip \in Block /\ candidates \subseteq Block
      /\ \A x \in failedValid \cup failedChild : x \in Block
  BY IndexFacts, Zenon DEF JobInv, CandidatesOK
<1>3. Mem /\ Disk
  BY Zenon DEF FailedInv
<1>4. "reconsider" \notin scenario.ops /\ "replay" \notin scenario.ops /\ scenario.checkpointed = {}
  BY Zenon DEF NothingReconsidered
<1>5. ASSUME UNCHANGED flags PROVE Mem'
  BY <1>3, <1>5, Zenon DEF flags, Explained
<1>6. ASSUME disk' = disk \/ \E x : disk' = Snapshot(x) PROVE Disk'
  BY <1>3, <1>6 DEF Snapshot, Explained
<1>7. ASSUME NEW b \in Block, failedValid' = failedValid \cup {b}, failedChild' = failedChild PROVE Mem'
  BY <1>3, <1>7, ChainBasic, Zenon DEF Explained
<1>8. CASE UNCHANGED vars
  BY <1>5, <1>6, <1>8, Zenon DEF vars
<1>9. CASE StepDisconnect \/ ReplayDisconnect
  BY <1>5, <1>6, <1>9, Zenon DEF StepDisconnect, ReplayDisconnect, DisconnectTip
<1>10. CASE StepConnect
  BY <1>5, <1>6, <1>10, Zenon DEF StepConnect
<1>11. CASE StepInvalid
  BY <1>6, <1>7, <1>11, ConnectFacts, Zenon DEF StepInvalid
<1>12. CASE InvalidateDisconnect
  <2>1. /\ failedValid' = failedValid /\ job.target \in failedValid
        /\ \/ failedChild' = failedChild
           \/ failedChild' = failedChild \cup {tip'} /\ job.target \in Chain[tip']
    BY <1>12, JobFacts, Zenon DEF InvalidateDisconnect, MarkTip
  <2>2. Mem'
    BY <2>1, <1>3, Zenon DEF Explained
  <2> QED
    BY <2>2, <1>6, <1>12, Zenon DEF InvalidateDisconnect, DisconnectTip
<1>13. CASE InvalidateRestore \/ ReplayDone
  BY <1>5, <1>6, <1>13, Zenon DEF InvalidateRestore, ReplayDone
<1>14. ASSUME NEW t \in Thread, ActivateBestChain(t) PROVE Mem' /\ Disk'
  <2>1. failedChild' \subseteq failedChild \cup Dropped /\ UNCHANGED <<failedValid, disk>>
    BY <1>14 DEF ActivateBestChain, FindMostWorkChain, Dropped
  <2>2. ASSUME NEW x \in Dropped PROVE Chain[x] \cap failedValid # {}
    <3>1. x \in Block /\ \E f \in Failed : f \in Chain[x]
      BY <1>2, DroppedFailed, Zenon
    <3>2. PICK f \in Failed : f \in Chain[x]
      BY <3>1, Zenon
    <3>3. Chain[f] \cap failedValid # {} /\ Chain[f] \subseteq Chain[x]
      BY <3>1, <3>2, <1>3, ChainTrans, Zenon DEF Explained, Failed
    <3> QED
      BY <3>3, Zenon
  <2>3. Mem'
    BY <2>1, <2>2, <1>3, Zenon DEF Explained
  <2> QED
    BY <2>1, <2>3, <1>6, Zenon
<1>15. ASSUME NEW t \in Thread, LoopCondition(t) \/ LeaveLoop(t) \/ DisconnectBlocksAndReprocess(t)
       PROVE  Mem' /\ Disk'
  BY <1>5, <1>6, <1>15, Zenon DEF LoopCondition, LeaveLoop, DisconnectBlocksAndReprocess
<1>16. ASSUME NEW t \in Thread, Restart(t) PROVE Mem' /\ Disk'
  <2>1. ASSUME NEW saved, LoadBlockIndexDB(saved), Explained(saved.failedValid, saved.failedChild)
        PROVE  Mem' /\ Disk'
    BY <2>1, Zenon DEF LoadBlockIndexDB, LoadBlockIndexGuts, Explained
  <2>2. Explained(Snapshot(disk.tip).failedValid, Snapshot(disk.tip).failedChild)
    BY <1>3, Zenon DEF Snapshot
  <2> QED
    BY <2>1, <2>2, <1>3, <1>16, Zenon DEF Restart
<1>17. ASSUME NEW t \in Thread, NEW b \in Block \ {Genesis}, ProcessNewBlock(t, b) PROVE Mem' /\ Disk'
  <2> USE <1>17
  <2>1. disk' = disk
    BY Zenon DEF ProcessNewBlock
  <2>2. CASE ~CheckBlock(b)
    BY <2>1, <2>2, <1>5, <1>6, Zenon DEF ProcessNewBlock
  <2>3. CASE AcceptEarly(t, b)
    BY <2>1, <2>3, <1>4, <1>5, <1>6, Zenon DEF AcceptEarly, flags
  <2>4. CASE AcceptGood(t, b) \/ AcceptStakeRefused(b)
    BY <2>1, <2>4, <1>5, <1>6, Zenon DEF AcceptGood, AcceptStakeRefused
  <2>5. CASE AcceptBad(b)
    BY <2>1, <2>5, <1>6, <1>7, Zenon DEF AcceptBad
  <2> QED
    BY <2>2, <2>3, <2>4, <2>5, Zenon DEF ProcessNewBlock
<1>18. ASSUME NEW t \in Thread, NEW b \in Block \ {Genesis}, AcceptBlockHeader(b) \/ ReprocessBlocks(t, b)
       PROVE  Mem' /\ Disk'
  BY <1>5, <1>6, <1>18, Zenon DEF AcceptBlockHeader, ReprocessBlocks
<1>19. ASSUME NEW t \in Thread, NEW b \in Block \ {Genesis}, InvalidateBlock(t, b) PROVE Mem' /\ Disk'
  <2>1. /\ failedValid' = failedValid \cup {b} /\ disk' = disk
        /\ failedChild' = failedChild \/ (failedChild' = failedChild \cup {tip} /\ b \in Chain[tip])
    BY <1>19, Zenon DEF InvalidateBlock, MarkTip
  <2>2. Mem'
    BY <2>1, <1>3, ChainBasic, Zenon DEF Explained
  <2> QED
    BY <2>1, <2>2, <1>6, Zenon
<1>20. ASSUME NEW t \in Thread, NEW b \in Block \ {Genesis},
              ReconsiderBlock(t, b) \/ ReprocessReconsider(t, b)
       PROVE  FALSE
  BY <1>4, <1>20, Zenon DEF ReconsiderBlock, ReprocessReconsider, JobInv, ThreadsOK
<1> HIDE DEF Mem, Disk
<1> QED
  BY <1>1, <1>8, <1>9, <1>10, <1>11, <1>12, <1>13, <1>14, <1>15, <1>16, <1>17, <1>18, <1>19,
     <1>20, NextCases, Zenon

-----------------------------------------------------------------------------
(* The best block is not forgotten, and someone activates it *)

LEMMA QuietFacts ==
  ASSUME IndexInv, JobInv, Quiet
  PROVE  /\ "replay" \notin scenario.ops /\ "reconsider" \notin scenario.ops
         /\ scenario.checkpointed = {} /\ job.op # "replay"
         /\ \A t \in Thread : thr[t] # Replay
BY JobFacts, Zenon DEF Quiet, NothingReconsidered, JobInv, ThreadsOK

\* A chain without an invalid block has no failed block at all
LEMMA GoodNotFailed ==
  ASSUME FailedInv, NothingReconsidered, NEW b \in Block, ~HasInvalidAncestor(b)
  PROVE  Chain[b] \cap Failed = {}
<1> SUFFICES ASSUME NEW x \in Chain[b], x \in Failed PROVE FALSE
  BY Zenon
<1>1. Chain[x] \cap failedValid # {} /\ Chain[x] \subseteq Chain[b]
  BY ChainTrans, Zenon DEF FailedInv, Explained, Failed
<1> QED
  BY <1>1, Zenon DEF HasInvalidAncestor

LEMMA TipConnectsNext ==
  ASSUME IndexInv, JobInv, TipConnects, Quiet, [Next]_vars
  PROVE  TipConnects'
<1>1. scenario' = scenario /\ scenario \in Scenario
  BY NextCases, Zenon DEF IndexInv
<1>2. CASE UNCHANGED refused /\ Chain[tip'] \subseteq Chain[tip]
  BY <1>1, <1>2, Zenon DEF TipConnects
<1>3. CASE UNCHANGED vars
  BY <1>2, <1>3, Zenon DEF vars, locks
<1>4. CASE StepDisconnect \/ InvalidateDisconnect \/ ReplayDisconnect
  BY <1>2, <1>4, NotGenesis, DisconnectOK, Zenon
     DEF StepDisconnect, InvalidateDisconnect, ReplayDisconnect, locks
<1>5. CASE StepConnect
  <2>1. NextBlock \notin scenario.badConnect /\ tip' = NextBlock /\ refused' = refused
    BY <1>5, Zenon DEF StepConnect, Connects, UpdateTip, locks
  <2>2. Chain[NextBlock] = {NextBlock} \cup Chain[tip]
    BY <1>5, ConnectFacts, Zenon DEF StepConnect
  <2> QED
    BY <1>1, <2>1, <2>2, Zenon DEF TipConnects
<1>6. CASE StepInvalid \/ InvalidateRestore \/ ReplayDone
  BY <1>2, <1>6, Zenon DEF StepInvalid, InvalidateRestore, ReplayDone, locks
<1>7. ASSUME NEW t \in Thread,
             \/ ActivateBestChain(t) \/ LoopCondition(t) \/ LeaveLoop(t)
             \/ DisconnectBlocksAndReprocess(t)
      PROVE  TipConnects'
  BY <1>2, <1>7, Zenon DEF ActivateBestChain, LoopCondition, LeaveLoop, DisconnectBlocksAndReprocess, locks
<1>8. ASSUME NEW t \in Thread, Restart(t) PROVE TipConnects'
  <2>1. tip' = disk.tip /\ refused' = {}
    BY <1>8, Zenon DEF Restart, LoadBlockIndexDB, Snapshot
  <2>2. Chain[disk.tip] \subseteq Chain[tip]
    BY IndexFacts, Zenon
  <2> QED
    BY <1>1, <2>1, <2>2, Zenon DEF TipConnects
<1>9. ASSUME NEW t \in Thread, NEW b \in Block \ {Genesis},
             \/ AcceptBlockHeader(b) \/ ProcessNewBlock(t, b) \/ InvalidateBlock(t, b)
             \/ ReconsiderBlock(t, b) \/ ReprocessReconsider(t, b)
      PROVE  TipConnects'
  BY <1>2, <1>9, Zenon
     DEF AcceptBlockHeader, ProcessNewBlock, InvalidateBlock, ReconsiderBlock, ReprocessReconsider, locks
<1>10. ASSUME NEW t \in Thread, NEW b \in Block \ {Genesis}, ReprocessBlocks(t, b) PROVE FALSE
  BY <1>10, QuietFacts, Zenon DEF ReprocessBlocks
<1> QED
  BY <1>1, <1>3, <1>4, <1>5, <1>6, <1>7, <1>8, <1>9, <1>10, NextCases, Zenon

\* An anchor holds as long as its chain stays valid, the tip goes down and only blocks
\* with invalid ancestors leave the candidates
LEMMA AnchorKept ==
  ASSUME IndexInv, UNCHANGED <<linked, seq, scenario>>, tip' \in Chain[tip],
         NEW r \in linked, Anchor(r),
         failedValid \subseteq failedValid', Chain[r] \cap failedValid' = {},
         \A b \in linked : b \in candidates => b \in candidates' \/ Chain[b] \cap failedValid' # {}
  PROVE  Anchored'
<1>1. r \in Block /\ tip \in Block /\ seq \in [Block -> Nat]
  BY IndexFacts, Zenon DEF IndexInv
<1>2. tip' \in Block /\ ~Worse(tip, tip', seq)
  BY <1>1, AncestorWorse, Zenon
<1>3. ~Worse(r, tip', seq')
  BY <1>1, <1>2, WorseOrder, Zenon DEF Anchor
<1>4. Anchor(r)'
  BY <1>3, Zenon DEF Anchor, HasInvalidAncestor
<1> QED
  BY <1>4, Zenon DEF Anchored

\* A new tip is an anchor when all good blocks that are no worse are candidates
LEMMA AnchorTip ==
  ASSUME TipConnects', tip' \in linked', tip' \in Block, seq' \in [Block -> Nat],
         Chain[tip'] \cap Failed' = {},
         \A b \in linked' : Chain[b] \cap failedValid' = {} /\ ~Worse(b, tip', seq') => b \in candidates'
  PROVE  Anchored'
<1>1. ~Worse(tip', tip', seq')
  BY WorseOrder, Zenon
<1>2. Anchor(tip)'
  BY <1>1, Zenon DEF Anchor, TipConnects, HasInvalidAncestor, Failed
<1> QED
  BY <1>2, Zenon DEF Anchored

LEMMA AnchoredNext ==
  ASSUME IndexInv, JobInv, ActiveInv, FailedInv, TipConnects, Anchored, Quiet, [Next]_vars
  PROVE  Anchored'
<1>1. /\ scenario' = scenario /\ scenario \in Scenario
      /\ TipConnects' /\ NothingReconsidered /\ NotKilledWhileInvalidating
  BY NextCases, TipConnectsNext, Zenon DEF IndexInv, Quiet
<1>2. /\ tip \in Block /\ tip \in linked /\ linked \subseteq Block /\ linked \subseteq data
      /\ \A b \in linked : Chain[b] \subseteq linked
      /\ tip \in Chain[tip] /\ candidates \subseteq Block /\ seq \in [Block -> Nat]
      /\ data \subseteq Block
  BY IndexFacts, ChainBasic, Zenon DEF JobInv, CandidatesOK, IndexInv
<1>3. job.op # "invalidate" => \E r \in linked : Anchor(r)
  BY Zenon DEF Anchored
<1>4. CASE UNCHANGED <<linked, seq, tip, failedValid, candidates>> /\ job.op # "invalidate"
  <2> USE <1>4
  <2>1. PICK r \in linked : Anchor(r)
    BY <1>3, Zenon
  <2>2. Chain[r] \cap failedValid' = {}
    BY <2>1, Zenon DEF Anchor
  <2> QED
    BY <2>1, <2>2, <1>1, <1>2, AnchorKept, Zenon
<1>5. CASE job'.op = "invalidate"
  BY <1>5, Zenon DEF Anchored
<1>6. CASE UNCHANGED <<linked, seq, tip, failedValid, candidates, job>>
  BY <1>4, <1>5, <1>6, Zenon
<1>7. CASE UNCHANGED vars
  BY <1>6, <1>7, Zenon DEF vars, index, flags
<1>8. CASE StepDisconnect
  <2>1. PICK r \in linked : Anchor(r)
    BY <1>3, <1>8, Zenon DEF StepDisconnect
  <2>2. UNCHANGED <<linked, seq, failedValid, candidates>> /\ tip' \in Chain[tip]
    BY <1>8, NotGenesis, DisconnectOK, Zenon DEF StepDisconnect, index, flags
  <2>3. Chain[r] \cap failedValid' = {}
    BY <2>1, <2>2, Zenon DEF Anchor
  <2> QED
    BY <2>1, <2>2, <2>3, <1>1, AnchorKept, Zenon
<1>9. CASE StepConnect
  <2>1. /\ job.op = "activate" /\ tip \in Chain[job.target] \ {job.target} /\ tip' = NextBlock
        /\ candidates' = Prune(candidates, NextBlock, seq)
        /\ UNCHANGED <<linked, seq, failedValid, failedChild>>
    BY <1>9, Zenon DEF StepConnect, UpdateTip, index, flags
  <2> USE <2>1
  <2>2. PICK r \in linked : Anchor(r)
    BY <1>3, Zenon
  <2>3. NextBlock \in linked /\ NextBlock \in Block /\ r \in Block
    BY <1>2, ConnectFacts, Zenon
  <2>4. CASE ~Worse(r, NextBlock, seq)
    <3>1. Anchor(r)'
      <4>1. ASSUME NEW b \in linked, ~HasInvalidAncestor(b), ~Worse(b, r, seq) PROVE b \in candidates'
        <5>1. b \in candidates /\ b \in Block
          BY <4>1, <2>2, <1>2, Zenon DEF Anchor
        <5>2. ~Worse(b, NextBlock, seq)
          BY <5>1, <4>1, <2>3, <2>4, <1>2, WorseOrder, Zenon
        <5> QED
          BY <5>1, <5>2, Zenon DEF Prune
      <4> QED
        BY <4>1, <2>2, <2>4, <1>1, Zenon DEF Anchor, HasInvalidAncestor
    <3> QED
      BY <3>1, Zenon DEF Anchored
  <2>5. CASE Worse(r, NextBlock, seq)
    <3>1. Chain[NextBlock] \cap Failed = {}
      BY ActiveClean, ConnectFacts, <1>1, Zenon
    <3>2. ASSUME NEW b \in linked, ~HasInvalidAncestor(b), ~Worse(b, NextBlock, seq) PROVE b \in candidates'
      <4>1. b \in Block /\ ~Worse(NextBlock, r, seq)
        BY <2>3, <2>5, <1>2, WorseOrder, Zenon
      <4>2. ~Worse(b, r, seq)
        BY <4>1, <3>2, <2>3, <1>2, WorseOrder, Zenon
      <4> QED
        BY <3>2, <4>2, <2>2, Zenon DEF Anchor, Prune
    <3>3. \A b \in linked' : Chain[b] \cap failedValid' = {} /\ ~Worse(b, tip', seq') => b \in candidates'
      BY <3>2, Zenon DEF HasInvalidAncestor
    <3>4. Chain[tip'] \cap Failed' = {}
      BY <3>1, Zenon DEF Failed
    <3> QED
      BY <3>3, <3>4, <2>3, <1>1, <1>2, AnchorTip, Zenon
  <2> QED
    BY <2>4, <2>5, Zenon
<1>10. CASE StepInvalid
  <2>1. /\ job.op = "activate" /\ tip \in Chain[job.target] \ {job.target}
        /\ ~Connects(NextBlock)
        /\ failedValid' = failedValid \cup {NextBlock} /\ candidates' = candidates \ {NextBlock}
        /\ UNCHANGED <<linked, seq, tip>>
    BY <1>10, Zenon DEF StepInvalid, index
  <2>2. NextBlock \in scenario.badConnect /\ NextBlock \in Block
    BY <2>1, ConnectFacts, Zenon DEF Connects, CheckBlock, TipConnects
  <2>3. PICK r \in linked : Anchor(r)
    BY <1>3, <2>1, Zenon
  <2>4. Chain[r] \cap failedValid' = {}
    BY <2>1, <2>2, <2>3, Zenon DEF Anchor
  <2>5. NextBlock \in Chain[NextBlock]
    BY <2>2, ChainBasic, Zenon
  <2> QED
    BY <2>1, <2>3, <2>4, <2>5, <1>1, <1>2, AnchorKept, Zenon
<1>11. CASE InvalidateDisconnect
  BY <1>5, <1>11, Zenon DEF InvalidateDisconnect
<1>12. CASE InvalidateRestore
  <2>1. /\ candidates' = candidates \cup {c \in linked \ Failed : ~Worse(c, tip, seq)}
        /\ UNCHANGED <<linked, seq, tip, failedValid, failedChild>> /\ job'.op # "invalidate"
    BY <1>12, Zenon DEF InvalidateRestore, index, flags, Idle
  <2>2. Chain[tip'] \cap Failed' = {}
    <3>1. CutBelowFailed'
      BY <1>1, ActiveNext, Zenon DEF ActiveInv, NotKilledWhileInvalidating
    <3> QED
      BY <3>1, <2>1, Zenon DEF CutBelowFailed
  <2>3. \A b \in linked : Chain[b] \cap failedValid = {} => b \notin Failed
    BY <1>1, <1>2, GoodNotFailed, ChainBasic, Zenon DEF HasInvalidAncestor
  <2> QED
    BY <2>1, <2>2, <2>3, <1>1, <1>2, AnchorTip, Zenon
<1>13. CASE ReplayDisconnect \/ ReplayDone
  BY <1>13, QuietFacts, Zenon DEF ReplayDisconnect, ReplayDone
<1>14. ASSUME NEW t \in Thread, ActivateBestChain(t) PROVE Anchored'
  <2>1. /\ UNCHANGED <<linked, seq, tip, failedValid>> /\ job.op # "invalidate"
        /\ candidates' = candidates \ Dropped
    BY <1>14, Zenon DEF ActivateBestChain, FindMostWorkChain, Dropped, index, Idle
  <2>2. PICK r \in linked : Anchor(r)
    BY <1>3, <2>1, Zenon
  <2>3. ASSUME NEW b \in linked, b \in Dropped PROVE Chain[b] \cap failedValid # {}
    BY <2>3, <1>1, <1>2, DroppedFailed, GoodNotFailed, Zenon DEF HasInvalidAncestor
  <2>4. Chain[r] \cap failedValid' = {}
    BY <2>1, <2>2, Zenon DEF Anchor
  <2> QED
    BY <2>1, <2>2, <2>3, <2>4, <1>1, <1>2, AnchorKept, Zenon
<1>15. ASSUME NEW t \in Thread, LoopCondition(t) PROVE Anchored'
  BY <1>6, <1>15, Zenon DEF LoopCondition, index, flags
<1>16. ASSUME NEW t \in Thread, LeaveLoop(t) PROVE Anchored'
  BY <1>4, <1>16, Zenon DEF LeaveLoop, index, flags, Idle
<1>17. ASSUME NEW t \in Thread, DisconnectBlocksAndReprocess(t) PROVE Anchored'
  BY <1>17, QuietFacts, Zenon DEF DisconnectBlocksAndReprocess
<1>18. ASSUME NEW t \in Thread, Restart(t) PROVE Anchored'
  <2>1. IndexOK(disk) /\ IndexOK(Snapshot(disk.tip))
    BY IndexFacts, SnapshotOK, Zenon DEF IndexInv
  <2>2. /\ candidates' = {c \in linked' \ Failed' : ~Worse(c, tip', seq')} /\ IndexInv'
    BY <2>1, <1>1, <1>18, LoadOK, Zenon DEF Restart
  <2>3. CutBelowFailed' /\ job'.op # "invalidate"
    BY <1>1, <1>18, ActiveNext, Zenon DEF ActiveInv, NotKilledWhileInvalidating, Restart, Idle
  <2>4. Chain[tip'] \cap Failed' = {}
    BY <2>3, Zenon DEF CutBelowFailed
  <2>5. Explained(failedValid', failedChild')
    BY <1>1, FailedNext, Zenon DEF FailedInv, NothingReconsidered
  <2>6. /\ tip' \in Block /\ Chain[tip'] \subseteq data' /\ data' \subseteq Block
        /\ linked' = {b \in data' : Chain[b] \subseteq data'} /\ seq' \in [Block -> Nat]
    BY <2>2, Zenon DEF IndexInv, IndexOK, Snapshot, Saved
  <2>7. tip' \in linked'
    BY <2>6, ChainBasic, Zenon
  <2>8. ASSUME NEW b \in linked', Chain[b] \cap failedValid' = {} PROVE b \notin Failed'
    BY <2>5, <2>6, <2>8, ChainBasic, Zenon DEF Explained, Failed
  <2> QED
    BY <2>2, <2>4, <2>6, <2>7, <2>8, <1>1, AnchorTip, Zenon
<1>19. ASSUME NEW t \in Thread, NEW b \in Block \ {Genesis}, ProcessNewBlock(t, b) PROVE Anchored'
  <2>1. tip' = tip /\ job.op # "invalidate"
    BY <1>19, Zenon DEF ProcessNewBlock, Idle
  <2> USE <2>1
  <2>2. PICK r \in linked : Anchor(r)
    BY <1>3, Zenon
  <2>3. CASE ~CheckBlock(b)
    BY <2>3, <1>4, <1>19, Zenon DEF ProcessNewBlock, index, flags
  <2>4. CASE AcceptEarly(t, b)
    BY <2>4, <1>4, QuietFacts, Zenon DEF AcceptEarly, index, flags
  <2>5. CASE AcceptStakeRefused(b)
    BY <2>5, <1>4, Zenon DEF AcceptStakeRefused, flags
  <2>6. CASE b \notin data /\ AcceptBad(b)
    <3>1. Chain[r] \cap failedValid' = {}
      BY <2>2, <2>6, <1>2, Zenon DEF Anchor, AcceptBad
    <3> QED
      BY <2>2, <2>6, <3>1, <1>1, <1>2, AnchorKept, Zenon DEF AcceptBad
  <2>7. CASE b \notin data /\ Prev[b] \notin Failed /\ AcceptGood(t, b)
    <3>1. /\ linked \subseteq linked' /\ \A c \in linked : seq'[c] = seq[c]
          /\ \A c \in linked' \ linked : ~Worse(c, tip, seq') => c \in candidates'
          /\ candidates \subseteq candidates' /\ seq' \in [Block -> Nat]
          /\ data' = data \cup {b} /\ linked' \subseteq data'
      BY <2>7, ReceivedLinks, Zenon DEF AcceptGood
    <3> USE <3>1
    <3>2. failedValid' = failedValid
      BY <2>7, Zenon DEF AcceptGood, flags
    <3>3. ~Worse(r, tip, seq')
      BY <2>2, <1>2, WorseSame, Zenon DEF Anchor
    <3>4. ASSUME NEW c \in linked', ~HasInvalidAncestor(c), ~Worse(c, r, seq') PROVE c \in candidates'
      <4>1. CASE c \in linked
        BY <3>4, <4>1, <2>2, WorseSame, Zenon DEF Anchor
      <4>2. CASE c \notin linked
        <5>1. c \in Block /\ r \in Block
          BY <1>2, Zenon
        <5>2. ~Worse(c, tip, seq')
          BY <5>1, <3>3, <3>4, <1>2, WorseOrder, Zenon
        <5> QED
          BY <5>2, <4>2, Zenon
      <4> QED
        BY <4>1, <4>2, Zenon
    <3>5. Anchor(r)'
      BY <2>2, <3>2, <3>3, <3>4, <1>1, Zenon DEF Anchor, HasInvalidAncestor
    <3> QED
      BY <3>5, Zenon DEF Anchored
  <2> QED
    BY <1>19, <2>3, <2>4, <2>5, <2>6, <2>7, Zenon DEF ProcessNewBlock
<1>20. ASSUME NEW b \in Block \ {Genesis}, AcceptBlockHeader(b) PROVE Anchored'
  BY <1>4, <1>20, Zenon DEF AcceptBlockHeader, flags, Idle
<1>21. ASSUME NEW t \in Thread, NEW b \in Block \ {Genesis}, InvalidateBlock(t, b) PROVE Anchored'
  BY <1>5, <1>21, Zenon DEF InvalidateBlock, Invalidating
<1>22. ASSUME NEW t \in Thread, NEW b \in Block \ {Genesis},
              ReconsiderBlock(t, b) \/ ReprocessBlocks(t, b) \/ ReprocessReconsider(t, b)
       PROVE  FALSE
  BY <1>22, QuietFacts, Zenon DEF ReconsiderBlock, ReprocessBlocks, ReprocessReconsider
<1> QED
  BY <1>1, <1>7, <1>8, <1>9, <1>10, <1>11, <1>12, <1>13, <1>14, <1>15, <1>16, <1>17, <1>18,
     <1>19, <1>20, <1>21, <1>22, NextCases, Zenon

\* FindMostWorkChain finds a block, and no good block is better
LEMMA MostWorkIsBest ==
  ASSUME IndexInv, JobInv, FailedInv, Anchored, Quiet, job = Idle
  PROVE  /\ MostWork # {}
         /\ \A m \in MostWork : \A b \in linked : ~HasInvalidAncestor(b) => ~Worse(m, b, seq)
<1>1. /\ linked \subseteq Block /\ candidates \subseteq Block /\ seq \in [Block -> Nat]
      /\ NothingReconsidered
  BY IndexFacts, Zenon DEF IndexInv, JobInv, CandidatesOK, Quiet
<1> USE <1>1
<1>2. \A b \in candidates : ~HasInvalidAncestor(b) => b \in UsableCandidates
  BY GoodNotFailed, Zenon DEF UsableCandidates, Usable, Path
<1>3. PICK r \in linked : Anchor(r)
  BY Zenon DEF Anchored, Idle
<1>4. r \in UsableCandidates /\ r \in Block
  <2>1. ~HasInvalidAncestor(r) /\ ~Worse(r, r, seq)
    BY <1>3, WorseOrder, Zenon DEF Anchor, HasInvalidAncestor
  <2> QED
    BY <2>1, <1>2, <1>3, Zenon DEF Anchor
<1>5. UsableCandidates \in SUBSET Block
  BY Zenon DEF UsableCandidates
<1>6. MostWork # {}
  BY <1>4, <1>5, BestExists, Zenon DEF MostWork
<1>7. ASSUME NEW m \in MostWork, NEW b \in linked, ~HasInvalidAncestor(b) PROVE ~Worse(m, b, seq)
  <2>1. m \in Block /\ b \in Block
    BY <1>5, Zenon DEF MostWork
  <2>2. \A c \in UsableCandidates : ~Worse(m, c, seq)
    BY <2>1, <1>5, WorseOrder, Zenon DEF MostWork
  <2>3. CASE ~Worse(b, r, seq)
    BY <1>2, <1>3, <1>7, <2>2, <2>3, Zenon DEF Anchor
  <2>4. CASE Worse(b, r, seq)
    BY <1>4, <2>1, <2>2, <2>4, WorseOrder, Zenon
  <2> QED
    BY <2>3, <2>4, Zenon
<1> QED
  BY <1>6, <1>7, Zenon

LEMMA TargetNext ==
  ASSUME IndexInv, JobInv, FailedInv, Anchored, TargetIsBest, Quiet, [Next]_vars
  PROVE  TargetIsBest'
<1>1. scenario' = scenario /\ scenario \in Scenario
  BY NextCases, Zenon DEF IndexInv
<1>2. CASE job'.op # "activate"
  BY <1>2, Zenon DEF TargetIsBest
<1>3. CASE UNCHANGED <<job, linked, seq, failedValid>>
  BY <1>3, Zenon DEF TargetIsBest, HasInvalidAncestor
<1>4. CASE job' = Idle
  BY <1>2, <1>4, Zenon DEF Idle
<1>5. CASE UNCHANGED vars
  BY <1>3, <1>5, Zenon DEF vars, index, flags
<1>6. CASE StepDisconnect \/ InvalidateDisconnect
  BY <1>3, <1>6, Zenon DEF StepDisconnect, InvalidateDisconnect, index, flags
<1>7. CASE StepConnect
  BY <1>3, <1>4, <1>7, Zenon DEF StepConnect, Release, index, flags
<1>8. CASE StepInvalid \/ InvalidateRestore
  BY <1>4, <1>8, Zenon DEF StepInvalid, Release, InvalidateRestore
<1>9. CASE ReplayDisconnect \/ ReplayDone
  BY <1>9, QuietFacts, Zenon DEF ReplayDisconnect, ReplayDone
<1>10. ASSUME NEW t \in Thread, ActivateBestChain(t) PROVE TargetIsBest'
  <2>1. /\ job = Idle /\ UNCHANGED <<linked, seq, failedValid>>
        /\ job' = Idle \/ \E m \in MostWork : job'.target = m
    BY <1>10 DEF ActivateBestChain, Activating, index
  <2> QED
    BY <2>1, <1>4, MostWorkIsBest, Zenon DEF TargetIsBest, HasInvalidAncestor
<1>11. ASSUME NEW t \in Thread, LoopCondition(t) PROVE TargetIsBest'
  BY <1>3, <1>11, Zenon DEF LoopCondition, index, flags
<1>12. ASSUME NEW t \in Thread, LeaveLoop(t) \/ Restart(t) PROVE TargetIsBest'
  BY <1>4, <1>12, Zenon DEF LeaveLoop, Restart
<1>13. ASSUME NEW t \in Thread, DisconnectBlocksAndReprocess(t) PROVE TargetIsBest'
  BY <1>13, QuietFacts, Zenon DEF DisconnectBlocksAndReprocess
<1>14. ASSUME NEW t \in Thread, NEW b \in Block \ {Genesis},
              \/ AcceptBlockHeader(b) \/ ProcessNewBlock(t, b)
              \/ ReconsiderBlock(t, b) \/ ReprocessReconsider(t, b)
       PROVE  TargetIsBest'
  BY <1>4, <1>14, Zenon DEF AcceptBlockHeader, ProcessNewBlock, ReconsiderBlock, ReprocessReconsider
<1>15. ASSUME NEW t \in Thread, NEW b \in Block \ {Genesis}, InvalidateBlock(t, b) PROVE TargetIsBest'
  BY <1>2, <1>15, Zenon DEF InvalidateBlock, Invalidating
<1>16. ASSUME NEW t \in Thread, NEW b \in Block \ {Genesis}, ReprocessBlocks(t, b) PROVE TargetIsBest'
  BY <1>3, <1>16, Zenon DEF ReprocessBlocks, index, flags
<1> QED
  BY <1>1, <1>5, <1>6, <1>7, <1>8, <1>9, <1>10, <1>11, <1>12, <1>13, <1>14, <1>15, <1>16, NextCases, Zenon

\* A tip that no good block is better than is the best
LEMMA NoneBetter ==
  ASSUME tip' \in Block,
         \A b \in linked' : Chain[b] \cap failedValid' = {} => ~Worse(tip', b, seq')
  PROVE  BestOrBusy'
BY Zenon DEF BestOrBusy, Better, Worse

LEMMA BusyNext ==
  ASSUME IndexInv, JobInv, FailedInv, Anchored, TargetIsBest, BestOrBusy, Quiet, [Next]_vars
  PROVE  BestOrBusy'
<1>1. /\ scenario' = scenario /\ scenario \in Scenario
      /\ tip \in Block /\ linked \subseteq data /\ data \subseteq Block
      /\ thr \in [Thread -> Block \cup {Out, Loop, Replay, Flushing}]
      /\ Block \cap {Out, Loop, Replay, Flushing} = {}
  BY NextCases, IndexFacts, ParameterAssumption, Zenon
     DEF IndexInv, JobInv, ThreadsOK, Out, Loop, Replay, Flushing
<1>2. CASE job' # Idle
  BY <1>2, Zenon DEF BestOrBusy, Idle
<1>3. ASSUME NEW t \in Thread, thr'[t] = Loop PROVE BestOrBusy'
  BY <1>3, Zenon DEF BestOrBusy, Busy
<1>4. ASSUME NEW t \in Thread, NEW b, Starts(t, b) PROVE BestOrBusy'
  BY <1>1, <1>3, <1>4, Zenon DEF Starts
\* Nothing new is complete, no flag is cleared, and nobody stops who was going to look
<1>5. ASSUME job = Idle, UNCHANGED <<tip, linked, refused>>, failedValid \subseteq failedValid',
             \A t \in Thread : Busy(t) => Busy(t)'
      PROVE  BestOrBusy'
  BY <1>1, <1>5, Zenon DEF BestOrBusy, Better
<1>6. ASSUME UNCHANGED <<thr, tip>> PROVE \A t \in Thread : Busy(t) => Busy(t)'
  BY <1>6, Zenon DEF Busy
<1>7. CASE UNCHANGED vars
  <2>1. UNCHANGED <<job, tip, linked, refused, failedValid, thr>>
    BY <1>7, Zenon DEF vars, index, flags, locks, threads
  <2> QED
    BY <2>1, <1>2, <1>5, <1>6, Zenon
<1>8. CASE StepDisconnect \/ InvalidateDisconnect
  BY <1>2, <1>8 DEF StepDisconnect, InvalidateDisconnect, Idle
<1>9. CASE StepConnect
  <2>1. /\ job.op = "activate" /\ tip \in Chain[job.target] \ {job.target} /\ tip' = NextBlock
        /\ UNCHANGED <<linked, seq, failedValid>>
        /\ job' = job \/ (job' = Idle /\ thr' = [thr EXCEPT ![job.thread] = job.target])
    BY <1>9, Zenon DEF StepConnect, UpdateTip, Release, index, flags
  <2> USE <2>1
  <2>2. job.thread \in Thread /\ job.target \in Block
    BY JobFacts, Zenon
  <2>3. CASE job' = job
    BY <2>3, <1>2 DEF Idle
  <2>4. CASE job' # job /\ NextBlock # job.target
    BY <2>2, <2>4, <1>1, Zenon DEF BestOrBusy, Busy
  <2>5. CASE NextBlock = job.target
    <3>1. \A b \in linked' : Chain[b] \cap failedValid' = {} => ~Worse(tip', b, seq')
      BY <2>5, Zenon DEF TargetIsBest, HasInvalidAncestor
    <3> QED
      BY <3>1, <2>2, <2>5, NoneBetter, Zenon
  <2> QED
    BY <2>3, <2>4, <2>5, Zenon
<1>10. CASE StepInvalid
  <2>1. /\ job.op = "activate" /\ tip # job.target /\ tip' = tip
        /\ thr' = [thr EXCEPT ![job.thread] = job.target]
    BY <1>10, Zenon DEF StepInvalid, Release
  <2>2. job.thread \in Thread /\ job.target \in Block
    BY <2>1, JobFacts, Zenon
  <2> QED
    BY <2>1, <2>2, <1>1, Zenon DEF BestOrBusy, Busy
<1>11. CASE InvalidateRestore
  BY <1>4, <1>11, JobFacts, Zenon DEF InvalidateRestore
<1>12. CASE ReplayDisconnect \/ ReplayDone
  BY <1>12, QuietFacts, Zenon DEF ReplayDisconnect, ReplayDone
<1>13. ASSUME NEW t \in Thread, ActivateBestChain(t) PROVE BestOrBusy'
  <2>1. /\ job = Idle /\ UNCHANGED <<linked, seq, failedValid, tip>>
        /\ job' # Idle \/ MostWork \subseteq {tip}
    BY <1>13 DEF ActivateBestChain, Activating, Idle, index
  <2>2. CASE MostWork \subseteq {tip}
    <3>1. tip \in MostWork
      BY <2>1, <2>2, MostWorkIsBest, Zenon
    <3>2. \A b \in linked' : Chain[b] \cap failedValid' = {} => ~Worse(tip', b, seq')
      BY <2>1, <3>1, MostWorkIsBest, Zenon DEF HasInvalidAncestor
    <3> QED
      BY <2>1, <3>2, <1>1, NoneBetter, Zenon
  <2> QED
    BY <2>1, <2>2, <1>2, Zenon
<1>14. ASSUME NEW t \in Thread, LoopCondition(t) PROVE BestOrBusy'
  <2>1. /\ UNCHANGED <<job, tip, linked, refused, failedValid>> /\ thr[t] \in Block
        /\ thr' = [thr EXCEPT ![t] = IF thr[t] = tip THEN Flushing ELSE Loop]
    BY <1>14, Zenon DEF LoopCondition, index, flags, locks
  <2>2. \A u \in Thread : Busy(u) => Busy(u)'
    BY <2>1, <1>1, Zenon DEF Busy
  <2> QED
    BY <2>1, <2>2, <1>2, <1>5, Zenon
<1>15. ASSUME NEW t \in Thread, LeaveLoop(t) PROVE BestOrBusy'
  <2>1. /\ job = Idle /\ UNCHANGED <<tip, linked, refused, failedValid>> /\ thr[t] = Flushing
        /\ thr' = [thr EXCEPT ![t] = Out]
    BY <1>15, Zenon DEF LeaveLoop, Returns, index, flags, locks
  <2>2. \A u \in Thread : Busy(u) => Busy(u)'
    BY <2>1, <1>1, Zenon DEF Busy, Loop, Flushing
  <2> QED
    BY <2>1, <2>2, <1>5, Zenon
<1>16. ASSUME NEW t \in Thread, DisconnectBlocksAndReprocess(t) PROVE BestOrBusy'
  BY <1>16, QuietFacts, Zenon DEF DisconnectBlocksAndReprocess
<1>17. ASSUME NEW t \in Thread, Restart(t) PROVE BestOrBusy'
  BY <1>3, <1>17, Zenon DEF Restart
<1>18. ASSUME NEW t \in Thread, NEW b \in Block \ {Genesis}, ProcessNewBlock(t, b) PROVE BestOrBusy'
  <2> USE <1>18
  <2>1. job = Idle /\ UNCHANGED <<tip, refused>>
    BY Zenon DEF ProcessNewBlock
  <2>2. CASE AcceptEarly(t, b) \/ AcceptGood(t, b)
    BY <2>2, <1>4, Zenon DEF AcceptEarly, AcceptGood
  <2>3. CASE ~CheckBlock(b)
    BY <2>1, <2>3, <1>5, <1>6, Zenon DEF ProcessNewBlock, index, flags, threads
  <2>4. CASE AcceptBad(b) \/ AcceptStakeRefused(b)
    BY <2>1, <2>4, <1>5, <1>6, Zenon DEF AcceptBad, AcceptStakeRefused, flags, threads
  <2> QED
    BY <2>2, <2>3, <2>4, Zenon DEF ProcessNewBlock
<1>19. ASSUME NEW b \in Block \ {Genesis}, AcceptBlockHeader(b) PROVE BestOrBusy'
  BY <1>5, <1>6, <1>19, Zenon DEF AcceptBlockHeader, flags, locks, threads
<1>20. ASSUME NEW t \in Thread, NEW b \in Block \ {Genesis}, InvalidateBlock(t, b) PROVE BestOrBusy'
  BY <1>2, <1>20, Zenon DEF InvalidateBlock, Invalidating, Idle
<1>21. ASSUME NEW t \in Thread, NEW b \in Block \ {Genesis},
              ReconsiderBlock(t, b) \/ ReprocessBlocks(t, b) \/ ReprocessReconsider(t, b)
       PROVE  FALSE
  BY <1>21, QuietFacts, Zenon DEF ReconsiderBlock, ReprocessBlocks, ReprocessReconsider
<1> QED
  BY <1>1, <1>7, <1>8, <1>9, <1>10, <1>11, <1>12, <1>13, <1>14, <1>15, <1>16, <1>17, <1>18,
     <1>19, <1>20, <1>21, NextCases, Zenon

\* Every step keeps the fifth layer
LEMMA BestNext ==
  ASSUME IInv, [Next]_vars
  PROVE  BestInv'
<1>1. Quiet' => Quiet
  BY NextCases, Zenon DEF IInv, IndexInv, Quiet, NothingReconsidered, NotKilledWhileInvalidating
<1>2. Quiet => TipConnects /\ Anchored /\ TargetIsBest /\ BestOrBusy
  BY Zenon DEF IInv, BestInv
<1>3. Quiet => TipConnects' /\ Anchored' /\ TargetIsBest' /\ BestOrBusy'
  BY <1>2, TipConnectsNext, AnchoredNext, TargetNext, BusyNext, Zenon DEF IInv
<1> QED
  BY <1>1, <1>3, Zenon DEF BestInv

LEMMA Invariance == Spec => []IInv
<1>1. IInv /\ [Next]_vars => IInv'
  BY IndexNext, JobInvNext, ActiveNext, FailedNext, BestNext, Zenon DEF IInv
<1> QED
  BY <1>1, InitIInv, PTL DEF Spec

-----------------------------------------------------------------------------
(* The theorems *)

\* In every behaviour nChainTx is set exactly for the blocks whose chain is complete, and
\* mapBlocksUnlinked holds exactly the other blocks that have data, whatever the order of
\* arrival, whoever invalidates blocks and however often the node is killed
THEOREM LinkedExactly == Spec => []LinkedWhenComplete
<1>1. IInv => LinkedWhenComplete
  <2> SUFFICES ASSUME IInv PROVE LinkedWhenComplete
    BY Zenon
  <2>1. /\ linked = {b \in data : Chain[b] \subseteq data} /\ unlinked = data \ linked
        /\ known \in SUBSET Block
    BY IndexFacts, Zenon DEF IInv, IndexInv
  <2> QED
    BY <2>1, ChainBasic, Zenon DEF LinkedWhenComplete
<1> QED
  BY <1>1, Invariance, PTL

\* In every behaviour a candidate is complete and no worse than the tip, and the block that
\* is being activated is a candidate: the assertion of PruneBlockIndexCandidates that the
\* set is not empty never fails
THEOREM PruneLeavesTarget ==
  Spec => [](CandidatesOK /\ (job.op = "activate" => job.target \in candidates))
<1>1. IInv => CandidatesOK /\ (job.op = "activate" => job.target \in candidates)
  BY JobFacts, Zenon DEF IInv, JobInv
<1> QED
  BY <1>1, Invariance, PTL

\* No block of the active chain is marked failed while cs_main is free, unless a node that
\* invalidates blocks is killed
THEOREM ActiveChainClean == Spec => [](NotKilledWhileInvalidating => ActiveChainNotFailed)
<1>1. IInv => (NotKilledWhileInvalidating => ActiveChainNotFailed)
  BY ActiveClean DEF IInv, ActiveChainNotFailed, Idle
<1> QED
  BY <1>1, Invariance, PTL

\* The failed mask is never set for a block without an invalid ancestor, unless blocks are
\* reconsidered
THEOREM FailedHasCause == Spec => [](NothingReconsidered => FailedOnlyBelowInvalid)
<1>1. IInv => (NothingReconsidered => FailedOnlyBelowInvalid)
  BY Zenon DEF IInv, FailedInv, Explained, FailedOnlyBelowInvalid, HasInvalidAncestor, Failed
<1> QED
  BY <1>1, Invariance, PTL

\* The best complete block without an invalid ancestor is a candidate whenever cs_main is
\* free: neither pruning nor a reorganisation that fails half way forgets it
THEOREM BestIsNotForgotten == Spec => [](Quiet => BestBlockIsCandidate)
<1>1. IInv => (Quiet => BestBlockIsCandidate)
  <2> SUFFICES ASSUME IInv, Quiet, job = Idle, NEW b \in linked, ~HasInvalidAncestor(b),
                      \A c \in linked \ {b} : ~HasInvalidAncestor(c) => Worse(c, b, seq)
               PROVE  b \in candidates
    BY Zenon DEF BestBlockIsCandidate
  <2>1. linked \subseteq Block /\ seq \in [Block -> Nat]
    BY IndexFacts, Zenon DEF IInv, IndexInv
  <2>2. PICK r \in linked : Anchor(r)
    BY Zenon DEF IInv, BestInv, Anchored, Idle
  <2>3. ~HasInvalidAncestor(r)
    BY <2>2, Zenon DEF Anchor, HasInvalidAncestor
  <2>4. ~Worse(b, r, seq)
    BY <2>1, <2>3, WorseOrder, Zenon
  <2> QED
    BY <2>2, <2>4, Zenon DEF Anchor
<1> QED
  BY <1>1, Invariance, PTL

\* Candidates are complete and no worse than the tip, and one is left whenever cs_main is
\* free and nothing is reconsidered
THEOREM CandidatesAreGood == Spec => [](NotKilledWhileInvalidating => CandidatesAtLeastTip)
<1>1. IInv => (NotKilledWhileInvalidating => CandidatesAtLeastTip)
  <2> SUFFICES ASSUME IInv, NotKilledWhileInvalidating PROVE CandidatesAtLeastTip
    BY Zenon
  <2>1. CandidatesOK /\ (job.op = "activate" => job.target \in candidates)
    BY JobFacts, Zenon DEF IInv, JobInv
  <2>2. ASSUME job = Idle, NothingReconsidered PROVE candidates # {}
    <3>1. PICK r \in linked : Anchor(r)
      BY <2>2, Zenon DEF IInv, BestInv, Quiet, Anchored, Idle
    <3>2. ~Worse(r, r, seq)
      BY IndexFacts, WorseOrder, Zenon DEF IInv, IndexInv
    <3> QED
      BY <3>1, <3>2, Zenon DEF Anchor, HasInvalidAncestor
  <2> QED
    BY <2>1, <2>2, Zenon DEF CandidatesAtLeastTip, CandidatesOK
<1> QED
  BY <1>1, Invariance, PTL

\* When every call of ActivateBestChain has returned, the active chain is a best one
\* although any number of threads ran the loop and released cs_main between two steps
THEOREM BestChainIsActive == Spec => [](NotKilledWhileInvalidating => BestChainActivated)
<1>1. IInv => (NotKilledWhileInvalidating => BestChainActivated)
  <2> SUFFICES ASSUME IInv, NotKilledWhileInvalidating, job = Idle, \A t \in Thread : thr[t] = Out,
                      NothingReconsidered
               PROVE  TipIsBest
    BY Zenon DEF BestChainActivated
  <2>1. BestOrBusy
    BY Zenon DEF IInv, BestInv, Quiet
  <2>2. \A t \in Thread : ~Busy(t)
    BY ParameterAssumption, Zenon DEF Busy, Out, Loop
  <2> QED
    BY <2>1, <2>2, Zenon DEF BestOrBusy, TipIsBest, Better
<1> QED
  BY <1>1, Invariance, PTL

\* A step of ActivateBestChain that meets no invalid block ends on a better tip
THEOREM StepsImprove == Spec => ActivationImproves
<1> DEFINE A == job.op = "activate" /\ job' = Idle /\ failedValid' = failedValid
                  /\ "crash" \notin scenario.ops => Worse(job.old, tip', seq)
<1>1. IInv /\ [Next]_vars => [A]_vars
  <2> SUFFICES ASSUME IInv, [Next]_vars, job.op = "activate", job' = Idle,
                      failedValid' = failedValid, "crash" \notin scenario.ops
               PROVE  Worse(job.old, tip', seq)
    BY Zenon
  <2>1. job # Idle /\ job' # job
    BY DEF Idle
  <2>2. StepConnect \/ StepInvalid
    <3>1. scenario \in Scenario
      BY Zenon DEF IInv, IndexInv
    <3>2. ~(UNCHANGED vars \/ StepDisconnect \/ InvalidateDisconnect \/ InvalidateRestore
              \/ ReplayDisconnect \/ ReplayDone)
      BY <2>1, Zenon DEF vars, StepDisconnect, InvalidateDisconnect, InvalidateRestore, ReplayDisconnect,
                  ReplayDone
    <3>3. ASSUME NEW t \in Thread
          PROVE  ~(ActivateBestChain(t) \/ LoopCondition(t) \/ LeaveLoop(t)
                     \/ DisconnectBlocksAndReprocess(t) \/ Restart(t))
      BY <2>1, Zenon DEF ActivateBestChain, LoopCondition, LeaveLoop, DisconnectBlocksAndReprocess, Restart
    <3>4. ASSUME NEW t \in Thread, NEW b \in Block \ {Genesis}
          PROVE  ~(AcceptBlockHeader(b) \/ ProcessNewBlock(t, b) \/ InvalidateBlock(t, b)
                     \/ ReconsiderBlock(t, b) \/ ReprocessBlocks(t, b) \/ ReprocessReconsider(t, b))
      BY <2>1, Zenon DEF AcceptBlockHeader, ProcessNewBlock, InvalidateBlock, ReconsiderBlock,
                  ReprocessBlocks, ReprocessReconsider
    <3> QED
      BY <3>1, <3>2, <3>3, <3>4, NextCases, Zenon
  <2>3. IndexInv /\ JobInv /\ job.old \in Block /\ Worse(job.old, job.target, seq)
    BY JobFacts, Zenon DEF IInv
  <2>4. ~StepInvalid
    BY <2>3, ConnectFacts, Zenon DEF StepInvalid, Failed
  <2>5. CASE StepConnect
    <3>1. tip' = NextBlock /\ (Work[NextBlock] > Work[job.old] \/ NextBlock = job.target)
      BY <2>1, <2>5, Zenon DEF StepConnect, UpdateTip, threads
    <3>2. NextBlock \in Block
      BY <2>3, <2>5, ConnectFacts, Zenon DEF StepConnect
    <3> QED
      BY <2>3, <3>1, <3>2, TreeAssumption, Zenon DEF Worse
  <2> QED
    BY <2>2, <2>4, <2>5, Zenon
<1> QED
  BY <1>1, Invariance, PTL DEF Spec, ActivationImproves
=============================================================================
