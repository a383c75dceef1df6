----------------------------- MODULE SyncProofs -----------------------------
(***************************************************************************)
(* Proofs about the two synchronisations of a node with its peers, of the  *)
(* blocks (BlockDownload) and of the masternodes (MasternodeSync).         *)
(*                                                                         *)
(* BlockDownload: IInv says what each message and each peer's state may    *)
(* hold.  Whatever a peer announces is on a chain that the peer has; what  *)
(* FindNextBlocksToDownload asks for is on the way to the best of these    *)
(* blocks, at rising heights, and not in flight.                           *)
(***************************************************************************)
EXTENDS BlockDownload, MasternodeSync, NaturalsInduction, WellFoundedInduction, TLAPS

-----------------------------------------------------------------------------
(* Induction *)

\* A set of natural numbers that is not empty has a least element
LEMMA Least ==
  ASSUME NEW T \in SUBSET Nat, T # {}
  PROVE  \E x \in T : \A y \in T : x <= y
<1>1. \E R : IsWellFoundedOn(R, Nat) /\ \A x, y \in Nat : <<y, x>> \in R <=> y < x
  <2>1. \A x, y \in Nat : <<y, x>> \in OpToRel(<, Nat) <=> y < x
    BY Zenon DEF OpToRel
  <2> QED
    BY <2>1, NatLessThanWellFounded, Zenon
<1>2. PICK R : IsWellFoundedOn(R, Nat) /\ \A x, y \in Nat : <<y, x>> \in R <=> y < x
  BY <1>1, Zenon
<1>3. PICK x \in T : \A y \in T : ~(<<y, x>> \in R)
  BY <1>2, WFMin, Zenon
<1>4. ASSUME NEW y \in T PROVE x <= y
  <2>1. x \in Nat /\ y \in Nat
    BY Zenon
  <2>2. ~(y < x)
    BY <2>1, <1>2, <1>3, Zenon
  <2> QED
    BY <2>1, <2>2
<1> QED
  BY <1>4, Zenon

\* Induction: a least counterexample would have a predecessor that is none
LEMMA NatInd ==
  ASSUME NEW S, 0 \in S, \A n \in Nat : n \in S => n + 1 \in S
  PROVE  Nat \subseteq S
<1> SUFFICES ASSUME Nat \ S # {} PROVE FALSE
  BY Zenon
<1>1. PICK x \in Nat \ S : \A y \in Nat \ S : x <= y
  <2>1. (Nat \ S) \in SUBSET Nat
    BY Zenon
  <2> QED
    BY <2>1, Least, Zenon
<1>2. x \in Nat /\ x # 0
  BY Zenon
<1>3. x - 1 \in Nat /\ ~(x <= x - 1) /\ (x - 1) + 1 = x
  BY <1>2
<1>4. x - 1 \in S
  BY <1>1, <1>3, Zenon
<1> QED
  BY <1>3, <1>4, Zenon

\* What each step keeps holds all along
LEMMA Along ==
  ASSUME NEW X, NEW N \in Nat, NEW A, A[0] \in X, \A j \in 1..N : A[j - 1] \in X => A[j] \in X
  PROVE  \A j \in 0..N : A[j] \in X
<1> DEFINE T == {j \in Nat : j \in 0..N => A[j] \in X}
<1>1. 0 \in T
  OBVIOUS
<1>2. ASSUME NEW n \in Nat, n \in T PROVE n + 1 \in T
  <2> SUFFICES ASSUME n + 1 \in 0..N PROVE A[n + 1] \in X
    OBVIOUS
  <2>1. n \in 0..N /\ n + 1 \in 1..N /\ (n + 1) - 1 = n
    OBVIOUS
  <2>2. A[n] \in X
    BY <1>2, <2>1, Zenon
  <2> QED
    BY <2>1, <2>2, Zenon
<1> HIDE DEF T
<1>3. Nat \subseteq T
  BY <1>1, <1>2, NatInd, Zenon
<1>4. \A j \in 0..N : j \in Nat
  OBVIOUS
<1> QED
  BY <1>3, <1>4, Zenon DEF T

\* G[j] takes the result of step j - 1 to that of step j
Follows(f, x, n, G) == f[0] = x /\ \A j \in 1..n : f[j] = G[j][f[j - 1]]

\* Steps that stay in X can be followed N times: the recursive definitions below exist
LEMMA Recursion ==
  ASSUME NEW X, NEW x \in X, NEW N \in Nat, NEW G \in [1..N -> [X -> X]]
  PROVE  \E f \in [0..N -> X] : Follows(f, x, N, G)
<1> DEFINE T == {n \in Nat : n \in 0..N => \E f \in [0..n -> X] : Follows(f, x, n, G)}
<1>1. 0 \in T
  <2>1. PICK f : f = [j \in 0..0 |-> x]
    BY Zenon
  <2>2. f \in [0..0 -> X] /\ f[0] = x
    BY <2>1
  <2>3. 1..0 = {}
    OBVIOUS
  <2>4. Follows(f, x, 0, G)
    BY <2>2, <2>3, Zenon DEF Follows
  <2> QED
    BY <2>2, <2>4, Zenon
<1>2. ASSUME NEW n \in Nat, n \in T PROVE n + 1 \in T
  <2> SUFFICES ASSUME n + 1 \in 0..N PROVE \E f \in [0..(n + 1) -> X] : Follows(f, x, n + 1, G)
    OBVIOUS
  <2>1. n \in 0..N /\ n + 1 \in 1..N /\ n \in 0..n /\ n + 1 \notin 0..n /\ 0 \in 0..n
    OBVIOUS
  <2>2. PICK f \in [0..n -> X] : Follows(f, x, n, G)
    BY <1>2, <2>1, Zenon
  <2>3. PICK y : y = G[n + 1][f[n]]
    BY Zenon
  <2>4. y \in X
    BY <2>1, <2>3, Zenon
  <2>5. PICK g : g = [j \in 0..(n + 1) |-> IF j = n + 1 THEN y ELSE f[j]]
    BY Zenon
  <2>6. 0..(n + 1) = (0..n) \cup {n + 1}
    OBVIOUS
  <2>7. g[n + 1] = y /\ \A j \in 0..n : g[j] = f[j]
    BY <2>1, <2>5, <2>6, Zenon
  <2>8. g \in [0..(n + 1) -> X]
    BY <2>4, <2>5, <2>6, Zenon
  <2>9. ASSUME NEW j \in 1..(n + 1) PROVE g[j] = G[j][g[j - 1]]
    <3>1. j = n + 1 \/ (j \in 1..n /\ j \in 0..n /\ j - 1 \in 0..n)
      OBVIOUS
    <3>2. CASE j = n + 1
      <4>1. j - 1 = n
        BY <3>2
      <4> QED
        BY <2>1, <2>3, <2>7, <3>2, <4>1, Zenon
    <3>3. CASE j \in 1..n /\ j \in 0..n /\ j - 1 \in 0..n
      BY <2>2, <2>7, <3>3, Zenon DEF Follows
    <3> QED
      BY <3>1, <3>2, <3>3, Zenon
  <2>10. g[0] = x
    BY <2>1, <2>2, <2>7, Zenon DEF Follows
  <2>11. Follows(g, x, n + 1, G)
    BY <2>9, <2>10, Zenon DEF Follows
  <2> QED
    BY <2>8, <2>11, Zenon
<1> HIDE DEF T
<1>3. N \in T
  BY <1>1, <1>2, NatInd, Zenon
<1>4. N \in 0..N
  OBVIOUS
<1> QED
  BY <1>3, <1>4, Zenon DEF T

-----------------------------------------------------------------------------
(* Chains *)

Closure(b) == {x \in Block : \A S \in SUBSET Block : b \in S /\ (\A y \in S : Prev[y] \in S) => x \in S}

\* Every block has a parent, Genesis itself
LEMMA PrevType == \A b \in Block : Prev[b] \in Block
BY BlockDownloadAssumption, Zenon

\* The recursive definition of Chain has a solution: the least set of blocks with b that is
\* closed under Prev
LEMMA ChainDef == \A b \in Block : Chain[b] = IF b = Genesis THEN {b} ELSE Chain[Prev[b]] \cup {b}
<1> DEFINE G == [b \in Block |-> Closure(b)]
<1>1. ASSUME NEW b \in Block PROVE b \in Closure(b) /\ Closure(b) \in SUBSET Block
  BY Zenon DEF Closure
<1>2. ASSUME NEW b \in Block, NEW x \in Closure(b) PROVE Prev[x] \in Closure(b)
  <2>1. x \in Block /\ Prev[x] \in Block
    BY <1>2, PrevType, Zenon DEF Closure
  <2> QED
    BY <1>2, <2>1, Zenon DEF Closure
<1>3. Closure(Genesis) = {Genesis}
  <2>1. {Genesis} \in SUBSET Block /\ \A y \in {Genesis} : Prev[y] \in {Genesis}
    BY BlockDownloadAssumption, Zenon
  <2>2. Closure(Genesis) \subseteq {Genesis}
    BY <2>1, Zenon DEF Closure
  <2> QED
    BY <1>1, <2>1, <2>2, Zenon
<1>4. ASSUME NEW b \in Block PROVE Closure(b) = Closure(Prev[b]) \cup {b}
  <2>1. Prev[b] \in Block
    BY PrevType, Zenon
  <2>2. PICK S : S = Closure(Prev[b]) \cup {b}
    BY Zenon
  <2>3. S \in SUBSET Block /\ b \in S /\ \A y \in S : Prev[y] \in S
    BY <1>1, <1>2, <2>1, <2>2, Zenon
  <2>4. Closure(b) \subseteq S
    BY <2>3, Zenon DEF Closure
  <2>5. PICK D \in SUBSET Block : D = Closure(b)
    BY <1>1, Zenon
  <2>6. Prev[b] \in D /\ b \in D /\ \A y \in D : Prev[y] \in D
    BY <1>1, <1>2, <2>5, Zenon
  <2>7. Closure(Prev[b]) \subseteq D
    BY <2>6, Zenon DEF Closure
  <2> QED
    BY <2>2, <2>4, <2>5, <2>6, <2>7, Zenon
<1>5. ASSUME NEW b \in Block
      PROVE  G[b] = IF b = Genesis THEN {b} ELSE G[Prev[b]] \cup {b}
  BY <1>3, <1>4, PrevType, Zenon
<1>6. G = [b \in Block |-> IF b = Genesis THEN {b} ELSE G[Prev[b]] \cup {b}]
  BY <1>5, Zenon
<1> HIDE DEF G
<1>7. \E f : f = [b \in Block |-> IF b = Genesis THEN {b} ELSE f[Prev[b]] \cup {b}]
  BY <1>6, Zenon
<1>8. PICK f : /\ f = [b \in Block |-> IF b = Genesis THEN {b} ELSE f[Prev[b]] \cup {b}]
               /\ Chain = [b \in Block |-> f[b]]
  BY <1>7, Zenon DEF Chain
<1> QED
  BY <1>8, PrevType, Zenon

\* Induction from Genesis along the parents
LEMMA BlockInd ==
  ASSUME NEW S, Genesis \in S, \A b \in Block \ {Genesis} : Prev[b] \in S => b \in S
  PROVE  Block \subseteq S
<1> DEFINE T == {n \in Nat : \A b \in Block : Height[b] = n => b \in S}
<1>1. 0 \in T
  <2>1. ASSUME NEW b \in Block, Height[b] = 0 PROVE b = Genesis
    <3> SUFFICES ASSUME b # Genesis PROVE FALSE
      BY Zenon
    <3>1. Height[b] = Height[Prev[b]] + 1 /\ Height[Prev[b]] \in Nat
      BY BlockDownloadAssumption, Zenon
    <3> QED
      BY <2>1, <3>1
  <2> QED
    BY <2>1, Zenon
<1>2. ASSUME NEW n \in Nat, n \in T PROVE n + 1 \in T
  <2> SUFFICES ASSUME NEW b \in Block, Height[b] = n + 1 PROVE b \in S
    <3>1. n + 1 \in Nat
      OBVIOUS
    <3> QED
      BY <3>1, Zenon
  <2>1. CASE b = Genesis
    BY <2>1, Zenon
  <2>2. CASE b # Genesis
    <3>1. Height[b] = Height[Prev[b]] + 1 /\ Height[Prev[b]] \in Nat /\ Prev[b] \in Block
      BY <2>2, BlockDownloadAssumption, Zenon
    <3>2. Height[Prev[b]] = n
      BY <3>1
    <3> QED
      BY <1>2, <2>2, <3>1, <3>2, Zenon
  <2> QED
    BY <2>1, <2>2, Zenon
<1> HIDE DEF T
<1>3. Nat \subseteq T
  BY <1>1, <1>2, NatInd, Zenon
<1>4. \A b \in Block : Height[b] \in Nat
  BY BlockDownloadAssumption, Zenon
<1> QED
  BY <1>3, <1>4, Zenon DEF T

\* A chain is the chain of the parent and the block, one higher
LEMMA ChainStep ==
  /\ Chain[Genesis] = {Genesis} /\ Genesis \in Block /\ Height[Genesis] = 0
  /\ \A b \in Block \ {Genesis} :
       /\ Prev[b] \in Block /\ Chain[b] = Chain[Prev[b]] \cup {b}
       /\ Height[b] \in Nat /\ Height[Prev[b]] \in Nat /\ Height[b] = Height[Prev[b]] + 1
BY ChainDef, BlockDownloadAssumption, Zenon

\* A chain is a set of blocks with Genesis and the block itself
LEMMA ChainBlocks ==
  \A b \in Block : b \in Chain[b] /\ Genesis \in Chain[b] /\ Chain[b] \in SUBSET Block
<1> DEFINE S == {b \in Block : b \in Chain[b] /\ Genesis \in Chain[b] /\ Chain[b] \in SUBSET Block}
<1>1. Genesis \in S
  BY ChainStep, Zenon
<1>2. ASSUME NEW b \in Block \ {Genesis}, Prev[b] \in S PROVE b \in S
  <2>1. Chain[b] = Chain[Prev[b]] \cup {b}
    BY ChainStep, Zenon
  <2>2. Genesis \in Chain[Prev[b]] /\ Chain[Prev[b]] \in SUBSET Block
    BY <1>2, Zenon
  <2> QED
    BY <2>1, <2>2, Zenon
<1> HIDE DEF S
<1>3. Block \subseteq S
  BY <1>1, <1>2, BlockInd, Zenon
<1> QED
  BY <1>3, Zenon DEF S

\* The chain of a block of a chain is part of it, and no higher
LEMMA ChainBelow ==
  \A b \in Block : \A x \in Chain[b] : Chain[x] \subseteq Chain[b] /\ Height[x] <= Height[b]
<1> DEFINE S == {b \in Block : \A x \in Chain[b] : Chain[x] \subseteq Chain[b] /\ Height[x] <= Height[b]}
<1>1. Genesis \in S
  <2>1. Height[Genesis] <= Height[Genesis]
    BY ChainStep
  <2> QED
    BY <2>1, ChainStep, Zenon
<1>2. ASSUME NEW b \in Block \ {Genesis}, Prev[b] \in S PROVE b \in S
  <2> SUFFICES ASSUME NEW x \in Chain[b] PROVE Chain[x] \subseteq Chain[b] /\ Height[x] <= Height[b]
    BY Zenon
  <2>1. Height[b] \in Nat /\ Height[Prev[b]] \in Nat /\ Height[b] = Height[Prev[b]] + 1
    BY ChainStep, Zenon
  <2>2. CASE x = b
    <3>1. Height[b] <= Height[b]
      BY <2>1
    <3> QED
      BY <2>2, <3>1, Zenon
  <2>3. CASE x # b
    <3>0. Prev[b] \in Block /\ Chain[b] = Chain[Prev[b]] \cup {b}
      BY ChainStep, Zenon
    <3>1. x \in Chain[Prev[b]] /\ Prev[b] \in Block /\ Chain[b] = Chain[Prev[b]] \cup {b}
      BY <2>3, <3>0, Zenon
    <3>2. Chain[x] \subseteq Chain[Prev[b]] /\ Height[x] <= Height[Prev[b]]
      BY <1>2, <3>1, Zenon
    <3>3. x \in Block
      BY <3>1, ChainBlocks, Zenon
    <3>4. Height[x] \in Nat
      BY <3>3, BlockDownloadAssumption, Zenon
    <3>5. Height[x] <= Height[b]
      BY <2>1, <3>2, <3>4
    <3> QED
      BY <3>1, <3>2, <3>5, Zenon
  <2> QED
    BY <2>2, <2>3, Zenon
<1> HIDE DEF S
<1>3. Block \subseteq S
  BY <1>1, <1>2, BlockInd, Zenon
<1> QED
  BY <1>3, Zenon DEF S

\* A chain has a block at every height
LEMMA ChainHeights == \A b \in Block : \A h \in 0..Height[b] : \E x \in Chain[b] : Height[x] = h
<1> DEFINE S == {b \in Block : \A h \in 0..Height[b] : \E x \in Chain[b] : Height[x] = h}
<1>1. Genesis \in S
  <2>1. \A h \in 0..Height[Genesis] : h = Height[Genesis]
    BY ChainStep
  <2> QED
    BY <2>1, ChainStep, Zenon
<1>2. ASSUME NEW b \in Block \ {Genesis}, Prev[b] \in S PROVE b \in S
  <2> SUFFICES ASSUME NEW h \in 0..Height[b] PROVE \E x \in Chain[b] : Height[x] = h
    BY Zenon
  <2>1. Height[b] \in Nat /\ Height[Prev[b]] \in Nat /\ Height[b] = Height[Prev[b]] + 1
    BY ChainStep, Zenon
  <2>2. h = Height[b] \/ h \in 0..Height[Prev[b]]
    BY <2>1
  <2>3. b \in Chain[b] /\ Chain[Prev[b]] \subseteq Chain[b]
    BY ChainStep, Zenon
  <2> QED
    BY <1>2, <2>2, <2>3, Zenon
<1> HIDE DEF S
<1>3. Block \subseteq S
  BY <1>1, <1>2, BlockInd, Zenon
<1> QED
  BY <1>3, Zenon DEF S

\* GetAncestor returns the block of the chain at that height
LEMMA AncestorIn ==
  ASSUME NEW b \in Block, NEW h \in 0..Height[b]
  PROVE  Ancestor(b, h) \in Chain[b] /\ Height[Ancestor(b, h)] = h
<1>1. \E x \in Chain[b] : Height[x] = h
  BY ChainHeights, Zenon
<1> QED
  BY <1>1, Zenon DEF Ancestor

\* LastCommonAncestor is on both chains: Genesis is, and heights are bounded
LEMMA CommonIn ==
  ASSUME NEW a \in Block, NEW b \in Block
  PROVE  LastCommonAncestor(a, b) \in Chain[a] /\ LastCommonAncestor(a, b) \in Chain[b]
<1> DEFINE C == Chain[a] \cap Chain[b]
           T == {n \in Nat : \E x \in C : Height[x] = Height[a] - n}
<1>1. Genesis \in C /\ C \in SUBSET Block
  BY ChainBlocks, Zenon
<1>2. \A x \in C : Height[x] \in Nat /\ Height[a] \in Nat /\ Height[x] <= Height[a]
  BY <1>1, ChainBelow, BlockDownloadAssumption, Zenon
<1> HIDE DEF C
<1>3. \A x \in C : Height[a] - Height[x] \in Nat /\ Height[x] = Height[a] - (Height[a] - Height[x])
  BY <1>2
<1>4. \A x \in C : Height[a] - Height[x] \in T
  BY <1>3, Zenon
<1>5. T \in SUBSET Nat /\ T # {}
  BY <1>1, <1>4, Zenon
<1> HIDE DEF T
<1>6. PICK n \in T : \A m \in T : n <= m
  BY <1>5, Least, Zenon
<1>7. PICK x \in C : n \in Nat /\ Height[x] = Height[a] - n
  BY <1>6, Zenon DEF T
<1>8. ASSUME NEW y \in C PROVE Height[y] <= Height[x]
  <2>1. n <= Height[a] - Height[y]
    BY <1>4, <1>6, Zenon
  <2> QED
    BY <1>2, <1>7, <2>1
<1>9. \E z \in C : \A y \in C : Height[y] <= Height[z]
  BY <1>8, Zenon
<1>10. LastCommonAncestor(a, b) \in C
  BY <1>9, Zenon DEF LastCommonAncestor, C
<1> QED
  BY <1>10, Zenon DEF C

\* The way up to a block is on its chain, without a block twice
LEMMA PathIn ==
  ASSUME NEW b \in Block, NEW h \in 0..Height[b]
  PROVE  /\ Path(b, h) \in Seq(Chain[b])
         /\ Len(Path(b, h)) \in Nat /\ DOMAIN Path(b, h) = 1..Len(Path(b, h))
         /\ IsInjective(Path(b, h))
<1>1. Height[b] \in Nat
  BY BlockDownloadAssumption, Zenon
<1>2. PICK n \in Nat : n = Height[b] - h
  BY <1>1
<1>3. ASSUME NEW i \in 1..n PROVE Ancestor(b, h + i) \in Chain[b] /\ Height[Ancestor(b, h + i)] = h + i
  <2>1. h + i \in 0..Height[b]
    BY <1>1, <1>2
  <2> QED
    BY <2>1, AncestorIn, Zenon
<1>4. PICK s : s = [i \in 1..n |-> Ancestor(b, h + i)]
  BY Zenon
<1>5. s = Path(b, h)
  BY <1>2, <1>4, Zenon DEF Path
<1>6. s \in [1..n -> Chain[b]]
  BY <1>3, <1>4, Zenon
<1>7. s \in Seq(Chain[b])
  BY <1>6
<1>8. Len(s) = n /\ DOMAIN s = 1..n
  BY <1>6
<1>9. IsInjective(s)
  <2> SUFFICES ASSUME NEW i \in DOMAIN s, NEW j \in DOMAIN s, s[i] = s[j] PROVE i = j
    BY Zenon DEF IsInjective
  <2>1. i \in 1..n /\ j \in 1..n
    BY <1>8, Zenon
  <2>2. Height[s[i]] = h + i /\ Height[s[j]] = h + j
    BY <1>3, <1>4, <2>1, Zenon
  <2>3. h + i = h + j
    BY <2>2, Zenon
  <2> QED
    BY <2>1, <2>3
<1> QED
  BY <1>5, <1>7, <1>8, <1>9, Zenon

-----------------------------------------------------------------------------
(* Sequences *)

\* What a sequence over Y is
LEMMA SeqFacts ==
  ASSUME NEW Y, NEW s \in Seq(Y)
  PROVE  /\ Len(s) \in Nat /\ DOMAIN s = 1..Len(s) /\ \A i \in 1..Len(s) : s[i] \in Y
         /\ Range(s) \subseteq Y /\ (s = <<>> <=> Len(s) = 0)
<1>1. Len(s) \in Nat /\ DOMAIN s = 1..Len(s) /\ \A i \in 1..Len(s) : s[i] \in Y
  OBVIOUS
<1>2. Range(s) \subseteq Y
  BY <1>1, Zenon DEF Range
<1>3. s = <<>> <=> Len(s) = 0
  OBVIOUS
<1> QED
  BY <1>1, <1>2, <1>3, Zenon

\* What Append adds
LEMMA AppendFacts ==
  ASSUME NEW Y, NEW s \in Seq(Y), NEW e \in Y
  PROVE  /\ Append(s, e) \in Seq(Y) /\ Len(Append(s, e)) = Len(s) + 1
         /\ Range(Append(s, e)) = Range(s) \cup {e}
         /\ IsInjective(s) /\ e \notin Range(s) => IsInjective(Append(s, e))
<1>1. PICK t : t = Append(s, e)
  BY Zenon
<1>2. PICK n : n = Len(s)
  BY Zenon
<1>3. n \in Nat /\ DOMAIN s = 1..n
  BY <1>2
<1>4. t \in Seq(Y) /\ Len(t) = n + 1 /\ DOMAIN t = 1..(n + 1)
  BY <1>1, <1>2
<1>5. t[n + 1] = e /\ \A i \in 1..n : t[i] = s[i]
  BY <1>1, <1>2
<1>6. 1..(n + 1) = (1..n) \cup {n + 1} /\ n + 1 \notin 1..n
  BY <1>3
<1>7. Range(t) = Range(s) \cup {e}
  <2>1. ASSUME NEW i \in DOMAIN t PROVE t[i] \in Range(s) \cup {e}
    BY <1>3, <1>4, <1>5, <1>6, <2>1, Zenon DEF Range
  <2>2. ASSUME NEW i \in DOMAIN s PROVE s[i] \in Range(t)
    BY <1>3, <1>4, <1>5, <1>6, <2>2, Zenon DEF Range
  <2>3. e \in Range(t)
    BY <1>4, <1>5, <1>6, Zenon DEF Range
  <2> QED
    BY <2>1, <2>2, <2>3, Zenon DEF Range
<1>8. ASSUME IsInjective(s), e \notin Range(s) PROVE IsInjective(t)
  <2>1. \A i, j \in 1..n : s[i] = s[j] => i = j
    BY <1>3, <1>8, Zenon DEF IsInjective
  <2>2. \A i \in 1..n : s[i] # e
    BY <1>3, <1>8, Zenon DEF Range
  <2>3. \A i, j \in (1..n) \cup {n + 1} : t[i] = t[j] => i = j
    BY <1>5, <2>1, <2>2, Zenon
  <2> QED
    BY <1>4, <1>6, <2>3, Zenon DEF IsInjective
<1> QED
  BY <1>1, <1>2, <1>4, <1>7, <1>8, Zenon

\* What the concatenation holds, and when no member is twice in it
LEMMA ConcatFacts ==
  ASSUME NEW Y, NEW s \in Seq(Y), NEW t \in Seq(Y)
  PROVE  /\ s \o t \in Seq(Y) /\ Len(s \o t) = Len(s) + Len(t)
         /\ Range(s \o t) = Range(s) \cup Range(t)
         /\ IsInjective(s) /\ IsInjective(t) /\ Range(s) \cap Range(t) = {} => IsInjective(s \o t)
<1>1. PICK u : u = s \o t
  BY Zenon
<1>2. PICK n : n = Len(s)
  BY Zenon
<1>3. PICK m : m = Len(t)
  BY Zenon
<1>4. n \in Nat /\ m \in Nat /\ DOMAIN s = 1..n /\ DOMAIN t = 1..m
  BY <1>2, <1>3
<1>5. u \in Seq(Y) /\ Len(u) = n + m /\ DOMAIN u = 1..(n + m)
  BY <1>1, <1>2, <1>3
<1>6. \A i \in 1..n : u[i] = s[i]
  BY <1>1, <1>2, <1>3
<1>7. \A j \in 1..m : u[n + j] = t[j]
  BY <1>1, <1>2, <1>3
<1>8. \A i \in 1..n : i \in 1..(n + m)
  BY <1>4
<1>9. \A j \in 1..m : n + j \in 1..(n + m)
  BY <1>4
<1>10. \A k \in 1..(n + m) : k \in 1..n \/ \E j \in 1..m : k = n + j
  <2> SUFFICES ASSUME NEW k \in 1..(n + m), k \notin 1..n PROVE \E j \in 1..m : k = n + j
    BY Zenon
  <2>1. k - n \in 1..m /\ k = n + (k - n)
    BY <1>4
  <2> QED
    BY <2>1, Zenon
<1>11. Range(u) = Range(s) \cup Range(t)
  <2>1. ASSUME NEW x \in Range(u) PROVE x \in Range(s) \cup Range(t)
    <3>1. PICK k \in 1..(n + m) : x = u[k]
      BY <1>5, <2>1, Zenon DEF Range
    <3> QED
      BY <1>4, <1>6, <1>7, <1>10, <3>1, Zenon DEF Range
  <2>2. ASSUME NEW x \in Range(s) PROVE x \in Range(u)
    BY <1>4, <1>5, <1>6, <1>8, <2>2, Zenon DEF Range
  <2>3. ASSUME NEW x \in Range(t) PROVE x \in Range(u)
    BY <1>4, <1>5, <1>7, <1>9, <2>3, Zenon DEF Range
  <2> QED
    BY <2>1, <2>2, <2>3, Zenon
<1>12. ASSUME IsInjective(s), IsInjective(t), Range(s) \cap Range(t) = {} PROVE IsInjective(u)
  <2> SUFFICES ASSUME NEW k \in 1..(n + m), NEW l \in 1..(n + m), u[k] = u[l] PROVE k = l
    BY <1>5, Zenon DEF IsInjective
  <2>1. \A i, j \in 1..n : s[i] = s[j] => i = j
    BY <1>4, <1>12, Zenon DEF IsInjective
  <2>2. \A i, j \in 1..m : t[i] = t[j] => i = j
    BY <1>4, <1>12, Zenon DEF IsInjective
  <2>3. \A i \in 1..n : \A j \in 1..m : s[i] # t[j]
    BY <1>4, <1>12, Zenon DEF Range
  <2>4. CASE k \in 1..n
    <3>1. u[k] = s[k] /\ \A j \in 1..m : s[k] # t[j]
      BY <1>6, <2>3, <2>4, Zenon
    <3>2. l \in 1..n
      BY <1>7, <1>10, <3>1, Zenon
    <3> QED
      BY <1>6, <2>1, <2>4, <3>1, <3>2, Zenon
  <2>5. CASE k \notin 1..n
    <3>1. PICK i \in 1..m : k = n + i
      BY <1>10, <2>5, Zenon
    <3>2. u[k] = t[i]
      BY <1>7, <3>1, Zenon
    <3>3. l \notin 1..n
      BY <1>6, <2>3, <3>2, Zenon
    <3>4. PICK j \in 1..m : l = n + j
      BY <1>10, <3>3, Zenon
    <3>5. u[l] = t[j]
      BY <1>7, <3>4, Zenon
    <3>6. i = j
      BY <2>2, <3>2, <3>5, Zenon
    <3> QED
      BY <3>1, <3>4, <3>6, Zenon
  <2> QED
    BY <2>4, <2>5, Zenon
<1> QED
  BY <1>1, <1>2, <1>3, <1>5, <1>11, <1>12, Zenon

\* The recursive function that filters a sequence is defined for every sequence
LEMMA KeptDef ==
  ASSUME NEW Y, NEW s \in Seq(Y), NEW S
  PROVE  \A j \in 0..Len(s) :
           Kept(s, S)[j] = IF j = 0 THEN <<>>
                           ELSE IF s[j] \in S THEN Append(Kept(s, S)[j - 1], s[j]) ELSE Kept(s, S)[j - 1]
<1> DEFINE Step(a, j) == IF s[j] \in S THEN Append(a, s[j]) ELSE a
           X == Seq(Y)
           G == [j \in 1..Len(s) |-> [a \in X |-> Step(a, j)]]
<1>1. Len(s) \in Nat /\ <<>> \in X
  OBVIOUS
<1>2. ASSUME NEW j \in 1..Len(s), NEW a \in X PROVE Step(a, j) \in X
  <2>1. s[j] \in Y
    BY SeqFacts, Zenon
  <2> QED
    BY <2>1, AppendFacts, Zenon
<1>0. (\E f : f = [j \in 0..Len(s) |-> IF j = 0 THEN <<>> ELSE Step(f[j - 1], j)])
        => Kept(s, S) = [j \in 0..Len(s) |-> IF j = 0 THEN <<>> ELSE Step(Kept(s, S)[j - 1], j)]
  BY Zenon DEF Kept
<1> HIDE DEF Step, X
<1>3. G \in [1..Len(s) -> [X -> X]]
  BY <1>2, Zenon
<1>4. PICK f \in [0..Len(s) -> X] : Follows(f, <<>>, Len(s), G)
  BY <1>1, <1>3, Recursion, Zenon
<1>5. \A j \in 0..Len(s) : j = 0 \/ (j \in 1..Len(s) /\ j - 1 \in 0..Len(s) /\ j # 0)
  BY <1>1
<1>6. \A j \in 0..Len(s) : f[j] = IF j = 0 THEN <<>> ELSE Step(f[j - 1], j)
  BY <1>4, <1>5, Zenon DEF Follows
<1>7. f = [j \in 0..Len(s) |-> IF j = 0 THEN <<>> ELSE Step(f[j - 1], j)]
  BY <1>4, <1>6, Zenon
<1>8. Kept(s, S) = [j \in 0..Len(s) |-> IF j = 0 THEN <<>> ELSE Step(Kept(s, S)[j - 1], j)]
  BY <1>0, <1>7, Zenon
<1>9. ASSUME NEW j \in 0..Len(s)
      PROVE  Kept(s, S)[j] = IF j = 0 THEN <<>>
                             ELSE IF s[j] \in S THEN Append(Kept(s, S)[j - 1], s[j]) ELSE Kept(s, S)[j - 1]
  <2>1. Kept(s, S)[j] = IF j = 0 THEN <<>> ELSE Step(Kept(s, S)[j - 1], j)
    BY <1>8, Zenon
  <2> QED
    BY <2>1, Zenon DEF Step
<1> QED
  BY <1>9, Zenon

\* Filter keeps the members of S, each once if each was there once
LEMMA FilterFacts ==
  ASSUME NEW Y, NEW s \in Seq(Y), NEW S
  PROVE  /\ Filter(s, S) \in Seq(Y) /\ Len(Filter(s, S)) <= Len(s)
         /\ Range(Filter(s, S)) = Range(s) \cap S
         /\ IsInjective(s) => IsInjective(Filter(s, S))
<1> DEFINE K == Kept(s, S)
           P(f, j) == /\ f \in Seq(Y) /\ Len(f) <= j
                      /\ Range(f) = {s[k] : k \in 1..j} \cap S
                      /\ IsInjective(s) => IsInjective(f)
           T == {j \in Nat : j \in 0..Len(s) => P(K[j], j)}
<1>1. Len(s) \in Nat /\ DOMAIN s = 1..Len(s)
  OBVIOUS
<1>2. \A j \in 0..Len(s) : K[j] = IF j = 0 THEN <<>>
                                  ELSE IF s[j] \in S THEN Append(K[j - 1], s[j]) ELSE K[j - 1]
  BY KeptDef, SMT
<1> HIDE DEF K
<1>3. 0 \in T
  <2>1. K[0] = <<>>
    BY <1>1, <1>2
  <2>2. <<>> \in Seq(Y) /\ Len(<<>>) <= 0 /\ DOMAIN <<>> = {} /\ 1..0 = {}
    OBVIOUS
  <2>3. IsInjective(<<>>) /\ Range(<<>>) = {s[k] : k \in 1..0} \cap S
    BY <2>2, Zenon DEF IsInjective, Range
  <2>4. P(K[0], 0)
    BY <2>1, <2>2, <2>3, Zenon
  <2> HIDE DEF P
  <2> QED
    BY <2>4
<1>4. ASSUME NEW n \in Nat, n \in T PROVE n + 1 \in T
  <2> SUFFICES ASSUME n + 1 \in 0..Len(s) PROVE P(K[n + 1], n + 1)
    OBVIOUS
  <2>1. n \in 0..Len(s) /\ n + 1 \in 1..Len(s) /\ n + 1 # 0 /\ (n + 1) - 1 = n
        /\ 1..(n + 1) = (1..n) \cup {n + 1} /\ n + 1 \notin 1..n /\ \A k \in 1..n : k \in 1..Len(s)
    BY <1>1
  <2>2. P(K[n], n)
    BY <1>4, <2>1, Zenon
  <2>3. PICK f : f = K[n]
    BY Zenon
  <2>4. PICK e : e = s[n + 1]
    BY Zenon
  <2>5. e \in Y
    BY <2>1, <2>4, SeqFacts, Zenon
  <2>6. {s[k] : k \in 1..(n + 1)} = {s[k] : k \in 1..n} \cup {e}
    BY <2>1, <2>4, Zenon
  <2>7. CASE e \in S
    <3>1. K[n + 1] = Append(f, e)
      BY <1>2, <2>1, <2>3, <2>4, <2>7, Zenon
    <3>2. f \in Seq(Y) /\ Len(f) <= n /\ Range(f) = {s[k] : k \in 1..n} \cap S
      BY <2>2, <2>3, Zenon
    <3>3. Append(f, e) \in Seq(Y) /\ Len(Append(f, e)) = Len(f) + 1 /\ Range(Append(f, e)) = Range(f) \cup {e}
      <4>1. f \in Seq(Y)
        BY <3>2, Zenon
      <4> QED
        BY <2>5, <4>1, AppendFacts, SMT
    <3>4. Len(Append(f, e)) <= n + 1
      BY <3>2, <3>3
    <3>5. Range(Append(f, e)) = {s[k] : k \in 1..(n + 1)} \cap S
      BY <2>6, <2>7, <3>2, <3>3, Zenon
    <3>6. ASSUME IsInjective(s) PROVE IsInjective(Append(f, e))
      <4>1. \A k \in 1..n : s[k] # e
        BY <1>1, <2>1, <2>4, <3>6, Zenon DEF IsInjective
      <4>2. e \notin Range(f) /\ IsInjective(f)
        BY <2>2, <2>3, <3>2, <3>6, <4>1, Zenon
      <4> QED
        BY <2>5, <3>2, <4>2, AppendFacts, Zenon
    <3> QED
      BY <3>1, <3>3, <3>4, <3>5, <3>6, Zenon
  <2>8. CASE e \notin S
    <3>1. K[n + 1] = f
      BY <1>2, <2>1, <2>3, <2>4, <2>8, Zenon
    <3>2. f \in Seq(Y) /\ Len(f) <= n /\ Range(f) = {s[k] : k \in 1..n} \cap S
      BY <2>2, <2>3, Zenon
    <3>3. Len(f) <= n + 1
      BY <3>2
    <3>4. Range(f) = {s[k] : k \in 1..(n + 1)} \cap S
      BY <2>6, <2>8, <3>2, Zenon
    <3> QED
      BY <2>2, <2>3, <3>1, <3>2, <3>3, <3>4, Zenon
  <2> QED
    BY <2>7, <2>8, Zenon
<1> HIDE DEF T, P
<1>5. Len(s) \in T
  BY <1>1, <1>3, <1>4, NatInd, Zenon
<1>6. Len(s) \in 0..Len(s)
  BY <1>1
<1>7. P(K[Len(s)], Len(s))
  BY <1>5, <1>6, Zenon DEF T
<1>8. {s[k] : k \in 1..Len(s)} = Range(s)
  BY <1>1, Zenon DEF Range
<1> QED
  BY <1>7, <1>8, Zenon DEF P, Filter, K

-----------------------------------------------------------------------------
(* What messages and states may hold *)

OnTips(p) == {b \in Block : \E t \in Tips[p] : b \in Chain[t]}
HeldBy(p, data) == {c \in OnTips(p) : Linked(c, data)}

StateOf(p, data) ==
  [connected : BOOLEAN, fDisconnect : BOOLEAN, fSyncStarted : BOOLEAN, stalling : BOOLEAN,
   best : OnTips(p) \cup {None}, unknown : OnTips(p) \cup {None}, common : HeldBy(p, data) \cup {None},
   inFlight : Seq(Block), vBlockRequested : SUBSET Block, goal : Block \cup {None}]

ReplyOf(p) == [type : {"inv"}, blocks : Seq(OnTips(p))] \cup [type : {"block"}, block : Block]
RequestMessage == [type : {"getblocks"}, tip : Block, stop : Block \cup {None}]
           \cup [type : {"getdata"}, blocks : Seq(Block)]
PeerOf(p) == [tip : Tips[p], known : SUBSET Block, hashContinue : Block \cup {None}]

\* What InFlightConsistent is about
Same(s, t) == s.connected = t.connected /\ s.stalling = t.stalling /\ s.inFlight = t.inFlight

\* The blocks a peer may have are closed under ancestors
LEMMA OnTipsFacts ==
  ASSUME NEW p \in Peer
  PROVE  /\ OnTips(p) \in SUBSET Block /\ Tips[p] \in SUBSET Block /\ Tips[p] \subseteq OnTips(p)
         /\ \A b \in OnTips(p) : Chain[b] \subseteq OnTips(p)
<1>1. Tips[p] \in SUBSET Block
  BY BlockDownloadAssumption, Zenon
<1>2. Tips[p] \subseteq OnTips(p)
  BY <1>1, ChainBlocks, Zenon DEF OnTips
<1>3. ASSUME NEW b \in OnTips(p), NEW x \in Chain[b] PROVE x \in OnTips(p)
  <2>1. PICK t \in Tips[p] : b \in Chain[t]
    BY Zenon DEF OnTips
  <2>2. x \in Chain[t] /\ Chain[t] \in SUBSET Block
    BY <1>1, <2>1, ChainBelow, ChainBlocks, Zenon
  <2> QED
    BY <2>2, Zenon DEF OnTips
<1> QED
  BY <1>1, <1>2, <1>3, Zenon DEF OnTips

\* Each field of a state may be set to a value of its type; Same is about the others
LEMMA SetBest ==
  ASSUME NEW p, NEW data, NEW s \in StateOf(p, data), NEW b \in OnTips(p) \cup {None}
  PROVE  [s EXCEPT !.best = b] \in StateOf(p, data) /\ Same(s, [s EXCEPT !.best = b])
         /\ [s EXCEPT !.best = b].common = s.common
BY DEF StateOf, Same

\* The same for hashLastUnknownBlock
LEMMA SetUnknown ==
  ASSUME NEW p, NEW data, NEW s \in StateOf(p, data), NEW b \in OnTips(p) \cup {None}
  PROVE  [s EXCEPT !.unknown = b] \in StateOf(p, data) /\ Same(s, [s EXCEPT !.unknown = b])
         /\ [s EXCEPT !.unknown = b].best = s.best
BY DEF StateOf, Same

\* The same for both of them
LEMMA SetBoth ==
  ASSUME NEW p, NEW data, NEW s \in StateOf(p, data), NEW b \in OnTips(p) \cup {None}
  PROVE  /\ [s EXCEPT !.unknown = None, !.best = b] \in StateOf(p, data)
         /\ Same(s, [s EXCEPT !.unknown = None, !.best = b])
BY DEF StateOf, Same

\* The same for pindexLastCommonBlock
LEMMA SetCommon ==
  ASSUME NEW p, NEW data, NEW s \in StateOf(p, data), NEW c \in HeldBy(p, data) \cup {None}
  PROVE  [s EXCEPT !.common = c] \in StateOf(p, data) /\ Same(s, [s EXCEPT !.common = c])
BY DEF StateOf, Same

\* The same for fSyncStarted and fDisconnect
LEMMA SetFlags ==
  ASSUME NEW p, NEW data, NEW s \in StateOf(p, data), NEW a \in BOOLEAN, NEW b \in BOOLEAN
  PROVE  /\ [s EXCEPT !.fSyncStarted = a, !.fDisconnect = b] \in StateOf(p, data)
         /\ Same(s, [s EXCEPT !.fSyncStarted = a, !.fDisconnect = b])
BY DEF StateOf, Same

\* The same for vBlockRequested
LEMMA SetRequested ==
  ASSUME NEW p, NEW data, NEW s \in StateOf(p, data), NEW r \in SUBSET Block
  PROVE  /\ [s EXCEPT !.vBlockRequested = r] \in StateOf(p, data)
         /\ Same(s, [s EXCEPT !.vBlockRequested = r])
BY DEF StateOf, Same

\* The types of the fields
LEMMA StateFields ==
  ASSUME NEW p, NEW data, NEW s \in StateOf(p, data)
  PROVE  /\ s.connected \in BOOLEAN /\ s.fDisconnect \in BOOLEAN /\ s.fSyncStarted \in BOOLEAN
         /\ s.stalling \in BOOLEAN /\ s.best \in OnTips(p) \cup {None} /\ s.unknown \in OnTips(p) \cup {None}
         /\ s.common \in HeldBy(p, data) \cup {None} /\ s.inFlight \in Seq(Block)
         /\ s.vBlockRequested \in SUBSET Block
BY Zenon DEF StateOf

\* Blocks that are here stay here
LEMMA MoreData ==
  ASSUME NEW p, NEW data, NEW more, data \subseteq more, NEW s \in StateOf(p, data)
  PROVE  s \in StateOf(p, more)
<1>1. HeldBy(p, data) \subseteq HeldBy(p, more)
  BY Zenon DEF HeldBy, Linked
<1> QED
  BY <1>1 DEF StateOf

\* The states of a peer that connects and of one that is gone
LEMMA NewStateType ==
  ASSUME NEW p, NEW data, NEW g \in Block \cup {None}
  PROVE  /\ NoState \in StateOf(p, data) /\ [NewState EXCEPT !.goal = g] \in StateOf(p, data)
         /\ NoState.inFlight = <<>> /\ ~NoState.stalling /\ ~NoState.connected
         /\ [NewState EXCEPT !.goal = g].inFlight = <<>> /\ ~[NewState EXCEPT !.goal = g].stalling
         /\ [NewState EXCEPT !.goal = g].connected
<1>1. PICK s : s = NewState
  BY Zenon
<1>2. s = [connected |-> TRUE, fDisconnect |-> FALSE, fSyncStarted |-> FALSE,
           stalling |-> FALSE, best |-> None, unknown |-> None, common |-> None,
           inFlight |-> <<>>, vBlockRequested |-> {}, goal |-> None]
  BY <1>1, Zenon DEF NewState
<1>3. s \in StateOf(p, data)
  BY <1>2 DEF StateOf
<1>4. s.inFlight = <<>> /\ ~s.stalling /\ s.connected
  BY <1>2
<1>5. /\ [s EXCEPT !.connected = FALSE] \in StateOf(p, data) /\ ~[s EXCEPT !.connected = FALSE].connected
      /\ [s EXCEPT !.connected = FALSE].inFlight = s.inFlight
      /\ [s EXCEPT !.connected = FALSE].stalling = s.stalling
  BY <1>3 DEF StateOf
<1>6. [s EXCEPT !.goal = g] \in StateOf(p, data) /\ Same(s, [s EXCEPT !.goal = g])
  BY <1>3 DEF StateOf, Same
<1> QED
  BY <1>1, <1>4, <1>5, <1>6, Zenon DEF NoState, Same

-----------------------------------------------------------------------------
(* "inv" *)

\* Same is transitive
LEMMA SameTrans == ASSUME NEW a, NEW b, NEW c, Same(a, b), Same(b, c) PROVE Same(a, c)
BY Zenon DEF Same

\* Same is reflexive
LEMMA SameRefl == ASSUME NEW a PROVE Same(a, a)
BY Zenon DEF Same

\* ProcessBlockAvailability keeps best and unknown on chains of the peer
LEMMA AvailableOK ==
  ASSUME NEW p \in Peer, NEW data, NEW s \in StateOf(p, data), mapBlockIndex \in SUBSET Block
  PROVE  Available(s) \in StateOf(p, data) /\ Same(s, Available(s))
<1>1. CASE s.unknown \notin mapBlockIndex
  BY <1>1, SameRefl, Zenon DEF Available
<1>2. CASE s.unknown \in mapBlockIndex
  <2>1. PICK b : b = IF s.best = None \/ Height[s.unknown] >= Height[s.best] THEN s.unknown ELSE s.best
    BY Zenon
  <2>2. b \in OnTips(p) \cup {None}
    BY <2>1, StateFields, Zenon
  <2>3. Available(s) = [s EXCEPT !.unknown = None, !.best = b]
    BY <1>2, <2>1, Zenon DEF Available
  <2>4. /\ [s EXCEPT !.unknown = None, !.best = b] \in StateOf(p, data)
        /\ Same(s, [s EXCEPT !.unknown = None, !.best = b])
    BY <2>2, SetBoth, Zenon
  <2> QED
    BY <2>3, <2>4, Zenon
<1> QED
  BY <1>1, <1>2, Zenon

\* So does UpdateBlockAvailability for a block on a chain of the peer
LEMMA UpdateOK ==
  ASSUME NEW p \in Peer, NEW data, NEW st \in StateOf(p, data), NEW b \in OnTips(p),
         mapBlockIndex \in SUBSET Block
  PROVE  UpdateBlockAvailability(st, b) \in StateOf(p, data) /\ Same(st, UpdateBlockAvailability(st, b))
<1>1. PICK s : s = Available(st)
  BY Zenon
<1>2. s \in StateOf(p, data) /\ Same(st, s)
  BY <1>1, AvailableOK, Zenon
<1>3. CASE b \in mapBlockIndex
  <2>1. PICK x : x = IF s.best = None \/ Height[b] >= Height[s.best] THEN b ELSE s.best
    BY Zenon
  <2>2. x \in OnTips(p) \cup {None}
    BY <1>2, <2>1, StateFields, Zenon
  <2>3. UpdateBlockAvailability(st, b) = [s EXCEPT !.best = x]
    BY <1>1, <1>3, <2>1, Zenon DEF UpdateBlockAvailability
  <2>4. [s EXCEPT !.best = x] \in StateOf(p, data) /\ Same(s, [s EXCEPT !.best = x])
    BY <1>2, <2>2, SetBest, Zenon
  <2>5. UpdateBlockAvailability(st, b) \in StateOf(p, data) /\ Same(s, UpdateBlockAvailability(st, b))
    BY <2>3, <2>4, Zenon
  <2> QED
    BY <1>2, <2>5, SameTrans, Zenon
<1>4. CASE b \notin mapBlockIndex
  <2>1. UpdateBlockAvailability(st, b) = [s EXCEPT !.unknown = b]
    BY <1>1, <1>4, Zenon DEF UpdateBlockAvailability
  <2>2. [s EXCEPT !.unknown = b] \in StateOf(p, data) /\ Same(s, [s EXCEPT !.unknown = b])
    BY <1>2, SetUnknown, Zenon
  <2>3. UpdateBlockAvailability(st, b) \in StateOf(p, data) /\ Same(s, UpdateBlockAvailability(st, b))
    BY <2>1, <2>2, Zenon
  <2> QED
    BY <1>2, <2>3, SameTrans, Zenon
<1> QED
  BY <1>3, <1>4, Zenon

\* So does the loop over the blocks of an "inv"
LEMMA AfterInvOK ==
  ASSUME NEW p \in Peer, NEW data, NEW st \in StateOf(p, data), NEW blocks \in Seq(OnTips(p)),
         mapBlockIndex \in SUBSET Block
  PROVE  /\ AfterInv(st, blocks)[Len(blocks)] \in StateOf(p, data)
         /\ Same(st, AfterInv(st, blocks)[Len(blocks)])
<1> DEFINE Step(a, j) == UpdateBlockAvailability(a, blocks[j])
           X == {s \in StateOf(p, data) : Same(st, s)}
           N == Len(blocks)
           G == [j \in 1..N |-> [a \in X |-> Step(a, j)]]
           A == AfterInv(st, blocks)
<1>0. (\E f : f = [j \in 0..N |-> IF j = 0 THEN st ELSE Step(f[j - 1], j)])
        => A = [j \in 0..N |-> IF j = 0 THEN st ELSE Step(A[j - 1], j)]
  BY Zenon DEF AfterInv
<1>1. N \in Nat /\ \A j \in 1..N : blocks[j] \in OnTips(p)
  BY SeqFacts, Zenon
<1>2. st \in X
  BY SameRefl, Zenon
<1>3. ASSUME NEW j \in 1..N, NEW a \in X PROVE Step(a, j) \in X
  <2>1. a \in StateOf(p, data) /\ Same(st, a) /\ blocks[j] \in OnTips(p)
    BY <1>1, Zenon
  <2>2. Step(a, j) \in StateOf(p, data) /\ Same(a, Step(a, j))
    BY <2>1, UpdateOK, Zenon
  <2> QED
    BY <2>1, <2>2, SameTrans, Zenon
<1> HIDE DEF Step, X, N, A
<1>4. G \in [1..N -> [X -> X]]
  BY <1>3, Zenon
<1>5. PICK f \in [0..N -> X] : Follows(f, st, N, G)
  BY <1>1, <1>2, <1>4, Recursion, Zenon
<1>6. \A j \in 0..N : j = 0 \/ (j \in 1..N /\ j - 1 \in 0..N /\ j # 0)
  BY <1>1
<1>7. \A j \in 0..N : f[j] = IF j = 0 THEN st ELSE Step(f[j - 1], j)
  BY <1>5, <1>6, Zenon DEF Follows
<1>8. f = [j \in 0..N |-> IF j = 0 THEN st ELSE Step(f[j - 1], j)]
  BY <1>5, <1>7, Zenon
<1>9. A = [j \in 0..N |-> IF j = 0 THEN st ELSE Step(A[j - 1], j)]
  BY <1>0, <1>8, Zenon
<1>10. 0 \in 0..N /\ N \in 0..N /\ \A j \in 1..N : j \in 0..N /\ j # 0
  BY <1>1
<1>11. A[0] \in X
  BY <1>2, <1>9, <1>10, Zenon
<1>12. ASSUME NEW j \in 1..N, A[j - 1] \in X PROVE A[j] \in X
  BY <1>3, <1>9, <1>10, <1>12, Zenon
<1>13. A[N] \in X
  BY <1>1, <1>10, <1>11, <1>12, Along, Zenon
<1> QED
  BY <1>13, Zenon DEF X, A, N

-----------------------------------------------------------------------------
(* FindNextBlocksToDownload *)

Owner == {mapBlocksInFlight[b] : b \in DOMAIN mapBlocksInFlight}

Walk(p) ==
  [common : HeldBy(p, haveData), blocks : Seq(Block), waiting : Owner \cup {None},
   staller : Owner \cup {None}, done : BOOLEAN]

\* The blocks to ask for: no block twice, none in flight, and not too many
Few(w, count) == IsInjective(w.blocks) /\ Len(w.blocks) <= count /\ (w.done \/ Len(w.blocks) < count)

\* The types of the fields of a walk
LEMMA WalkFields ==
  ASSUME NEW p, NEW w \in Walk(p)
  PROVE  /\ w.common \in HeldBy(p, haveData) /\ w.blocks \in Seq(Block)
         /\ w.waiting \in Owner \cup {None} /\ w.staller \in Owner \cup {None} /\ w.done \in BOOLEAN
BY Zenon DEF Walk

\* The walk with another last common block
LEMMA WalkCommon ==
  ASSUME NEW p, NEW w \in Walk(p), NEW c \in HeldBy(p, haveData)
  PROVE  /\ [w EXCEPT !.common = c] \in Walk(p)
         /\ [w EXCEPT !.common = c].blocks = w.blocks /\ [w EXCEPT !.common = c].done = w.done
BY DEF Walk

\* The walk with a peer that is waited for
LEMMA WalkWaiting ==
  ASSUME NEW p, NEW w \in Walk(p), NEW q \in Owner \cup {None}
  PROVE  /\ [w EXCEPT !.waiting = q] \in Walk(p)
         /\ [w EXCEPT !.waiting = q].blocks = w.blocks /\ [w EXCEPT !.waiting = q].done = w.done
BY DEF Walk

\* The walk that ends with a staller
LEMMA WalkStaller ==
  ASSUME NEW p, NEW w \in Walk(p), NEW q \in Owner \cup {None}
  PROVE  /\ [w EXCEPT !.done = TRUE, !.staller = q] \in Walk(p)
         /\ [w EXCEPT !.done = TRUE, !.staller = q].blocks = w.blocks
         /\ [w EXCEPT !.done = TRUE, !.staller = q].done
BY DEF Walk

\* What a step from w at block b to v does
Stepped(w, b, v, p, count) ==
  /\ v \in Walk(p)
  /\ b \notin Range(w.blocks) /\ Few(w, count) => Few(v, count)
  /\ \A x \in Range(v.blocks) : x \in Range(w.blocks) \/ (x = b /\ b \notin DOMAIN mapBlocksInFlight)

\* One block on the way keeps the blocks to ask for few, distinct and not in flight
LEMMA StepOK ==
  ASSUME NEW p \in Peer, NEW count \in Nat, NEW end, NEW w \in Walk(p), NEW b \in OnTips(p),
         NEW v, v = FindStep(p, count, end, w, b)
  PROVE  Stepped(w, b, v, p, count)
<1> USE DEF Stepped
<1>0. w.blocks \in Seq(Block) /\ b \in Block
  BY WalkFields, OnTipsFacts, Zenon
<1>a. ASSUME v \in Walk(p), v.blocks = w.blocks, v.done = w.done \/ v.done
      PROVE  (Few(w, count) => Few(v, count)) /\ \A x \in Range(v.blocks) : x \in Range(w.blocks)
  BY <1>a, Zenon DEF Few
<1>1. CASE w.done
  <2>1. v = w
    BY <1>1, Zenon DEF FindStep
  <2> QED
    BY <2>1, <1>a, Zenon
<1>2. CASE ~w.done /\ b \in haveData
  <2>1. PICK c : c = IF Linked(b, haveData) THEN b ELSE w.common
    BY Zenon
  <2>2. c \in HeldBy(p, haveData)
    BY <2>1, WalkFields, Zenon DEF HeldBy
  <2>3. v = [w EXCEPT !.common = c]
    BY <1>2, <2>1, Zenon DEF FindStep
  <2>4. v \in Walk(p) /\ v.blocks = w.blocks /\ v.done = w.done
    BY <2>2, <2>3, WalkCommon
  <2> QED
    BY <2>4, <1>a, Zenon
<1>3. CASE ~w.done /\ b \notin haveData /\ b \in DOMAIN mapBlocksInFlight
  <2>1. PICK q : q = IF w.waiting = None THEN mapBlocksInFlight[b] ELSE w.waiting
    BY Zenon
  <2>2. q \in Owner \cup {None}
    BY <1>3, <2>1, WalkFields, Zenon DEF Owner
  <2>3. v = [w EXCEPT !.waiting = q]
    BY <1>3, <2>1, Zenon DEF FindStep
  <2>4. v \in Walk(p) /\ v.blocks = w.blocks /\ v.done = w.done
    BY <2>2, <2>3, WalkWaiting
  <2> QED
    BY <2>4, <1>a, Zenon
<1>4. CASE /\ ~w.done /\ b \notin haveData /\ b \notin DOMAIN mapBlocksInFlight
           /\ Height[b] > end
  <2>1. PICK q : q = IF w.blocks = <<>> /\ w.waiting # p THEN w.waiting ELSE w.staller
    BY Zenon
  <2>2. q \in Owner \cup {None}
    BY <2>1, WalkFields, Zenon
  <2>3. v = [w EXCEPT !.done = TRUE, !.staller = q]
    BY <1>4, <2>1, Zenon DEF FindStep
  <2>4. v \in Walk(p) /\ v.blocks = w.blocks /\ v.done
    <3>1. /\ [w EXCEPT !.done = TRUE, !.staller = q] \in Walk(p)
          /\ [w EXCEPT !.done = TRUE, !.staller = q].blocks = w.blocks
          /\ [w EXCEPT !.done = TRUE, !.staller = q].done
      BY <2>2, WalkStaller, Zenon
    <3> QED
      BY <2>3, <3>1, Zenon
  <2> QED
    BY <2>4, <1>a, Zenon
<1>5. CASE /\ ~w.done /\ b \notin haveData /\ b \notin DOMAIN mapBlocksInFlight
           /\ ~(Height[b] > end)
  <2>1. PICK s : s = Append(w.blocks, b)
    BY Zenon
  <2>2. /\ s \in Seq(Block) /\ Len(s) = Len(w.blocks) + 1 /\ Range(s) = Range(w.blocks) \cup {b}
        /\ IsInjective(w.blocks) /\ b \notin Range(w.blocks) => IsInjective(s)
    <3>1. PICK t \in Seq(Block) : t = w.blocks
      BY <1>0, Zenon
    <3>2. /\ Append(t, b) \in Seq(Block) /\ Len(Append(t, b)) = Len(t) + 1
          /\ Range(Append(t, b)) = Range(t) \cup {b}
          /\ IsInjective(t) /\ b \notin Range(t) => IsInjective(Append(t, b))
      BY ONLY t \in Seq(Block), <1>0, AppendFacts, Zenon
    <3> QED
      BY <2>1, <3>1, <3>2, Zenon
  <2>3. PICK d \in BOOLEAN : d = (Len(w.blocks) + 1 = count)
    BY Zenon
  <2>4. v = [w EXCEPT !.blocks = s, !.done = d]
    BY <1>5, <2>1, <2>3, Zenon DEF FindStep
  <2>5. v \in Walk(p) /\ v.blocks = s /\ v.done = d
    <3>1. /\ [w EXCEPT !.blocks = s, !.done = d] \in Walk(p)
          /\ [w EXCEPT !.blocks = s, !.done = d].blocks = s
          /\ [w EXCEPT !.blocks = s, !.done = d].done = d
      <4>1. s \in Seq(Block)
        BY <2>2, Zenon
      <4> QED
        BY ONLY w \in Walk(p), <4>1, d \in BOOLEAN DEF Walk
    <3> QED
      BY <2>4, <3>1, Zenon
  <2>6. ASSUME Few(w, count) PROVE Len(s) <= count /\ (d \/ Len(s) < count)
    <3>1. Len(w.blocks) \in Nat /\ Len(w.blocks) < count
      BY <1>0, <1>5, <2>6, SeqFacts, Zenon DEF Few
    <3>2. PICK n \in Nat : n = Len(w.blocks)
      BY <3>1, Zenon
    <3>3. n + 1 <= count /\ (n + 1 = count \/ n + 1 < count)
      BY <3>1, <3>2
    <3> QED
      BY <2>2, <2>3, <3>2, <3>3, Zenon
  <2> QED
    BY <1>5, <2>2, <2>5, <2>6, Zenon DEF Few
<1> QED
  BY <1>1, <1>2, <1>3, <1>4, <1>5, Zenon

\* So does the whole way, because no block comes twice on it
LEMMA AfterStepsOK ==
  ASSUME NEW p \in Peer, NEW count \in Nat, NEW end, NEW w \in Walk(p), w.blocks = <<>>, Few(w, count),
         NEW path \in Seq(OnTips(p)), IsInjective(path), NEW v, v = AfterSteps(p, count, end, w, path)[Len(path)]
  PROVE  /\ v \in Walk(p) /\ Few(v, count) /\ Range(v.blocks) \cap DOMAIN mapBlocksInFlight = {}
<1> DEFINE Step(a, j) == FindStep(p, count, end, a, path[j])
           X == Walk(p)
           N == Len(path)
           G == [j \in 1..N |-> [a \in X |-> Step(a, j)]]
           A == AfterSteps(p, count, end, w, path)
           P(a, j) == /\ a \in Walk(p) /\ Few(a, count)
                      /\ \A x \in Range(a.blocks) : x \notin DOMAIN mapBlocksInFlight /\ \E k \in 1..j : x = path[k]
           T == {j \in Nat : j \in 0..N => P(A[j], j)}
<1>0. (\E f : f = [j \in 0..N |-> IF j = 0 THEN w ELSE Step(f[j - 1], j)])
        => A = [j \in 0..N |-> IF j = 0 THEN w ELSE Step(A[j - 1], j)]
  BY Zenon DEF AfterSteps
<1>1. N \in Nat /\ DOMAIN path = 1..N /\ \A j \in 1..N : path[j] \in OnTips(p)
  BY SeqFacts, Zenon
<1>3. ASSUME NEW j \in 1..N, NEW a \in X
      PROVE  /\ Step(a, j) \in X
             /\ path[j] \notin Range(a.blocks) /\ Few(a, count) => Few(Step(a, j), count)
             /\ \A x \in Range(Step(a, j).blocks) :
                  x \in Range(a.blocks) \/ (x = path[j] /\ path[j] \notin DOMAIN mapBlocksInFlight)
  <2>1. PICK u : u = Step(a, j)
    BY Zenon
  <2>2. path[j] \in OnTips(p)
    BY <1>1, Zenon
  <2>3. /\ u \in Walk(p)
        /\ path[j] \notin Range(a.blocks) /\ Few(a, count) => Few(u, count)
        /\ \A x \in Range(u.blocks) :
             x \in Range(a.blocks) \/ (x = path[j] /\ path[j] \notin DOMAIN mapBlocksInFlight)
    <3>1. PICK b \in OnTips(p) : b = path[j]
      BY <2>2, Zenon
    <3>2. a \in Walk(p) /\ u = FindStep(p, count, end, a, b)
      BY <2>1, <3>1, Zenon
    <3>3. Stepped(a, b, u, p, count)
      BY ONLY p \in Peer, count \in Nat, b \in OnTips(p), <3>2, StepOK, Zenon
    <3> QED
      BY <3>1, <3>3, Zenon DEF Stepped
  <2> HIDE DEF Step
  <2> QED
    BY <2>1, <2>3, Zenon
<1> HIDE DEF Step, X, N, A
<1>4. G \in [1..N -> [X -> X]]
  BY <1>3, Zenon
<1>5. PICK f \in [0..N -> X] : Follows(f, w, N, G)
  <2>1. w \in X
    BY Zenon DEF X
  <2> QED
    BY <1>1, <2>1, <1>4, Recursion, Zenon
<1>6. \A j \in 0..N : j = 0 \/ (j \in 1..N /\ j - 1 \in 0..N /\ j # 0)
  BY <1>1
<1>7. \A j \in 0..N : f[j] = IF j = 0 THEN w ELSE Step(f[j - 1], j)
  BY <1>5, <1>6, Zenon DEF Follows
<1>8. f = [j \in 0..N |-> IF j = 0 THEN w ELSE Step(f[j - 1], j)]
  BY <1>5, <1>7, Zenon
<1>9. A = [j \in 0..N |-> IF j = 0 THEN w ELSE Step(A[j - 1], j)]
  BY <1>0, <1>8, Zenon
<1>10. 0 \in 0..N /\ N \in 0..N
  BY <1>1
<1>11. 0 \in T
  <2>1. A[0] = w
    BY <1>9, <1>10, Zenon
  <2>2. DOMAIN <<>> = {}
    OBVIOUS
  <2>3. \A x \in Range(w.blocks) : FALSE
    BY <2>2, Zenon DEF Range
  <2>4. P(A[0], 0)
    BY <2>1, <2>3, Zenon
  <2> HIDE DEF P
  <2> QED
    BY <2>4
<1>12. ASSUME NEW n \in Nat, n \in T PROVE n + 1 \in T
  <2> SUFFICES ASSUME n + 1 \in 0..N PROVE P(A[n + 1], n + 1)
    OBVIOUS
  <2>1. n \in 0..N /\ n + 1 \in 1..N /\ n + 1 # 0 /\ (n + 1) - 1 = n
        /\ \A k \in 1..n : k \in 1..(n + 1) /\ k \in 1..N /\ k # n + 1
        /\ n + 1 \in 1..(n + 1)
    BY <1>1
  <2>2. P(A[n], n)
    BY <1>12, <2>1, Zenon
  <2>3. A[n + 1] = Step(A[n], n + 1)
    BY <1>9, <2>1, Zenon
  <2>4. A[n] \in X
    BY <2>2, Zenon DEF X
  <2>5. path[n + 1] \notin Range(A[n].blocks)
    <3>1. \A k \in 1..n : path[k] # path[n + 1]
      BY <1>1, <2>1, Zenon DEF IsInjective
    <3> QED
      BY <2>2, <3>1, Zenon
  <2>6. /\ Step(A[n], n + 1) \in X /\ Few(Step(A[n], n + 1), count)
        /\ \A x \in Range(Step(A[n], n + 1).blocks) :
             x \in Range(A[n].blocks) \/ (x = path[n + 1] /\ path[n + 1] \notin DOMAIN mapBlocksInFlight)
    BY <1>3, <2>1, <2>2, <2>4, <2>5, Zenon
  <2>7. A[n + 1] \in Walk(p) /\ Few(A[n + 1], count)
    BY <2>3, <2>6, Zenon DEF X
  <2>8. ASSUME NEW x \in Range(A[n + 1].blocks)
        PROVE  x \notin DOMAIN mapBlocksInFlight /\ \E k \in 1..(n + 1) : x = path[k]
    <3>1. x \in Range(A[n].blocks) \/ (x = path[n + 1] /\ path[n + 1] \notin DOMAIN mapBlocksInFlight)
      BY <2>3, <2>6, <2>8, Zenon
    <3>2. CASE x \in Range(A[n].blocks)
      <4>1. x \notin DOMAIN mapBlocksInFlight /\ \E k \in 1..n : x = path[k]
        BY <2>2, <3>2, Zenon
      <4> QED
        BY <2>1, <4>1, Zenon
    <3>3. CASE x = path[n + 1] /\ path[n + 1] \notin DOMAIN mapBlocksInFlight
      <4>1. PICK m \in 1..(n + 1) : m = n + 1
        OBVIOUS
      <4>2. x = path[m] /\ x \notin DOMAIN mapBlocksInFlight
        BY <3>3, <4>1, Zenon
      <4> QED
        BY <4>2, Zenon
    <3> QED
      BY <3>1, <3>2, <3>3, Zenon
  <2> QED
    BY <2>7, <2>8, Zenon
<1> HIDE DEF T, P
<1>13. N \in T
  BY <1>1, <1>11, <1>12, NatInd, Zenon
<1>14. P(A[N], N)
  BY <1>1, <1>10, <1>13, Zenon DEF T
<1>15. v = A[N]
  BY Zenon DEF A, N
<1> QED
  BY <1>14, <1>15, Zenon DEF P

\* What FindNextBlocksToDownload returns
Found(p, st, count, r) ==
  /\ r.state \in StateOf(p, haveData) /\ Same(st, r.state)
  /\ r.blocks \in Seq(Block) /\ IsInjective(r.blocks) /\ Len(r.blocks) <= count
  /\ Range(r.blocks) \cap DOMAIN mapBlocksInFlight = {}
  /\ r.staller \in Owner \cup {None}

\* Nothing to ask for
LEMMA EmptyFound ==
  ASSUME NEW p, NEW st \in StateOf(p, haveData), NEW s \in StateOf(p, haveData), Same(st, s), NEW count \in Nat
  PROVE  Found(p, st, count, [state |-> s, blocks |-> <<>>, staller |-> None])
<1>1. <<>> \in Seq(Block) /\ Len(<<>>) <= count /\ DOMAIN <<>> = {}
  OBVIOUS
<1>2. IsInjective(<<>>) /\ Range(<<>>) = {}
  BY <1>1, Zenon DEF IsInjective, Range
<1>3. PICK r : r = [state |-> s, blocks |-> <<>>, staller |-> None]
  BY Zenon
<1>4. r.state = s /\ r.blocks = <<>> /\ r.staller = None
  BY <1>3
<1>5. Found(p, st, count, r)
  BY <1>1, <1>2, <1>4, Zenon DEF Found
<1> QED
  BY <1>3, <1>5, Zenon

\* The guess for the last common block, and what is made of it
LEMMA CommonOK ==
  ASSUME NEW p \in Peer, NEW s \in StateOf(p, haveData), s.best # None, tip \in Block, Linked(tip, haveData),
         NEW guess, guess = IF s.common # None THEN s.common
                            ELSE Ancestor(tip, IF Height[s.best] < Height[tip] THEN Height[s.best] ELSE Height[tip])
  PROVE  /\ s.best \in OnTips(p) /\ CommonWith(s, guess) \in Chain[s.best]
         /\ CommonWith(s, guess) \in HeldBy(p, haveData)
<1>1. s.best \in OnTips(p) /\ s.best \in Block
  BY StateFields, OnTipsFacts, Zenon
<1>2. guess \in Block /\ Linked(guess, haveData)
  <2>1. CASE s.common # None
    <3>1. s.common \in HeldBy(p, haveData)
      BY <2>1, StateFields, Zenon
    <3> QED
      BY <2>1, <3>1, OnTipsFacts, Zenon DEF HeldBy
  <2>2. CASE s.common = None
    <3>1. PICK h : h = IF Height[s.best] < Height[tip] THEN Height[s.best] ELSE Height[tip]
      BY Zenon
    <3>2. Height[s.best] \in Nat /\ Height[tip] \in Nat
      BY <1>1, BlockDownloadAssumption, Zenon
    <3>3. h \in 0..Height[tip]
      BY <3>1, <3>2
    <3>4. guess \in Chain[tip]
      BY <2>2, <3>1, <3>3, AncestorIn, Zenon
    <3>5. Chain[guess] \subseteq Chain[tip] /\ Chain[tip] \subseteq haveData /\ Chain[tip] \in SUBSET Block
      BY <3>4, ChainBelow, ChainBlocks, Zenon DEF Linked
    <3> QED
      BY <3>4, <3>5, Zenon DEF Linked
  <2> QED
    BY <2>1, <2>2, Zenon
<1>3. PICK c : c = CommonWith(s, guess)
  BY Zenon
<1>4. c \in Chain[guess] /\ c \in Chain[s.best]
  BY <1>1, <1>2, <1>3, CommonIn, Zenon DEF CommonWith
<1>5. Chain[c] \subseteq Chain[guess]
  BY <1>2, <1>4, ChainBelow, Zenon
<1>6. Linked(c, haveData)
  BY <1>2, <1>5, Zenon DEF Linked
<1>7. c \in OnTips(p)
  BY <1>1, <1>4, OnTipsFacts, Zenon
<1> QED
  BY <1>1, <1>3, <1>4, <1>6, <1>7, Zenon DEF HeldBy

\* The way from the last common block to the peer's best block, as far as the window allows
LEMMA WayOK ==
  ASSUME NEW p \in Peer, NEW best \in OnTips(p), NEW c \in Chain[best], NEW end, end = Height[c] + BLOCK_DOWNLOAD_WINDOW,
         NEW max, max = IF Height[best] < end + 1 THEN Height[best] ELSE end + 1,
         NEW path, path = Path(Ancestor(best, max), Height[c])
  PROVE  path \in Seq(OnTips(p)) /\ IsInjective(path)
<1>1. best \in Block /\ c \in Block /\ Chain[best] \subseteq OnTips(p) /\ Height[c] <= Height[best]
  BY OnTipsFacts, ChainBlocks, ChainBelow, Zenon
<1>2. Height[best] \in Nat /\ Height[c] \in Nat /\ BLOCK_DOWNLOAD_WINDOW \in Nat
  BY <1>1, BlockDownloadAssumption, Zenon
<1>3. max \in 0..Height[best] /\ Height[c] \in 0..max
  BY <1>1, <1>2
<1>4. PICK a : a = Ancestor(best, max)
  BY Zenon
<1>5. a \in Chain[best] /\ Height[a] = max
  BY <1>1, <1>3, <1>4, AncestorIn, Zenon
<1>6. a \in Block /\ Chain[a] \subseteq Chain[best]
  BY <1>1, <1>5, ChainBlocks, ChainBelow, Zenon
<1>7. PICK h : h = Height[c]
  BY Zenon
<1>8. h \in 0..Height[a]
  BY <1>3, <1>5, <1>7, Zenon
<1>9. Path(a, h) \in Seq(Chain[a]) /\ IsInjective(Path(a, h))
  BY <1>6, <1>8, PathIn, Zenon
<1>10. Chain[a] \subseteq OnTips(p)
  BY <1>1, <1>6, Zenon
<1>11. ASSUME NEW S, NEW R, S \subseteq R, NEW s \in Seq(S) PROVE s \in Seq(R)
  BY <1>11
<1>12. Path(a, h) \in Seq(OnTips(p))
  BY <1>9, <1>10, <1>11, Zenon
<1> QED
  BY <1>4, <1>7, <1>9, <1>12, Zenon

\* FindNextBlocksToDownload, with or without a better block of the peer
LEMMA FindOK ==
  ASSUME NEW p \in Peer, NEW count \in Nat \ {0}, NEW st \in StateOf(p, haveData),
         mapBlockIndex \in SUBSET Block, tip \in Block, Linked(tip, haveData)
  PROVE  Found(p, st, count, FindNextBlocksToDownload(p, st, count))
<1> DEFINE r == FindNextBlocksToDownload(p, st, count)
           s == Available(st)
           none == [common |-> s.common, blocks |-> <<>>, waiting |-> None, staller |-> None, done |-> FALSE]
           Result(w) == [state |-> [s EXCEPT !.common = w.common], blocks |-> w.blocks, staller |-> w.staller]
           guess == IF s.common # None THEN s.common
                    ELSE Ancestor(tip, IF Height[s.best] < Height[tip] THEN Height[s.best] ELSE Height[tip])
           common == CommonWith(s, guess)
           end == Height[common] + BLOCK_DOWNLOAD_WINDOW
           max == IF Height[s.best] < end + 1 THEN Height[s.best] ELSE end + 1
           path == Path(Ancestor(s.best, max), Height[common])
           start == [none EXCEPT !.common = common]
           w == AfterSteps(p, count, end, start, path)[Len(path)]
<1>1. (s.best = None \/ Height[s.best] < Height[tip]) => r = Result(none)
  BY Zenon DEF FindNextBlocksToDownload
<1>2. ~(s.best = None \/ Height[s.best] < Height[tip]) => r = Result(w)
  BY Zenon DEF FindNextBlocksToDownload
<1>3. s \in StateOf(p, haveData) /\ Same(st, s)
  BY AvailableOK, Zenon
<1> HIDE DEF r, s
<1>4. ASSUME NEW x, x.common \in HeldBy(p, haveData) \cup {None}, x.blocks \in Seq(Block), IsInjective(x.blocks),
             Len(x.blocks) <= count, Range(x.blocks) \cap DOMAIN mapBlocksInFlight = {},
             x.staller \in Owner \cup {None}
      PROVE  Found(p, st, count, Result(x))
  <2>1. PICK c : c = x.common
    BY Zenon
  <2>2. PICK u : u = [s EXCEPT !.common = c]
    BY Zenon
  <2>3. [s EXCEPT !.common = c] \in StateOf(p, haveData) /\ Same(s, [s EXCEPT !.common = c])
    BY <1>3, <1>4, <2>1, SetCommon, Zenon
  <2>4. u \in StateOf(p, haveData) /\ Same(st, u)
    BY <1>3, <2>2, <2>3, SameTrans, Zenon
  <2>5. PICK y : y = [state |-> u, blocks |-> x.blocks, staller |-> x.staller]
    BY Zenon
  <2>6. y.state = u /\ y.blocks = x.blocks /\ y.staller = x.staller
    BY <2>5
  <2>7. Found(p, st, count, y)
    BY <1>4, <2>4, <2>6, Zenon DEF Found
  <2> QED
    BY <2>1, <2>2, <2>5, <2>7, Zenon
<1> HIDE DEF Result
<1>5. <<>> \in Seq(Block) /\ Len(<<>>) = 0 /\ 0 <= count /\ 0 < count /\ DOMAIN <<>> = {}
  OBVIOUS
<1>6. IsInjective(<<>>) /\ Range(<<>>) = {}
  BY <1>5, Zenon DEF IsInjective, Range
<1>7. CASE s.best = None \/ Height[s.best] < Height[tip]
  <2>1. none.common = s.common /\ none.blocks = <<>> /\ none.staller = None
    OBVIOUS
  <2>2. s.common \in HeldBy(p, haveData) \cup {None}
    BY <1>3, StateFields, Zenon
  <2> HIDE DEF none
  <2>3. Found(p, st, count, Result(none))
    BY <1>4, <1>5, <1>6, <2>1, <2>2, Zenon
  <2> QED
    BY <1>1, <1>7, <2>3, Zenon DEF r
<1>8. CASE ~(s.best = None \/ Height[s.best] < Height[tip])
  <2>1. PICK g : g = guess
    BY Zenon
  <2>2. PICK c : c = CommonWith(s, g)
    BY Zenon
  <2>3. s.best \in OnTips(p) /\ c \in Chain[s.best] /\ c \in HeldBy(p, haveData)
    BY <1>3, <1>8, <2>1, <2>2, CommonOK, Zenon
  <2>4. c = common
    BY <2>1, <2>2, Zenon
  <2> HIDE DEF common, guess
  <2>5. path \in Seq(OnTips(p)) /\ IsInjective(path)
    BY <2>3, <2>4, WayOK, Zenon
  <2>6. PICK n : n = none
    BY Zenon
  <2>7. start \in Walk(p) /\ start.blocks = <<>>
    <3>1. /\ n \in [common : {s.common}, blocks : Seq(Block), waiting : Owner \cup {None},
                    staller : Owner \cup {None}, done : BOOLEAN]
          /\ n.blocks = <<>>
      BY <2>6
    <3>2. [n EXCEPT !.common = c] \in Walk(p) /\ [n EXCEPT !.common = c].blocks = n.blocks
      BY <2>3, <3>1 DEF Walk
    <3> QED
      BY <2>4, <2>6, <3>1, <3>2, Zenon
  <2>8. Few(start, count)
    BY <1>5, <1>6, <2>7, Zenon DEF Few
  <2> HIDE DEF start, path, end
  <2>9. PICK v : v = w
    BY Zenon
  <2>10. v \in Walk(p) /\ Few(v, count) /\ Range(v.blocks) \cap DOMAIN mapBlocksInFlight = {}
    BY <2>5, <2>7, <2>8, <2>9, AfterStepsOK, Zenon
  <2> HIDE DEF w
  <2>11. Found(p, st, count, Result(v))
    <3>1. v.common \in HeldBy(p, haveData) \cup {None} /\ v.blocks \in Seq(Block) /\ v.staller \in Owner \cup {None}
      BY <2>10, WalkFields, Zenon
    <3>2. IsInjective(v.blocks) /\ Len(v.blocks) <= count
      BY <2>10, Zenon DEF Few
    <3> QED
      BY <1>4, <2>10, <3>1, <3>2, Zenon
  <2> QED
    BY <1>2, <1>8, <2>9, <2>11, Zenon DEF r
<1> QED
  BY <1>7, <1>8, Zenon

-----------------------------------------------------------------------------
(* The invariant *)

DataInv ==
  /\ haveData \in SUBSET Block /\ mapBlockIndex \in SUBSET Block /\ tip \in Block /\ Linked(tip, haveData)
  /\ \E n \in Nat : \A b \in haveData : Height[b] <= n

StateInv == DOMAIN nodeState = Peer /\ \A p \in Peer : nodeState[p] \in StateOf(p, haveData)
RequestInv == DOMAIN requests = Peer /\ \A p \in Peer : requests[p] \in Seq(RequestMessage)
ReplyInv == DOMAIN replies = Peer /\ \A p \in Peer : replies[p] \in Seq(ReplyOf(p))
PeerInv == DOMAIN peer = Peer /\ \A p \in Peer : peer[p] \in PeerOf(p)
FlightInv == DOMAIN mapBlocksInFlight \subseteq Block /\ InFlightConsistent

IInv == DataInv /\ StateInv /\ RequestInv /\ ReplyInv /\ PeerInv /\ FlightInv

\* The messages of a peer
LEMMA ReplyTypes ==
  ASSUME NEW p
  PROVE  /\ \A m \in ReplyOf(p) : m.type = "inv" => m.blocks \in Seq(OnTips(p))
         /\ \A m \in ReplyOf(p) : m.type = "block" => m.block \in Block
         /\ \A s \in Seq(OnTips(p)) : [type |-> "inv", blocks |-> s] \in ReplyOf(p)
         /\ \A b \in Block : [type |-> "block", block |-> b] \in ReplyOf(p)
BY DEF ReplyOf

\* The messages to a peer
LEMMA RequestTypes ==
  /\ \A m \in RequestMessage : m.type = "getblocks" => m.tip \in Block /\ m.stop \in Block \cup {None}
  /\ \A m \in RequestMessage : m.type = "getdata" => m.blocks \in Seq(Block)
  /\ \A t \in Block : \A s \in Block \cup {None} : [type |-> "getblocks", tip |-> t, stop |-> s] \in RequestMessage
  /\ \A s \in Seq(Block) : [type |-> "getdata", blocks |-> s] \in RequestMessage
BY DEF RequestMessage

\* The first message of a queue and the others
LEMMA HeadTail ==
  ASSUME NEW Y, NEW s \in Seq(Y), s # <<>>
  PROVE  Head(s) \in Y /\ Tail(s) \in Seq(Y)
OBVIOUS

\* Queues of one message and of none
LEMMA OneMessage == ASSUME NEW Y, NEW m \in Y PROVE <<m>> \in Seq(Y) /\ <<>> \in Seq(Y)
OBVIOUS

\* A message of peer p is taken
LEMMA ReplyTaken ==
  ASSUME ReplyInv, NEW p \in Peer, NEW type, HasReply(p, type)
  PROVE  /\ Head(replies[p]) \in ReplyOf(p) /\ Head(replies[p]).type = type
         /\ replies' = [replies EXCEPT ![p] = Tail(@)] => ReplyInv'
<1>1. replies[p] \in Seq(ReplyOf(p)) /\ replies[p] # <<>> /\ Head(replies[p]).type = type
  BY Zenon DEF ReplyInv, HasReply
<1>2. Head(replies[p]) \in ReplyOf(p) /\ Tail(replies[p]) \in Seq(ReplyOf(p))
  BY <1>1, HeadTail, Zenon
<1>3. ASSUME replies' = [replies EXCEPT ![p] = Tail(@)] PROVE ReplyInv'
  BY <1>2, <1>3, Zenon DEF ReplyInv
<1> QED
  BY <1>1, <1>2, <1>3, Zenon

\* Messages are sent to peer p
LEMMA Asked ==
  ASSUME RequestInv, NEW p \in Peer, NEW asked \in Seq(RequestMessage), Ask(p, asked)
  PROVE  RequestInv'
<1>1. requests[p] \o asked \in Seq(RequestMessage)
  <2>1. requests[p] \in Seq(RequestMessage)
    BY Zenon DEF RequestInv
  <2> QED
    BY <2>1, ConcatFacts, Zenon
<1>2. requests' = [requests EXCEPT ![p] = requests[p] \o asked]
  BY Zenon DEF Ask
<1> QED
  BY <1>1, <1>2, Zenon DEF RequestInv

\* Nothing that InFlightConsistent is about changes
LEMMA SameFlight ==
  ASSUME FlightInv, UNCHANGED mapBlocksInFlight, \A p \in Peer : Same(nodeState[p], nodeState'[p])
  PROVE  FlightInv'
BY Zenon DEF FlightInv, InFlightConsistent, Same, Connected

\* The state of peer p changes, but not what InFlightConsistent is about
LEMMA OneState ==
  ASSUME StateInv, FlightInv, UNCHANGED <<mapBlocksInFlight, haveData>>, NEW p \in Peer, NEW s \in StateOf(p, haveData),
         Same(nodeState[p], s), nodeState' = [nodeState EXCEPT ![p] = s]
  PROVE  StateInv' /\ FlightInv'
<1>1. DOMAIN nodeState' = Peer /\ nodeState'[p] = s /\ \A q \in Peer : q # p => nodeState'[q] = nodeState[q]
  BY Zenon DEF StateInv
<1>2. StateInv'
  BY <1>1, Zenon DEF StateInv
<1>3. \A q \in Peer : Same(nodeState[q], nodeState'[q])
  BY <1>1, SameRefl, Zenon
<1> QED
  BY <1>2, <1>3, SameFlight, Zenon

-----------------------------------------------------------------------------
(* The steps *)

\* No connection, no message, only the genesis block
LEMMA InitIInv == Init => IInv
<1> SUFFICES ASSUME Init PROVE IInv
  BY Zenon
<1>1. DataInv
  <2>1. haveData = {Genesis} /\ mapBlockIndex = {Genesis} /\ tip = Genesis
    BY Zenon DEF Init
  <2>2. 0 \in Nat /\ 0 <= 0
    OBVIOUS
  <2> QED
    BY <2>1, <2>2, ChainStep, Zenon DEF DataInv, Linked
<1>2. /\ DOMAIN nodeState = Peer /\ \A p \in Peer : nodeState[p] = NoState
      /\ DOMAIN requests = Peer /\ \A p \in Peer : requests[p] = <<>>
      /\ DOMAIN replies = Peer /\ \A p \in Peer : replies[p] = <<>>
      /\ mapBlocksInFlight = <<>>
  BY Zenon DEF Init
<1>3. <<>> \in Seq(RequestMessage) /\ DOMAIN <<>> = {} /\ \A p : <<>> \in Seq(ReplyOf(p))
  OBVIOUS
<1>4. RequestInv /\ ReplyInv
  BY <1>2, <1>3, Zenon DEF RequestInv, ReplyInv
<1>5. StateInv
  BY <1>2, NewStateType, Zenon DEF StateInv
<1>6. PeerInv
  <2>1. PICK t \in [Peer -> Block] :
          /\ \A p \in Peer : t[p] \in Tips[p]
          /\ peer = [p \in Peer |-> [tip |-> t[p], known |-> {}, hashContinue |-> None]]
    BY Zenon DEF Init
  <2>2. ASSUME NEW p \in Peer PROVE [tip |-> t[p], known |-> {}, hashContinue |-> None] \in PeerOf(p)
    BY <2>1 DEF PeerOf
  <2> QED
    BY <2>1, <2>2, Zenon DEF PeerInv
<1>7. FlightInv
  <2>1. PICK n : n = NoState
    BY Zenon
  <2>2. n.inFlight = <<>> /\ ~n.stalling
    BY <2>1, NewStateType, Zenon
  <2>3. Len(<<>>) <= MAX_BLOCKS_IN_TRANSIT_PER_PEER
    BY BlockDownloadAssumption
  <2>4. IsInjective(<<>>) /\ Range(<<>>) = {}
    BY <1>3, Zenon DEF IsInjective, Range
  <2>5. DOMAIN mapBlocksInFlight = {}
    BY <1>2, <1>3, Zenon
  <2>6. \A p \in Peer : nodeState[p].inFlight = <<>> /\ ~nodeState[p].stalling
    BY <1>2, <2>1, <2>2, Zenon
  <2> QED
    BY <2>3, <2>4, <2>5, <2>6, Zenon DEF FlightInv, InFlightConsistent
<1> QED
  BY <1>1, <1>4, <1>5, <1>6, <1>7, Zenon DEF IInv

\* A peer that is not connected has no block in flight
LEMMA ConnectInv ==
  ASSUME IInv, NEW p \in Peer, Connect(p)
  PROVE  IInv'
<1>1. /\ p \notin Connected /\ UNCHANGED <<mapBlockIndex, haveData, tip, mapBlocksInFlight, requests, replies, peer>>
      /\ nodeState' = [nodeState EXCEPT ![p] = [NewState EXCEPT !.goal = peer[p].tip]]
  BY Zenon DEF Connect, blockVars
<1>2. PICK s : s = [NewState EXCEPT !.goal = peer[p].tip]
  BY Zenon
<1>3. peer[p].tip \in Block \cup {None}
  <2>1. peer[p] \in PeerOf(p)
    BY Zenon DEF IInv, PeerInv
  <2>2. peer[p].tip \in Tips[p]
    BY <2>1, Zenon DEF PeerOf
  <2> QED
    BY <2>2, OnTipsFacts, Zenon
<1>4. s \in StateOf(p, haveData) /\ s.inFlight = <<>> /\ ~s.stalling /\ s.connected
  BY <1>2, <1>3, NewStateType, Zenon
<1>5. DOMAIN nodeState' = Peer /\ nodeState'[p] = s /\ \A q \in Peer : q # p => nodeState'[q] = nodeState[q]
  BY <1>1, <1>2, Zenon DEF IInv, StateInv
<1>6. StateInv'
  BY <1>1, <1>4, <1>5, Zenon DEF IInv, StateInv
<1>7. FlightInv'
  <2>1. {b \in DOMAIN mapBlocksInFlight : mapBlocksInFlight[b] = p} = {}
    BY <1>1, Zenon DEF IInv, FlightInv, InFlightConsistent
  <2>2. DOMAIN <<>> = {} /\ Len(<<>>) <= MAX_BLOCKS_IN_TRANSIT_PER_PEER
    BY BlockDownloadAssumption
  <2>3. IsInjective(<<>>) /\ Range(<<>>) = {}
    BY <2>2, Zenon DEF IsInjective, Range
  <2>4. /\ Range(nodeState'[p].inFlight) = {b \in DOMAIN mapBlocksInFlight : mapBlocksInFlight[b] = p}
        /\ IsInjective(nodeState'[p].inFlight)
        /\ Len(nodeState'[p].inFlight) <= MAX_BLOCKS_IN_TRANSIT_PER_PEER /\ ~nodeState'[p].stalling
    BY <1>4, <1>5, <2>1, <2>2, <2>3, Zenon
  <2>5. Connected \subseteq Connected'
    BY <1>4, <1>5, Zenon DEF Connected
  <2> QED
    BY <1>1, <1>5, <2>4, <2>5, Zenon DEF IInv, FlightInv, InFlightConsistent
<1> QED
  BY <1>1, <1>6, <1>7, Zenon DEF IInv, DataInv, RequestInv, ReplyInv, PeerInv, Linked

\* Blocks leave mapBlocksInFlight, and the lists of their peers
LEMMA FewerInFlight ==
  ASSUME FlightInv, NEW S, mapBlocksInFlight' = Without(mapBlocksInFlight, S)
  PROVE  /\ DOMAIN mapBlocksInFlight' = DOMAIN mapBlocksInFlight \ S
         /\ \A b \in DOMAIN mapBlocksInFlight' : mapBlocksInFlight'[b] = mapBlocksInFlight[b]
         /\ DOMAIN mapBlocksInFlight' \subseteq Block
BY Zenon DEF FlightInv, Without

\* FinalizeNode takes the blocks of the peer out of the map, and only these
LEMMA FinalizeInv ==
  ASSUME IInv, NEW p \in Peer, FinalizeNode(p)
  PROVE  IInv'
<1>1. /\ UNCHANGED <<mapBlockIndex, haveData, tip>>
      /\ mapBlocksInFlight' = Without(mapBlocksInFlight, Range(nodeState[p].inFlight))
      /\ nodeState' = [nodeState EXCEPT ![p] = NoState]
      /\ requests' = [requests EXCEPT ![p] = <<>>]
      /\ replies' = [replies EXCEPT ![p] = <<>>]
  BY Zenon DEF FinalizeNode, FinalizeInFlight, blockVars
<1>2. <<>> \in Seq(RequestMessage) /\ DOMAIN <<>> = {} /\ \A q : <<>> \in Seq(ReplyOf(q))
  OBVIOUS
<1>3. RequestInv' /\ ReplyInv'
  BY <1>1, <1>2, Zenon DEF IInv, RequestInv, ReplyInv
<1>4. PICK s : s = NoState
  BY Zenon
<1>5. s \in StateOf(p, haveData) /\ s.inFlight = <<>> /\ ~s.stalling
  BY <1>4, NewStateType, Zenon
<1>6. DOMAIN nodeState' = Peer /\ nodeState'[p] = s /\ \A q \in Peer : q # p => nodeState'[q] = nodeState[q]
  BY <1>1, <1>4, Zenon DEF IInv, StateInv
<1>7. StateInv'
  BY <1>1, <1>5, <1>6, Zenon DEF IInv, StateInv
<1>8. PeerInv'
  <2>1. peer' = [peer EXCEPT ![p].known = {}, ![p].hashContinue = None]
    BY Zenon DEF FinalizeNode
  <2>2. PICK e : e = [[peer[p] EXCEPT !.known = {}] EXCEPT !.hashContinue = None]
    BY Zenon
  <2>3. e \in PeerOf(p)
    <3>1. peer[p] \in PeerOf(p)
      BY Zenon DEF IInv, PeerInv
    <3> QED
      BY <2>2, <3>1 DEF PeerOf
  <2>4. DOMAIN peer' = Peer /\ peer'[p] = e /\ \A q \in Peer : q # p => peer'[q] = peer[q]
    BY <2>1, <2>2 DEF IInv, PeerInv
  <2> QED
    BY <2>3, <2>4, Zenon DEF IInv, PeerInv
<1>9. FlightInv'
  <2>1. /\ DOMAIN mapBlocksInFlight' = DOMAIN mapBlocksInFlight \ Range(nodeState[p].inFlight)
        /\ \A b \in DOMAIN mapBlocksInFlight' : mapBlocksInFlight'[b] = mapBlocksInFlight[b]
        /\ DOMAIN mapBlocksInFlight' \subseteq Block
    BY <1>1, FewerInFlight, Zenon DEF IInv
  <2>2. \A b \in DOMAIN mapBlocksInFlight : b \in DOMAIN mapBlocksInFlight' <=> mapBlocksInFlight[b] # p
    BY <2>1, Zenon DEF IInv, FlightInv, InFlightConsistent
  <2>3. DOMAIN mapBlocksInFlight' = {b \in DOMAIN mapBlocksInFlight : mapBlocksInFlight[b] # p}
    BY <2>1, <2>2, Zenon
  <2>4. Len(<<>>) <= MAX_BLOCKS_IN_TRANSIT_PER_PEER
    BY BlockDownloadAssumption
  <2>5. IsInjective(<<>>) /\ Range(<<>>) = {}
    BY <1>2, Zenon DEF IsInjective, Range
  <2>6. /\ Range(nodeState'[p].inFlight) = {b \in DOMAIN mapBlocksInFlight' : mapBlocksInFlight'[b] = p}
        /\ IsInjective(nodeState'[p].inFlight)
        /\ Len(nodeState'[p].inFlight) <= MAX_BLOCKS_IN_TRANSIT_PER_PEER /\ ~nodeState'[p].stalling
    BY <1>5, <1>6, <2>1, <2>3, <2>4, <2>5, Zenon
  <2>7. ASSUME NEW q \in Peer, q # p
        PROVE  /\ Range(nodeState'[q].inFlight) = {b \in DOMAIN mapBlocksInFlight' : mapBlocksInFlight'[b] = q}
               /\ IsInjective(nodeState'[q].inFlight)
               /\ Len(nodeState'[q].inFlight) <= MAX_BLOCKS_IN_TRANSIT_PER_PEER
               /\ nodeState'[q].stalling => nodeState'[q].inFlight # <<>>
    <3>1. {b \in DOMAIN mapBlocksInFlight' : mapBlocksInFlight'[b] = q}
            = {b \in DOMAIN mapBlocksInFlight : mapBlocksInFlight[b] = q}
      BY <2>1, <2>3, <2>7, Zenon
    <3>2. nodeState'[q] = nodeState[q]
      BY <1>6, <2>7, Zenon
    <3> QED
      BY <3>1, <3>2, Zenon DEF IInv, FlightInv, InFlightConsistent
  <2>8. \A b \in DOMAIN mapBlocksInFlight' : mapBlocksInFlight'[b] \in Connected'
    BY <1>6, <2>1, <2>3, Zenon DEF IInv, FlightInv, InFlightConsistent, Connected
  <2> QED
    BY <2>1, <2>6, <2>7, <2>8, Zenon DEF FlightInv, InFlightConsistent
<1> QED
  BY <1>1, <1>3, <1>7, <1>8, <1>9, Zenon DEF IInv, DataInv, Linked

\* "inv": only what the node knows about the peer changes
LEMMA InvInv ==
  ASSUME IInv, NEW p \in Peer, Inv(p)
  PROVE  IInv'
<1> DEFINE blocks == Head(replies[p]).blocks
           S == {b \in Block : ~AlreadyHave(b) /\ b \notin DOMAIN mapBlocksInFlight}
           vToFetch == Filter(blocks, S)
<1>1. /\ HasReply(p, "inv") /\ UNCHANGED <<mapBlockIndex, haveData, tip, mapBlocksInFlight, peer>>
      /\ nodeState' = [nodeState EXCEPT ![p] = AfterInv(nodeState[p], blocks)[Len(blocks)]]
      /\ Ask(p, IF vToFetch = <<>> THEN <<>> ELSE <<[type |-> "getdata", blocks |-> vToFetch]>>)
      /\ replies' = [replies EXCEPT ![p] = Tail(@)]
  BY Zenon DEF Inv, blockVars
<1>2. Head(replies[p]) \in ReplyOf(p) /\ Head(replies[p]).type = "inv" /\ ReplyInv'
  BY <1>1, ReplyTaken, Zenon DEF IInv
<1>3. blocks \in Seq(OnTips(p))
  BY <1>2, ReplyTypes, Zenon
<1> HIDE DEF blocks
<1>4. PICK s : s = AfterInv(nodeState[p], blocks)[Len(blocks)]
  BY Zenon
<1>5. s \in StateOf(p, haveData) /\ Same(nodeState[p], s)
  <2>1. nodeState[p] \in StateOf(p, haveData) /\ mapBlockIndex \in SUBSET Block
    BY Zenon DEF IInv, StateInv, DataInv
  <2> QED
    BY <1>3, <1>4, <2>1, AfterInvOK, Zenon
<1>6. StateInv' /\ FlightInv'
  BY <1>1, <1>4, <1>5, OneState, Zenon DEF IInv
<1>7. RequestInv'
  <2>1. PICK f : f = vToFetch
    BY Zenon
  <2>2. f \in Seq(Block)
    <3>1. f \in Seq(OnTips(p))
      BY <1>3, <2>1, FilterFacts, Zenon
    <3>2. OnTips(p) \subseteq Block
      BY OnTipsFacts, Zenon
    <3> QED
      BY <3>1, <3>2
  <2>3. <<[type |-> "getdata", blocks |-> f]>> \in Seq(RequestMessage) /\ <<>> \in Seq(RequestMessage)
    BY <2>2, RequestTypes, OneMessage, Zenon
  <2>4. PICK a \in Seq(RequestMessage) : a = IF f = <<>> THEN <<>> ELSE <<[type |-> "getdata", blocks |-> f]>>
    BY <2>3, Zenon
  <2>5. Ask(p, a)
    BY <1>1, <2>1, <2>4, Zenon
  <2> QED
    BY <2>5, Asked, Zenon DEF IInv
<1> QED
  BY <1>1, <1>2, <1>6, <1>7, Zenon DEF IInv, DataInv, PeerInv, Linked

\* "block" without its parent: another "getblocks"
LEMMA BlockUnlinkedInv ==
  ASSUME IInv, NEW p \in Peer, BlockUnlinked(p)
  PROVE  IInv'
<1> DEFINE b == Head(replies[p]).block
           stop == IF b \in nodeState[p].vBlockRequested THEN Prev[b] ELSE b
<1>1. /\ HasReply(p, "block") /\ UNCHANGED <<mapBlockIndex, haveData, tip, mapBlocksInFlight, peer>>
      /\ nodeState' = [nodeState EXCEPT ![p].vBlockRequested = @ \cup {stop}]
      /\ Ask(p, <<GetBlocks(stop)>>)
      /\ replies' = [replies EXCEPT ![p] = Tail(@)]
  BY Zenon DEF BlockUnlinked, blockVars
<1>2. Head(replies[p]) \in ReplyOf(p) /\ Head(replies[p]).type = "block" /\ ReplyInv'
  BY <1>1, ReplyTaken, Zenon DEF IInv
<1>3. b \in Block
  BY <1>2, ReplyTypes, Zenon
<1>4. stop \in Block
  BY <1>3, PrevType, Zenon
<1> HIDE DEF stop
<1>5. PICK r : r = nodeState[p].vBlockRequested \cup {stop}
  BY Zenon
<1>6. PICK s : s = [nodeState[p] EXCEPT !.vBlockRequested = r]
  BY Zenon
<1>7. s \in StateOf(p, haveData) /\ Same(nodeState[p], s)
  <2>1. nodeState[p] \in StateOf(p, haveData)
    BY Zenon DEF IInv, StateInv
  <2>2. r \in SUBSET Block
    BY <1>4, <1>5, <2>1, StateFields, Zenon
  <2>3. /\ [nodeState[p] EXCEPT !.vBlockRequested = r] \in StateOf(p, haveData)
        /\ Same(nodeState[p], [nodeState[p] EXCEPT !.vBlockRequested = r])
    BY <2>1, <2>2, SetRequested, Zenon
  <2> QED
    BY <1>6, <2>3, Zenon
<1>8. nodeState' = [nodeState EXCEPT ![p] = s]
  BY <1>1, <1>5, <1>6, Zenon
<1>9. StateInv' /\ FlightInv'
  BY <1>1, <1>7, <1>8, OneState, Zenon DEF IInv
<1>10. RequestInv'
  <2>1. GetBlocks(stop) \in RequestMessage
    BY <1>4, RequestTypes, Zenon DEF GetBlocks, IInv, DataInv
  <2>2. <<GetBlocks(stop)>> \in Seq(RequestMessage)
    BY <2>1, OneMessage, Zenon
  <2> QED
    BY <1>1, <2>2, Asked, Zenon DEF IInv
<1> QED
  BY <1>1, <1>2, <1>9, <1>10, Zenon DEF IInv, DataInv, PeerInv, Linked

\* "block" whose header is known: nothing happens
LEMMA BlockKnownInv ==
  ASSUME IInv, NEW p \in Peer, BlockKnown(p)
  PROVE  IInv'
<1>1. /\ HasReply(p, "block") /\ UNCHANGED <<mapBlockIndex, haveData, tip, mapBlocksInFlight, nodeState, requests, peer>>
      /\ replies' = [replies EXCEPT ![p] = Tail(@)]
  BY Zenon DEF BlockKnown, blockVars
<1>2. ReplyInv'
  BY <1>1, ReplyTaken, Zenon DEF IInv
<1>3. FlightInv'
  BY <1>1, SameRefl, SameFlight, Zenon DEF IInv
<1> QED
  BY <1>1, <1>2, <1>3, Zenon DEF IInv, DataInv, StateInv, RequestInv, PeerInv, Linked

\* The tip that ActivateBestChain chooses
LEMMA BestOK ==
  ASSUME NEW data \in SUBSET Block, NEW n \in Nat, \A b \in data : Height[b] <= n,
         tip \in Block, Linked(tip, data)
  PROVE  BestOf(data) \in Block /\ Linked(BestOf(data), data)
<1> DEFINE better == {b \in data : Linked(b, data) /\ Height[b] > Height[tip]}
           T == {k \in Nat : \E x \in better : Height[x] = n - k}
<1>1. CASE better = {}
  BY <1>1, Zenon DEF BestOf
<1>2. CASE better # {}
  <2>1. \A x \in better : Height[x] \in Nat /\ Height[x] <= n
    BY BlockDownloadAssumption, Zenon
  <2> HIDE DEF better
  <2>2. \A x \in better : n - Height[x] \in Nat /\ Height[x] = n - (n - Height[x])
    BY <2>1
  <2>3. \A x \in better : n - Height[x] \in T
    BY <2>2, Zenon
  <2>4. T \in SUBSET Nat /\ T # {}
    BY <1>2, <2>3, Zenon
  <2> HIDE DEF T
  <2>5. PICK k \in T : \A m \in T : k <= m
    BY <2>4, Least, Zenon
  <2>6. PICK x \in better : k \in Nat /\ Height[x] = n - k
    BY <2>5, Zenon DEF T
  <2>7. ASSUME NEW y \in better PROVE Height[y] <= Height[x]
    <3>1. k <= n - Height[y]
      BY <2>3, <2>5, Zenon
    <3> QED
      BY <2>1, <2>6, <3>1
  <2>8. \E z \in better : \A y \in better : Height[y] <= Height[z]
    BY <2>7, Zenon
  <2>9. BestOf(data) \in better
    BY <1>2, <2>8, Zenon DEF BestOf, better
  <2> QED
    BY <2>9, Zenon DEF better
<1> QED
  BY <1>1, <1>2, Zenon

\* One more block here leaves the tip linked and the heights bounded
LEMMA MoreBlocks ==
  ASSUME DataInv, NEW b \in Block, mapBlockIndex' = mapBlockIndex \cup {b},
         \/ haveData' = haveData \cup {b} /\ tip' = BestOf(haveData')
         \/ UNCHANGED <<haveData, tip>>
  PROVE  DataInv' /\ haveData \subseteq haveData'
<1>1. CASE UNCHANGED <<haveData, tip>>
  BY <1>1, Zenon DEF DataInv, Linked
<1>2. CASE haveData' = haveData \cup {b} /\ tip' = BestOf(haveData')
  <2>1. PICK n \in Nat : \A x \in haveData : Height[x] <= n
    BY Zenon DEF DataInv
  <2>2. PICK m : m = IF Height[b] <= n THEN n ELSE Height[b]
    BY Zenon
  <2>3. Height[b] \in Nat /\ \A x \in haveData : Height[x] \in Nat
    BY BlockDownloadAssumption, Zenon DEF DataInv
  <2>4. m \in Nat /\ n <= m /\ Height[b] <= m
    BY <2>2, <2>3
  <2>5. \A x \in haveData : Height[x] <= m
    BY <2>1, <2>3, <2>4
  <2>6. PICK d : d = haveData \cup {b}
    BY Zenon
  <2>7. d \in SUBSET Block /\ (\A x \in d : Height[x] <= m) /\ tip \in Block /\ Linked(tip, d)
    BY <2>4, <2>5, <2>6, Zenon DEF DataInv, Linked
  <2>8. BestOf(d) \in Block /\ Linked(BestOf(d), d)
    BY <2>4, <2>7, BestOK, Zenon
  <2>9. haveData' = d /\ tip' = BestOf(d)
    BY <1>2, <2>6, Zenon
  <2>10. tip' \in Block /\ Linked(tip', haveData')
    BY <2>8, <2>9, Zenon
  <2>11. \E k \in Nat : \A x \in haveData' : Height[x] <= k
    BY <2>4, <2>7, <2>9, Zenon
  <2>12. haveData' \in SUBSET Block /\ mapBlockIndex' \in SUBSET Block /\ haveData \subseteq haveData'
    BY <2>6, <2>7, <2>9, Zenon DEF DataInv
  <2> QED
    BY <2>10, <2>11, <2>12, Zenon DEF DataInv, Linked
<1> QED
  BY <1>1, <1>2, Zenon

\* Block b is no longer in flight: its peer has it off the list, the others keep theirs
LEMMA ReceivedOK ==
  ASSUME StateInv, FlightInv, NEW b \in Block, haveData \subseteq haveData',
         mapBlocksInFlight' = Without(mapBlocksInFlight, {b}), nodeState' = Received(b)
  PROVE  StateInv' /\ FlightInv'
<1>1. /\ DOMAIN mapBlocksInFlight' = DOMAIN mapBlocksInFlight \ {b}
      /\ \A x \in DOMAIN mapBlocksInFlight' : mapBlocksInFlight'[x] = mapBlocksInFlight[x]
      /\ DOMAIN mapBlocksInFlight' \subseteq Block
  BY FewerInFlight, Zenon
<1>2. CASE b \notin DOMAIN mapBlocksInFlight
  <2>1. nodeState' = nodeState
    BY <1>2, Zenon DEF Received
  <2>2. StateInv'
    BY <2>1, MoreData, Zenon DEF StateInv
  <2>3. DOMAIN mapBlocksInFlight' = DOMAIN mapBlocksInFlight
    BY <1>1, <1>2, Zenon
  <2>4. ASSUME NEW q \in Peer
        PROVE  {x \in DOMAIN mapBlocksInFlight' : mapBlocksInFlight'[x] = q}
                 = {x \in DOMAIN mapBlocksInFlight : mapBlocksInFlight[x] = q}
    BY <1>1, <2>3, Zenon
  <2>5. \A x \in DOMAIN mapBlocksInFlight' : mapBlocksInFlight'[x] \in Connected'
    BY <1>1, <2>1, <2>3, Zenon DEF FlightInv, InFlightConsistent, Connected
  <2>6. FlightInv'
    BY <1>1, <2>1, <2>4, <2>5, Zenon DEF FlightInv, InFlightConsistent
  <2> QED
    BY <2>2, <2>6, Zenon
<1>3. CASE b \in DOMAIN mapBlocksInFlight
  <2>1. PICK o \in Peer : o = mapBlocksInFlight[b] /\ o \in Connected
    BY <1>3, Zenon DEF FlightInv, InFlightConsistent, Connected
  <2>2. PICK f : f = Filter(nodeState[o].inFlight, Block \ {b})
    BY Zenon
  <2>3. PICK s : s = [nodeState[o] EXCEPT !.inFlight = f, !.stalling = FALSE]
    BY Zenon
  <2>4. nodeState[o] \in StateOf(o, haveData) /\ nodeState[o].inFlight \in Seq(Block)
    BY StateFields, Zenon DEF StateInv
  <2>5. /\ f \in Seq(Block) /\ Len(f) <= Len(nodeState[o].inFlight)
        /\ Range(f) = Range(nodeState[o].inFlight) \cap (Block \ {b})
        /\ IsInjective(nodeState[o].inFlight) => IsInjective(f)
    BY <2>2, <2>4, FilterFacts, Zenon
  <2>6. s \in StateOf(o, haveData) /\ s.inFlight = f /\ s.connected = nodeState[o].connected /\ s.stalling = FALSE
    <3>1. /\ [nodeState[o] EXCEPT !.inFlight = f, !.stalling = FALSE] \in StateOf(o, haveData)
          /\ [nodeState[o] EXCEPT !.inFlight = f, !.stalling = FALSE].inFlight = f
          /\ [nodeState[o] EXCEPT !.inFlight = f, !.stalling = FALSE].connected = nodeState[o].connected
          /\ [nodeState[o] EXCEPT !.inFlight = f, !.stalling = FALSE].stalling = FALSE
      <4>1. PICK t \in StateOf(o, haveData) : t = nodeState[o]
        BY <2>4, Zenon
      <4>2. f \in Seq(Block)
        BY <2>5, Zenon
      <4>3. /\ [t EXCEPT !.inFlight = f, !.stalling = FALSE] \in StateOf(o, haveData)
            /\ [t EXCEPT !.inFlight = f, !.stalling = FALSE].inFlight = f
            /\ [t EXCEPT !.inFlight = f, !.stalling = FALSE].connected = t.connected
            /\ [t EXCEPT !.inFlight = f, !.stalling = FALSE].stalling = FALSE
        BY ONLY t \in StateOf(o, haveData), <4>2 DEF StateOf
      <4> QED
        BY <4>1, <4>3, Zenon
    <3> QED
      BY <2>3, <3>1, Zenon
  <2>7. nodeState' = [nodeState EXCEPT ![o] = s]
    <3>1. nodeState' = [nodeState EXCEPT ![mapBlocksInFlight[b]] = WithoutBlock(nodeState[mapBlocksInFlight[b]], b)]
      BY <1>3, Zenon DEF Received
    <3>2. s = WithoutBlock(nodeState[o], b)
      BY <2>2, <2>3, Zenon DEF WithoutBlock
    <3> QED
      BY <2>1, <3>1, <3>2, Zenon
  <2>8. DOMAIN nodeState' = Peer /\ nodeState'[o] = s /\ \A q \in Peer : q # o => nodeState'[q] = nodeState[q]
    BY <2>7, Zenon DEF StateInv
  <2>9. StateInv'
    BY <2>6, <2>8, MoreData, Zenon DEF StateInv
  <2>10. /\ Range(nodeState'[o].inFlight) = {x \in DOMAIN mapBlocksInFlight' : mapBlocksInFlight'[x] = o}
         /\ IsInjective(nodeState'[o].inFlight)
         /\ Len(nodeState'[o].inFlight) <= MAX_BLOCKS_IN_TRANSIT_PER_PEER
         /\ ~nodeState'[o].stalling
    <3>1. /\ Range(nodeState[o].inFlight) = {x \in DOMAIN mapBlocksInFlight : mapBlocksInFlight[x] = o}
          /\ IsInjective(nodeState[o].inFlight)
          /\ Len(nodeState[o].inFlight) <= MAX_BLOCKS_IN_TRANSIT_PER_PEER
          /\ DOMAIN mapBlocksInFlight \subseteq Block
      BY Zenon DEF FlightInv, InFlightConsistent
    <3>2. Range(f) = {x \in DOMAIN mapBlocksInFlight' : mapBlocksInFlight'[x] = o}
      BY <1>1, <2>5, <3>1, Zenon
    <3>3. Len(f) \in Nat /\ Len(nodeState[o].inFlight) \in Nat /\ MAX_BLOCKS_IN_TRANSIT_PER_PEER \in Nat
      <4>1. f \in Seq(Block)
        BY <2>5, Zenon
      <4>2. Len(f) \in Nat
        BY <4>1
      <4>3. Len(nodeState[o].inFlight) \in Nat
        BY <2>4
      <4> QED
        BY <4>2, <4>3, BlockDownloadAssumption, Zenon
    <3>4. Len(f) <= MAX_BLOCKS_IN_TRANSIT_PER_PEER
      BY <2>5, <3>1, <3>3
    <3> QED
      BY <2>5, <2>6, <2>8, <3>1, <3>2, <3>4, Zenon
  <2>11. ASSUME NEW q \in Peer, q # o
         PROVE  /\ Range(nodeState'[q].inFlight) = {x \in DOMAIN mapBlocksInFlight' : mapBlocksInFlight'[x] = q}
                /\ IsInjective(nodeState'[q].inFlight)
                /\ Len(nodeState'[q].inFlight) <= MAX_BLOCKS_IN_TRANSIT_PER_PEER
                /\ nodeState'[q].stalling => nodeState'[q].inFlight # <<>>
    <3>1. {x \in DOMAIN mapBlocksInFlight' : mapBlocksInFlight'[x] = q}
            = {x \in DOMAIN mapBlocksInFlight : mapBlocksInFlight[x] = q}
      BY <1>1, <2>1, <2>11, Zenon
    <3>2. nodeState'[q] = nodeState[q]
      BY <2>8, <2>11, Zenon
    <3> QED
      BY <3>1, <3>2, Zenon DEF FlightInv, InFlightConsistent
  <2>12. \A x \in DOMAIN mapBlocksInFlight' : mapBlocksInFlight'[x] \in Connected'
    <3>1. Connected \subseteq Connected'
      BY <2>6, <2>8, Zenon DEF Connected
    <3> QED
      BY <1>1, <3>1, Zenon DEF FlightInv, InFlightConsistent
  <2>13. FlightInv'
    BY <1>1, <2>10, <2>11, <2>12, Zenon DEF FlightInv, InFlightConsistent
  <2> QED
    BY <2>9, <2>13, Zenon
<1> QED
  BY <1>2, <1>3, Zenon

\* ProcessNewBlock, whether the block is stored or its stake refused
LEMMA ProcessNewBlockInv ==
  ASSUME DataInv, StateInv, FlightInv, NEW b \in Block, ProcessNewBlock(b)
  PROVE  DataInv' /\ StateInv' /\ FlightInv'
<1>1. DataInv' /\ haveData \subseteq haveData'
  BY MoreBlocks, Zenon DEF ProcessNewBlock
<1>2. StateInv' /\ FlightInv'
  BY <1>1, ReceivedOK, Zenon DEF ProcessNewBlock
<1> QED
  BY <1>1, <1>2, Zenon

\* "block" that is new, in flight from this peer, from another one, or not at all
LEMMA BlockNewInv ==
  ASSUME IInv, NEW p \in Peer, BlockNew(p)
  PROVE  IInv'
<1> DEFINE b == Head(replies[p]).block
<1>1. /\ HasReply(p, "block") /\ UNCHANGED <<requests, peer>> /\ ProcessNewBlock(b)
      /\ replies' = [replies EXCEPT ![p] = Tail(@)]
  BY Zenon DEF BlockNew
<1>2. Head(replies[p]) \in ReplyOf(p) /\ Head(replies[p]).type = "block" /\ ReplyInv'
  BY <1>1, ReplyTaken, Zenon DEF IInv
<1>3. b \in Block
  BY <1>2, ReplyTypes, Zenon
<1> HIDE DEF b
<1>4. DataInv' /\ StateInv' /\ FlightInv'
  BY <1>1, <1>3, ProcessNewBlockInv, Zenon DEF IInv
<1> QED
  BY <1>1, <1>2, <1>4, Zenon DEF IInv, RequestInv, PeerInv

\* submitblock, of a block that may be in flight
LEMMA SubmitBlockInv ==
  ASSUME IInv, NEW b \in Block, SubmitBlock(b)
  PROVE  IInv'
<1>1. ProcessNewBlock(b) /\ UNCHANGED <<requests, replies, peer>>
  BY Zenon DEF SubmitBlock
<1>2. DataInv' /\ StateInv' /\ FlightInv'
  BY <1>1, ProcessNewBlockInv, Zenon DEF IInv
<1> QED
  BY <1>1, <1>2, Zenon DEF IInv, RequestInv, ReplyInv, PeerInv

\* The new entries of mapBlocksInFlight and of the list of peer p, and a peer waited for
LEMMA MarkedOK ==
  ASSUME StateInv, FlightInv, NEW p \in Peer, p \in Connected, NEW blocks \in Seq(Block), IsInjective(blocks),
         Range(blocks) \cap DOMAIN mapBlocksInFlight = {},
         Len(nodeState[p].inFlight) + Len(blocks) <= MAX_BLOCKS_IN_TRANSIT_PER_PEER,
         mapBlocksInFlight' = MarkBlockAsInFlight(p, blocks),
         \A q \in Peer : nodeState'[q].connected = nodeState[q].connected,
         nodeState'[p].inFlight = nodeState[p].inFlight \o blocks, nodeState'[p].stalling = nodeState[p].stalling,
         \A q \in Peer : q # p => /\ nodeState'[q].inFlight = nodeState[q].inFlight
                                  /\ nodeState'[q].stalling => nodeState[q].stalling \/ q \in Owner
  PROVE  FlightInv'
<1>1. /\ DOMAIN mapBlocksInFlight' = DOMAIN mapBlocksInFlight \cup Range(blocks)
      /\ \A b \in Range(blocks) : mapBlocksInFlight'[b] = p
      /\ \A b \in DOMAIN mapBlocksInFlight : b \notin Range(blocks) /\ mapBlocksInFlight'[b] = mapBlocksInFlight[b]
  BY Zenon DEF MarkBlockAsInFlight
<1>2. DOMAIN mapBlocksInFlight' \subseteq Block
  <2>1. Range(blocks) \subseteq Block
    BY SeqFacts, Zenon
  <2> QED
    BY <1>1, <2>1, Zenon DEF FlightInv
<1>3. PICK f \in Seq(Block) : f = nodeState[p].inFlight
  BY StateFields, Zenon DEF StateInv
<1>4. /\ Range(f) = {b \in DOMAIN mapBlocksInFlight : mapBlocksInFlight[b] = p}
      /\ IsInjective(f) /\ (nodeState[p].stalling => f # <<>>)
  BY <1>3, Zenon DEF FlightInv, InFlightConsistent
<1>5. /\ f \o blocks \in Seq(Block) /\ Len(f \o blocks) = Len(f) + Len(blocks)
      /\ Range(f \o blocks) = Range(f) \cup Range(blocks)
      /\ IsInjective(f) /\ IsInjective(blocks) /\ Range(f) \cap Range(blocks) = {} => IsInjective(f \o blocks)
  BY ONLY f \in Seq(Block), blocks \in Seq(Block), ConcatFacts, Zenon
<1>6. PICK g : g = f \o blocks
  BY Zenon
<1>7. IsInjective(g)
  BY <1>1, <1>4, <1>5, <1>6, Zenon
<1>8. Range(g) = {b \in DOMAIN mapBlocksInFlight' : mapBlocksInFlight'[b] = p}
  <2>1. Range(g) = Range(f) \cup Range(blocks)
    BY <1>5, <1>6, Zenon
  <2>2. ASSUME NEW b \in Range(g) PROVE b \in DOMAIN mapBlocksInFlight' /\ mapBlocksInFlight'[b] = p
    BY <1>1, <1>4, <2>1, <2>2, Zenon
  <2>3. ASSUME NEW b \in DOMAIN mapBlocksInFlight', mapBlocksInFlight'[b] = p PROVE b \in Range(g)
    BY <1>1, <1>4, <2>1, <2>3, Zenon
  <2> QED
    BY <2>2, <2>3, Zenon
<1>9. Len(g) <= MAX_BLOCKS_IN_TRANSIT_PER_PEER
  BY <1>3, <1>5, <1>6, Zenon
<1>10. f # <<>> => g # <<>>
  BY <1>6
<1>11. nodeState'[p].inFlight = g /\ (nodeState'[p].stalling => g # <<>>)
  BY <1>3, <1>4, <1>6, <1>10, Zenon
<1>12. ASSUME NEW q \in Peer, q # p
       PROVE  /\ Range(nodeState'[q].inFlight) = {b \in DOMAIN mapBlocksInFlight' : mapBlocksInFlight'[b] = q}
              /\ IsInjective(nodeState'[q].inFlight)
              /\ Len(nodeState'[q].inFlight) <= MAX_BLOCKS_IN_TRANSIT_PER_PEER
              /\ nodeState'[q].stalling => nodeState'[q].inFlight # <<>>
  <2>1. /\ Range(nodeState[q].inFlight) = {b \in DOMAIN mapBlocksInFlight : mapBlocksInFlight[b] = q}
        /\ IsInjective(nodeState[q].inFlight)
        /\ Len(nodeState[q].inFlight) <= MAX_BLOCKS_IN_TRANSIT_PER_PEER
        /\ nodeState[q].stalling => nodeState[q].inFlight # <<>>
    BY Zenon DEF FlightInv, InFlightConsistent
  <2>2. {b \in DOMAIN mapBlocksInFlight' : mapBlocksInFlight'[b] = q}
          = {b \in DOMAIN mapBlocksInFlight : mapBlocksInFlight[b] = q}
    BY <1>1, <1>12, Zenon
  <2>3. q \in Owner => nodeState[q].inFlight # <<>>
    <3>1. DOMAIN <<>> = {}
      OBVIOUS
    <3>2. Range(<<>>) = {}
      BY <3>1, Zenon DEF Range
    <3> QED
      BY <2>1, <3>2, Zenon DEF Owner
  <2> QED
    BY <1>12, <2>1, <2>2, <2>3, Zenon
<1>13. \A b \in DOMAIN mapBlocksInFlight' : mapBlocksInFlight'[b] \in Connected'
  <2>1. Connected' = Connected
    BY Zenon DEF Connected
  <2> QED
    BY <1>1, <2>1, Zenon DEF FlightInv, InFlightConsistent
<1> QED
  BY <1>2, <1>7, <1>8, <1>9, <1>11, <1>12, <1>13, Zenon DEF FlightInv, InFlightConsistent

\* SendMessages: the request fits the room that the blocks in flight leave
LEMMA SendMessagesInv ==
  ASSUME IInv, NEW p \in Peer, NEW recent \in BOOLEAN, NEW late \in BOOLEAN, SendMessages(p, recent, late)
  PROVE  IInv'
<1> DEFINE old == nodeState[p]
           start == ~old.fSyncStarted /\ (nSyncStarted = 0 \/ recent)
           drop == late /\ (old.stalling \/ old.inFlight # <<>>)
           s == [old EXCEPT !.fSyncStarted = old.fSyncStarted \/ start, !.fDisconnect = drop]
           room == MAX_BLOCKS_IN_TRANSIT_PER_PEER - Len(s.inFlight)
           found == IF s.fDisconnect \/ room = 0
                      THEN [state |-> s, blocks |-> <<>>, staller |-> None]
                      ELSE FindNextBlocksToDownload(p, s, room)
           new == MarkInFlight(found.state, found.blocks)
           stalls(q) == q = found.staller /\ new.inFlight = <<>>
           asked == (IF start THEN <<GetBlocks(None)>> ELSE <<>>)
                    \o (IF found.blocks = <<>> THEN <<>>
                        ELSE <<[type |-> "getdata", blocks |-> found.blocks]>>)
<1>1. /\ p \in Connected /\ UNCHANGED <<mapBlockIndex, haveData, tip, replies, peer>>
      /\ nodeState' = [q \in Peer |-> IF q = p THEN new
                                     ELSE [nodeState[q] EXCEPT !.stalling = nodeState[q].stalling \/ stalls(q)]]
      /\ mapBlocksInFlight' = MarkBlockAsInFlight(p, found.blocks)
      /\ Ask(p, asked)
  BY Zenon DEF SendMessages, blockVars, Active
<1>2. old \in StateOf(p, haveData) /\ tip \in Block /\ Linked(tip, haveData) /\ mapBlockIndex \in SUBSET Block
  BY Zenon DEF IInv, StateInv, DataInv
<1>3. old.inFlight \in Seq(Block) /\ Len(old.inFlight) \in Nat /\ Len(old.inFlight) <= MAX_BLOCKS_IN_TRANSIT_PER_PEER
  <2>1. old.inFlight \in Seq(Block) /\ Len(old.inFlight) <= MAX_BLOCKS_IN_TRANSIT_PER_PEER
    BY <1>2, StateFields, Zenon DEF IInv, FlightInv, InFlightConsistent
  <2> QED
    BY <2>1, SeqFacts, Zenon
<1>4. s \in StateOf(p, haveData) /\ Same(old, s)
  <2>1. PICK a \in BOOLEAN : a = (old.fSyncStarted \/ start)
    BY <1>2, StateFields, Zenon
  <2>2. PICK b \in BOOLEAN : b = drop
    BY <1>2, StateFields, Zenon
  <2>3. s = [old EXCEPT !.fSyncStarted = a, !.fDisconnect = b]
    BY <2>1, <2>2, Zenon
  <2>4. /\ [old EXCEPT !.fSyncStarted = a, !.fDisconnect = b] \in StateOf(p, haveData)
        /\ Same(old, [old EXCEPT !.fSyncStarted = a, !.fDisconnect = b])
    BY ONLY <1>2, a \in BOOLEAN, b \in BOOLEAN, SetFlags, Zenon
  <2> QED
    BY <2>3, <2>4, Zenon
<1> HIDE DEF start, drop, s
<1>5. room \in Nat /\ Len(old.inFlight) + room <= MAX_BLOCKS_IN_TRANSIT_PER_PEER
  <2>1. s.inFlight = old.inFlight
    BY <1>4, Zenon DEF Same
  <2>2. PICK l \in Nat : l = Len(old.inFlight)
    BY <1>3, Zenon
  <2>3. room = MAX_BLOCKS_IN_TRANSIT_PER_PEER - l /\ l <= MAX_BLOCKS_IN_TRANSIT_PER_PEER
    BY <1>3, <2>1, <2>2, Zenon
  <2>4. MAX_BLOCKS_IN_TRANSIT_PER_PEER \in Nat
    BY BlockDownloadAssumption, Zenon
  <2>5. room \in Nat /\ l + room <= MAX_BLOCKS_IN_TRANSIT_PER_PEER
    BY ONLY <2>3, <2>4, l \in Nat, SMT
  <2> QED
    BY <2>2, <2>5, Zenon
<1> HIDE DEF room
<1>6. Found(p, s, room, found)
  <2>1. Found(p, s, room, [state |-> s, blocks |-> <<>>, staller |-> None])
    BY <1>4, <1>5, SameRefl, EmptyFound, Zenon
  <2>2. ASSUME room # 0 PROVE Found(p, s, room, FindNextBlocksToDownload(p, s, room))
    <3>1. room \in Nat \ {0}
      BY <1>5, <2>2, Zenon
    <3> QED
      BY <1>2, <1>4, <3>1, FindOK, Zenon
  <2> QED
    BY <2>1, <2>2, Zenon
<1> HIDE DEF found
<1>7. PICK r : r = found
  BY Zenon
<1>8. PICK blocks : blocks = r.blocks
  BY Zenon
<1>9. /\ r.state \in StateOf(p, haveData) /\ Same(s, r.state)
      /\ blocks \in Seq(Block) /\ IsInjective(blocks) /\ Len(blocks) <= room
      /\ Range(blocks) \cap DOMAIN mapBlocksInFlight = {}
      /\ r.staller \in Owner \cup {None}
  BY <1>6, <1>7, <1>8, Zenon DEF Found
<1>10. /\ r.state.inFlight = old.inFlight /\ r.state.stalling = old.stalling
       /\ r.state.connected = old.connected
  BY <1>4, <1>9, Zenon DEF Same
<1>11. Len(old.inFlight) + Len(blocks) <= MAX_BLOCKS_IN_TRANSIT_PER_PEER
  <2>1. Len(blocks) \in Nat
    BY <1>9, SeqFacts, Zenon
  <2>2. MAX_BLOCKS_IN_TRANSIT_PER_PEER \in Nat
    BY BlockDownloadAssumption, Zenon
  <2> QED
    BY ONLY <1>3, <1>5, <1>9, <2>1, <2>2, SMT
<1>12. PICK f : f = old.inFlight \o blocks
  BY Zenon
<1>13. f \in Seq(Block)
  BY <1>3, <1>9, <1>12, ConcatFacts, Zenon
<1>14. new \in StateOf(p, haveData) /\ new.inFlight = f /\ new.connected = old.connected /\ new.stalling = old.stalling
  <2>1. PICK t \in StateOf(p, haveData) : t = r.state
    BY <1>9, Zenon
  <2>2. new = [t EXCEPT !.inFlight = f]
    BY <1>7, <1>8, <1>10, <1>12, <2>1, Zenon DEF MarkInFlight
  <2>3. /\ [t EXCEPT !.inFlight = f] \in StateOf(p, haveData)
        /\ [t EXCEPT !.inFlight = f].inFlight = f
        /\ [t EXCEPT !.inFlight = f].connected = t.connected
        /\ [t EXCEPT !.inFlight = f].stalling = t.stalling
    BY ONLY t \in StateOf(p, haveData), <1>13, SMT DEF StateOf
  <2> QED
    BY <1>10, <2>1, <2>2, <2>3, Zenon
<1> HIDE DEF new
<1>15. ASSUME NEW q \in Peer, q # p
       PROVE  /\ nodeState'[q] \in StateOf(q, haveData)
              /\ nodeState'[q].inFlight = nodeState[q].inFlight /\ nodeState'[q].connected = nodeState[q].connected
              /\ nodeState'[q].stalling => nodeState[q].stalling \/ q \in Owner
  <2>1. PICK t \in StateOf(q, haveData) : t = nodeState[q]
    BY Zenon DEF IInv, StateInv
  <2>2. PICK b \in BOOLEAN : b = (nodeState[q].stalling \/ stalls(q))
    BY <2>1, StateFields, Zenon
  <2>3. nodeState'[q] = [t EXCEPT !.stalling = b]
    BY <1>1, <1>15, <2>1, <2>2, Zenon
  <2>4. /\ [t EXCEPT !.stalling = b] \in StateOf(q, haveData)
        /\ [t EXCEPT !.stalling = b].inFlight = t.inFlight
        /\ [t EXCEPT !.stalling = b].connected = t.connected
        /\ [t EXCEPT !.stalling = b].stalling = b
    BY ONLY t \in StateOf(q, haveData), b \in BOOLEAN, SMT DEF StateOf
  <2>5. stalls(q) => q \in Owner
    <3>1. q # None
      BY BlockDownloadAssumption, Zenon
    <3> QED
      BY <1>7, <1>9, <3>1, Zenon
  <2> QED
    BY <2>1, <2>2, <2>3, <2>4, <2>5, Zenon
<1>16. nodeState'[p] = new
  BY <1>1, Zenon
<1>17. StateInv'
  BY <1>1, <1>14, <1>15, <1>16, Zenon DEF StateInv
<1>18. mapBlocksInFlight' = MarkBlockAsInFlight(p, blocks)
  BY <1>1, <1>7, <1>8, Zenon
<1>19. FlightInv'
  <2>1. \A q \in Peer : nodeState'[q].connected = nodeState[q].connected
    BY <1>14, <1>15, <1>16, Zenon
  <2>2. nodeState'[p].inFlight = nodeState[p].inFlight \o blocks /\ nodeState'[p].stalling = nodeState[p].stalling
    BY <1>12, <1>14, <1>16, Zenon
  <2>3. StateInv /\ FlightInv
    BY Zenon DEF IInv
  <2> QED
    BY <1>1, <1>9, <1>11, <1>15, <1>18, <2>1, <2>2, <2>3, MarkedOK, Zenon
<1>20. RequestInv'
  <2>1. GetBlocks(None) \in RequestMessage
    BY <1>2, RequestTypes, Zenon DEF GetBlocks
  <2>2. [type |-> "getdata", blocks |-> blocks] \in RequestMessage
    BY <1>9, RequestTypes, Zenon
  <2>3. PICK a \in Seq(RequestMessage) : a = IF start THEN <<GetBlocks(None)>> ELSE <<>>
    BY <2>1, OneMessage, Zenon
  <2>4. PICK b \in Seq(RequestMessage) : b = IF blocks = <<>> THEN <<>> ELSE <<[type |-> "getdata", blocks |-> blocks]>>
    BY <2>2, OneMessage, Zenon
  <2>5. a \o b \in Seq(RequestMessage)
    BY ONLY a \in Seq(RequestMessage), b \in Seq(RequestMessage), ConcatFacts, Zenon
  <2>6. asked = a \o b
    BY <1>7, <1>8, <2>3, <2>4, Zenon
  <2> QED
    BY <1>1, <2>5, <2>6, Asked, Zenon DEF IInv
<1> QED
  BY <1>1, <1>17, <1>19, <1>20, Zenon DEF IInv, DataInv, ReplyInv, PeerInv, Linked

\* The blocks that a "getblocks" is answered with are on the chain of the peer
LEMMA UptoIn ==
  ASSUME NEW b \in Block, NEW fork \in Chain[b], NEW stop
  PROVE  Upto(b, fork, stop) \in Seq(Chain[b])
<1>1. /\ Chain[b] \in SUBSET Block /\ fork \in Block /\ Height[fork] \in Nat /\ Height[b] \in Nat
      /\ Height[fork] <= Height[b]
  BY ChainBlocks, ChainBelow, BlockDownloadAssumption, Zenon
<1>2. CASE stop \in Chain[b] /\ Height[stop] > Height[fork]
  <2>1. stop \in Block /\ Height[stop] \in Nat
    BY <1>1, <1>2, BlockDownloadAssumption, Zenon
  <2>2. Height[stop] # 0
    BY <1>1, <1>2, <2>1
  <2>3. stop \in Block \ {Genesis}
    BY <2>1, <2>2, ChainStep, Zenon
  <2>4. /\ Prev[stop] \in Block /\ Height[Prev[stop]] \in Nat /\ Height[stop] = Height[Prev[stop]] + 1
        /\ Chain[stop] = Chain[Prev[stop]] \cup {stop}
    BY <2>3, ChainStep, Zenon
  <2>5. Height[fork] \in 0..Height[Prev[stop]]
    BY ONLY <1>1, <1>2, <2>4, SMT
  <2>6. Path(Prev[stop], Height[fork]) \in Seq(Chain[Prev[stop]])
    BY <2>4, <2>5, PathIn, Zenon
  <2>7. Chain[Prev[stop]] \subseteq Chain[b]
    BY <1>2, <2>4, ChainBelow, Zenon
  <2>8. Path(Prev[stop], Height[fork]) \in Seq(Chain[b])
    BY ONLY <2>6, <2>7, SMT
  <2> QED
    BY <1>2, <2>8, Zenon DEF Upto
<1>3. CASE ~(stop \in Chain[b] /\ Height[stop] > Height[fork])
  <2>1. Height[fork] \in 0..Height[b]
    BY ONLY <1>1, SMT
  <2>2. Path(b, Height[fork]) \in Seq(Chain[b])
    BY <2>1, PathIn, Zenon
  <2> QED
    BY <1>3, <2>2, Zenon DEF Upto
<1> QED
  BY <1>2, <1>3, Zenon

\* The state of the other end with new values
LEMMA SetPeer ==
  ASSUME NEW p, NEW s \in PeerOf(p), NEW t \in Tips[p], NEW k \in SUBSET Block, NEW h \in Block \cup {None}
  PROVE  /\ [s EXCEPT !.known = k, !.hashContinue = h] \in PeerOf(p)
         /\ [s EXCEPT !.tip = t, !.known = k] \in PeerOf(p)
         /\ [s EXCEPT !.hashContinue = h] \in PeerOf(p)
         /\ s.tip \in Tips[p] /\ s.known \in SUBSET Block /\ s.hashContinue \in Block \cup {None}
BY DEF PeerOf

\* The first n members of a sequence, or all of them
LEMMA Prefix ==
  ASSUME NEW Y, NEW s \in Seq(Y), NEW n \in Nat \ {0}
  PROVE  /\ SubSeq(s, 1, IF Len(s) < n THEN Len(s) ELSE n) \in Seq(Y)
         /\ Len(s) >= n => s[n] \in Y
<1>1. PICK m \in Nat : m = IF Len(s) < n THEN Len(s) ELSE n
  OBVIOUS
<1>2. m <= Len(s) /\ Len(s) \in Nat
  BY <1>1
<1>3. SubSeq(s, 1, m) \in Seq(Y)
  BY <1>2
<1>4. Len(s) >= n => s[n] \in Y
  OBVIOUS
<1> QED
  BY <1>1, <1>3, <1>4, Zenon

\* A message of this node is taken by peer p
LEMMA RequestTaken ==
  ASSUME RequestInv, NEW p \in Peer, NEW type, HasRequest(p, type)
  PROVE  /\ Head(requests[p]) \in RequestMessage /\ Head(requests[p]).type = type
         /\ requests' = [requests EXCEPT ![p] = Tail(@)] => RequestInv'
<1>1. requests[p] \in Seq(RequestMessage) /\ requests[p] # <<>> /\ Head(requests[p]).type = type
  BY Zenon DEF RequestInv, HasRequest
<1>2. Head(requests[p]) \in RequestMessage /\ Tail(requests[p]) \in Seq(RequestMessage)
  BY <1>1, HeadTail, Zenon
<1>3. ASSUME requests' = [requests EXCEPT ![p] = Tail(@)] PROVE RequestInv'
  BY <1>2, <1>3, Zenon DEF RequestInv
<1> QED
  BY <1>1, <1>2, <1>3, Zenon

\* The other end does something: the node is as before
LEMMA OtherEnd ==
  ASSUME IInv, UNCHANGED <<mapBlockIndex, haveData, tip, mapBlocksInFlight, nodeState>>,
         RequestInv', NEW p \in Peer, NEW r \in Seq(ReplyOf(p)), NEW s \in PeerOf(p),
         replies' = [replies EXCEPT ![p] = r],
         DOMAIN peer' = Peer, peer'[p] = s, \A q \in Peer : q # p => peer'[q] = peer[q]
  PROVE  IInv'
<1>1. FlightInv'
  BY SameRefl, SameFlight, Zenon DEF IInv
<1>2. ReplyInv'
  BY Zenon DEF IInv, ReplyInv
<1>3. PeerInv'
  BY Zenon DEF IInv, PeerInv
<1> QED
  BY <1>1, <1>2, <1>3, Zenon DEF IInv, DataInv, StateInv, Linked

\* "getblocks": the answer is on the chain of the peer
LEMMA PeerGetBlocksInv ==
  ASSUME IInv, NEW p \in Peer, PeerGetBlocks(p)
  PROVE  IInv'
<1> DEFINE r == Head(requests[p])
           fork == FindForkInGlobalIndex(r.tip, peer[p].tip)
<1>0. HasRequest(p, "getblocks") /\ UNCHANGED <<mapBlockIndex, haveData, tip, mapBlocksInFlight, nodeState>>
  BY Zenon DEF PeerGetBlocks, blockVars
<1> DEFINE Sent(path) ==
             LET next == ContinueAt(path)
                 new == Filter(SubSeq(path, 1, IF Len(path) < InvLimit THEN Len(path) ELSE InvLimit),
                               Block \ peer[p].known)
             IN  /\ replies' = [replies EXCEPT ![p] =
                                  IF new = <<>> THEN @ ELSE Append(@, [type |-> "inv", blocks |-> new])]
                 /\ peer' = [peer EXCEPT ![p].known = @ \cup Range(new),
                                         ![p].hashContinue = IF next = None THEN @ ELSE next]
<1>a. \E path \in {Upto(peer[p].tip, fork, r.stop)} : Sent(path)
  BY Zenon DEF PeerGetBlocks
<1> HIDE DEF Sent
<1>b. PICK path : path = Upto(peer[p].tip, fork, r.stop) /\ Sent(path)
  BY <1>a, Zenon
<1> DEFINE next == ContinueAt(path)
           new == Filter(SubSeq(path, 1, IF Len(path) < InvLimit THEN Len(path) ELSE InvLimit),
                         Block \ peer[p].known)
<1>1. /\ replies' = [replies EXCEPT ![p] =
                       IF new = <<>> THEN @ ELSE Append(@, [type |-> "inv", blocks |-> new])]
      /\ peer' = [peer EXCEPT ![p].known = @ \cup Range(new),
                              ![p].hashContinue = IF next = None THEN @ ELSE next]
  BY <1>b, Zenon DEF Sent
<1>2. r \in RequestMessage /\ r.type = "getblocks" /\ RequestInv'
  <2>1. requests' = [requests EXCEPT ![p] = Tail(@)]
    BY Zenon DEF PeerGetBlocks
  <2> QED
    BY <1>0, <2>1, RequestTaken, Zenon DEF IInv
<1>3. r.tip \in Block
  BY <1>2, RequestTypes, Zenon
<1>4. PICK s \in PeerOf(p) : s = peer[p]
  BY Zenon DEF IInv, PeerInv
<1>5. s.tip \in Tips[p] /\ s.known \in SUBSET Block /\ s.hashContinue \in Block \cup {None}
  BY Zenon DEF PeerOf
<1>6. s.tip \in Block /\ Chain[s.tip] \subseteq OnTips(p) /\ OnTips(p) \subseteq Block
  BY <1>5, OnTipsFacts, Zenon
<1>7. path \in Seq(OnTips(p))
  <2>1. fork \in Chain[s.tip]
    BY <1>3, <1>4, <1>6, CommonIn, Zenon DEF FindForkInGlobalIndex
  <2>2. path \in Seq(Chain[s.tip])
    BY <1>b, <1>4, <1>6, <2>1, UptoIn, Zenon
  <2> QED
    BY <1>6, <2>2
<1>8. PICK n \in Nat \ {0} : n = InvLimit
  BY BlockDownloadAssumption, Zenon
<1>9. next \in Block \cup {None}
  <2>1. Len(path) >= n => path[n] \in OnTips(p)
    BY <1>7, Prefix, Zenon
  <2> QED
    BY <1>6, <1>8, <2>1, Zenon DEF ContinueAt
<1>10. new \in Seq(OnTips(p))
  <2>1. SubSeq(path, 1, IF Len(path) < n THEN Len(path) ELSE n) \in Seq(OnTips(p))
    BY <1>7, Prefix, Zenon
  <2> QED
    BY <1>8, <2>1, FilterFacts, Zenon
<1> HIDE DEF new, next
<1>11. PICK k \in SUBSET Block : k = s.known \cup Range(new)
  <2>1. Range(new) \subseteq OnTips(p)
    BY <1>10, SeqFacts, Zenon
  <2> QED
    BY <1>5, <1>6, <2>1, Zenon
<1>12. PICK h \in Block \cup {None} : h = IF next = None THEN s.hashContinue ELSE next
  BY <1>5, <1>9, Zenon
<1>13. PICK t : t = [s EXCEPT !.known = k, !.hashContinue = h]
  BY Zenon
<1>14. t \in PeerOf(p)
  <2>1. [s EXCEPT !.known = k, !.hashContinue = h] \in PeerOf(p)
    BY ONLY <1>5, s \in PeerOf(p), k \in SUBSET Block, h \in Block \cup {None}, SetPeer, Zenon
  <2> QED
    BY <1>13, <2>1, Zenon
<1>15. DOMAIN peer' = Peer /\ peer'[p] = t /\ \A q \in Peer : q # p => peer'[q] = peer[q]
  <2>1. DOMAIN peer = Peer
    BY Zenon DEF IInv, PeerInv
  <2>2. PICK u : u = [s EXCEPT !.known = k]
    BY Zenon
  <2>3. u.hashContinue = s.hashContinue /\ t = [u EXCEPT !.hashContinue = h]
    BY ONLY <1>13, <2>2, s \in PeerOf(p), SMT DEF PeerOf
  <2>4. PICK f : f = [peer EXCEPT ![p].known = @ \cup Range(new)]
    BY Zenon
  <2>5. f = [peer EXCEPT ![p] = u]
    BY <1>4, <1>11, <2>2, <2>4, Zenon
  <2>6. f[p] = u /\ DOMAIN f = Peer
    BY <2>1, <2>5, Zenon
  <2>7. peer' = [f EXCEPT ![p].hashContinue = IF next = None THEN @ ELSE next]
    BY <1>1, <2>4, Zenon
  <2>8. peer' = [f EXCEPT ![p] = t]
    BY <1>12, <2>3, <2>6, <2>7, Zenon
  <2> QED
    BY <2>1, <2>5, <2>6, <2>8, Zenon
<1>16. PICK q : q = IF new = <<>> THEN replies[p] ELSE Append(replies[p], [type |-> "inv", blocks |-> new])
  BY Zenon
<1>17. q \in Seq(ReplyOf(p))
  <2>1. [type |-> "inv", blocks |-> new] \in ReplyOf(p)
    BY <1>10, ReplyTypes, Zenon
  <2>2. replies[p] \in Seq(ReplyOf(p))
    BY Zenon DEF IInv, ReplyInv
  <2>3. Append(replies[p], [type |-> "inv", blocks |-> new]) \in Seq(ReplyOf(p))
    BY <2>1, <2>2, AppendFacts, Zenon
  <2> QED
    BY <1>16, <2>2, <2>3, Zenon
<1>18. replies' = [replies EXCEPT ![p] = q]
  BY <1>1, <1>16, Zenon
<1> QED
  BY <1>0, <1>2, <1>14, <1>15, <1>17, <1>18, OtherEnd, Zenon

\* The answers to a "getdata" are messages of the peer
LEMMA AnswersOK ==
  ASSUME NEW p \in Peer, peer[p] \in PeerOf(p), replies[p] \in Seq(ReplyOf(p)), NEW blocks \in Seq(Block)
  PROVE  AfterAnswers(p, blocks)[Len(blocks)] \in Seq(ReplyOf(p))
<1> DEFINE Step(a, j) == a \o Answer(p, blocks[j])
           X == Seq(ReplyOf(p))
           N == Len(blocks)
           G == [j \in 1..N |-> [a \in X |-> Step(a, j)]]
           A == AfterAnswers(p, blocks)
           start == replies[p]
<1>0. (\E f : f = [j \in 0..N |-> IF j = 0 THEN start ELSE Step(f[j - 1], j)])
        => A = [j \in 0..N |-> IF j = 0 THEN start ELSE Step(A[j - 1], j)]
  BY Zenon DEF AfterAnswers
<1>1. N \in Nat /\ \A j \in 1..N : blocks[j] \in Block
  BY SeqFacts, Zenon
<1>2. start \in X
  BY Zenon
<1>3. ASSUME NEW j \in 1..N, NEW a \in X PROVE Step(a, j) \in X
  <2>1. PICK b \in Block : b = blocks[j]
    BY <1>1, Zenon
  <2>2. [type |-> "block", block |-> b] \in ReplyOf(p)
    BY ReplyTypes, Zenon
  <2>3. peer[p].tip \in OnTips(p)
    <3>1. peer[p].tip \in Tips[p]
      BY Zenon DEF PeerOf
    <3> QED
      BY <3>1, OnTipsFacts, Zenon
  <2>4. <<peer[p].tip>> \in Seq(OnTips(p))
    BY <2>3, OneMessage, Zenon
  <2>5. [type |-> "inv", blocks |-> <<peer[p].tip>>] \in ReplyOf(p)
    BY <2>4, ReplyTypes, Zenon
  <2>6. PICK u \in X : u = <<[type |-> "block", block |-> b]>>
    BY <2>2, OneMessage, Zenon
  <2>7. PICK v \in X : v = IF b = peer[p].hashContinue
                           THEN <<[type |-> "inv", blocks |-> <<peer[p].tip>>]>> ELSE <<>>
    BY <2>5, OneMessage, Zenon
  <2>8. u \o v \in X
    BY ONLY u \in X, v \in X, ConcatFacts, Zenon
  <2>9. a \o (u \o v) \in X
    BY ONLY a \in X, <2>8, ConcatFacts, Zenon
  <2>10. Answer(p, b) = u \o v
    BY <2>6, <2>7, Zenon DEF Answer
  <2> QED
    BY <2>1, <2>9, <2>10, Zenon
<1> HIDE DEF Step, X, N, A, start
<1>4. G \in [1..N -> [X -> X]]
  BY <1>3, Zenon
<1>5. PICK f \in [0..N -> X] : Follows(f, start, N, G)
  BY <1>1, <1>2, <1>4, Recursion, Zenon
<1>6. \A j \in 0..N : j = 0 \/ (j \in 1..N /\ j - 1 \in 0..N /\ j # 0)
  BY <1>1
<1>7. \A j \in 0..N : f[j] = IF j = 0 THEN start ELSE Step(f[j - 1], j)
  BY <1>5, <1>6, Zenon DEF Follows
<1>8. f = [j \in 0..N |-> IF j = 0 THEN start ELSE Step(f[j - 1], j)]
  BY <1>5, <1>7, Zenon
<1>9. A = [j \in 0..N |-> IF j = 0 THEN start ELSE Step(A[j - 1], j)]
  BY <1>0, <1>8, Zenon
<1>10. 0 \in 0..N /\ N \in 0..N /\ \A j \in 1..N : j \in 0..N /\ j # 0
  BY <1>1
<1>11. A[0] \in X
  BY <1>2, <1>9, <1>10, Zenon
<1>12. ASSUME NEW j \in 1..N, A[j - 1] \in X PROVE A[j] \in X
  BY <1>3, <1>9, <1>10, <1>12, Zenon
<1>13. A[N] \in X
  BY <1>1, <1>10, <1>11, <1>12, Along, Zenon
<1> QED
  BY <1>13, Zenon DEF X, A, N

\* "getdata": the node that asked is as before
LEMMA PeerGetDataInv ==
  ASSUME IInv, NEW p \in Peer, PeerGetData(p)
  PROVE  IInv'
<1> DEFINE blocks == Head(requests[p]).blocks
<1>1. /\ HasRequest(p, "getdata") /\ UNCHANGED <<mapBlockIndex, haveData, tip, mapBlocksInFlight, nodeState>>
      /\ replies' = [replies EXCEPT ![p] = AfterAnswers(p, blocks)[Len(blocks)]]
      /\ peer' = [peer EXCEPT ![p].hashContinue = IF @ \in Range(blocks) THEN None ELSE @]
      /\ requests' = [requests EXCEPT ![p] = Tail(@)]
  BY Zenon DEF PeerGetData, blockVars
<1>2. Head(requests[p]) \in RequestMessage /\ Head(requests[p]).type = "getdata" /\ RequestInv'
  BY <1>1, RequestTaken, Zenon DEF IInv
<1>3. blocks \in Seq(Block)
  BY <1>2, RequestTypes, Zenon
<1> HIDE DEF blocks
<1>4. PICK s \in PeerOf(p) : s = peer[p]
  BY Zenon DEF IInv, PeerInv
<1>5. DOMAIN peer = Peer /\ peer[p] \in PeerOf(p) /\ replies[p] \in Seq(ReplyOf(p))
  BY Zenon DEF IInv, PeerInv, ReplyInv
<1>6. AfterAnswers(p, blocks)[Len(blocks)] \in Seq(ReplyOf(p))
  BY <1>3, <1>5, AnswersOK, Zenon
<1>7. s.tip \in Tips[p] /\ s.known \in SUBSET Block /\ s.hashContinue \in Block \cup {None}
  BY Zenon DEF PeerOf
<1>8. PICK h \in Block \cup {None} : h = IF s.hashContinue \in Range(blocks) THEN None ELSE s.hashContinue
  BY <1>7, Zenon
<1>9. PICK t : t = [s EXCEPT !.hashContinue = h]
  BY Zenon
<1>10. t \in PeerOf(p)
  <2>1. [s EXCEPT !.hashContinue = h] \in PeerOf(p)
    BY ONLY <1>7, s \in PeerOf(p), h \in Block \cup {None}, SetPeer, Zenon
  <2> QED
    BY <1>9, <2>1, Zenon
<1>11. peer' = [peer EXCEPT ![p] = t]
  BY <1>1, <1>4, <1>8, <1>9, Zenon
<1>12. DOMAIN peer' = Peer /\ peer'[p] = t /\ \A q \in Peer : q # p => peer'[q] = peer[q]
  BY <1>5, <1>11, Zenon
<1> QED
  BY <1>1, <1>2, <1>6, <1>10, <1>12, OtherEnd, Zenon

\* The peer announces a tip of its own
LEMMA PeerAdvancesInv ==
  ASSUME IInv, NEW p \in Peer, NEW b \in Block, PeerAdvances(p, b)
  PROVE  IInv'
<1> DEFINE told == p \in Connected /\ b \notin peer[p].known
<1>1. /\ UNCHANGED <<mapBlockIndex, haveData, tip, mapBlocksInFlight, nodeState, requests>> /\ b \in Tips[p]
      /\ replies' = [replies EXCEPT ![p] =
                       IF told THEN Append(@, [type |-> "inv", blocks |-> <<b>>]) ELSE @]
      /\ peer' = [peer EXCEPT ![p].tip = b, ![p].known = IF told THEN @ \cup {b} ELSE @]
  BY Zenon DEF PeerAdvances, blockVars
<1> HIDE DEF told
<1>2. RequestInv'
  BY <1>1, Zenon DEF IInv, RequestInv
<1>3. PICK s \in PeerOf(p) : s = peer[p]
  BY Zenon DEF IInv, PeerInv
<1>4. DOMAIN peer = Peer /\ replies[p] \in Seq(ReplyOf(p))
  BY Zenon DEF IInv, PeerInv, ReplyInv
<1>5. PICK r : r = IF told THEN Append(replies[p], [type |-> "inv", blocks |-> <<b>>]) ELSE replies[p]
  BY Zenon
<1>6. r \in Seq(ReplyOf(p))
  <2>1. <<b>> \in Seq(OnTips(p))
    BY <1>1, OnTipsFacts, OneMessage, Zenon
  <2>2. [type |-> "inv", blocks |-> <<b>>] \in ReplyOf(p)
    BY <2>1, ReplyTypes, Zenon
  <2>3. Append(replies[p], [type |-> "inv", blocks |-> <<b>>]) \in Seq(ReplyOf(p))
    BY <1>4, <2>2, AppendFacts, Zenon
  <2> QED
    BY <1>4, <1>5, <2>3, Zenon
<1>7. replies' = [replies EXCEPT ![p] = r]
  BY <1>1, <1>5, Zenon
<1>8. s.known \in SUBSET Block /\ s.hashContinue \in Block \cup {None}
  BY Zenon DEF PeerOf
<1>9. PICK k \in SUBSET Block : k = IF told THEN s.known \cup {b} ELSE s.known
  BY <1>8, Zenon
<1>10. PICK t : t = [s EXCEPT !.tip = b, !.known = k]
  BY Zenon
<1>11. t \in PeerOf(p)
  <2>1. [s EXCEPT !.tip = b, !.known = k] \in PeerOf(p)
    BY ONLY <1>1, <1>8, s \in PeerOf(p), k \in SUBSET Block, SetPeer, Zenon
  <2> QED
    BY <1>10, <2>1, Zenon
<1>12. DOMAIN peer' = Peer /\ peer'[p] = t /\ \A q \in Peer : q # p => peer'[q] = peer[q]
  <2>1. PICK u : u = [s EXCEPT !.tip = b]
    BY Zenon
  <2>2. u.known = s.known /\ t = [u EXCEPT !.known = k]
    BY ONLY <1>10, <2>1, s \in PeerOf(p), SMT DEF PeerOf
  <2>3. PICK f : f = [peer EXCEPT ![p].tip = b]
    BY Zenon
  <2>4. f = [peer EXCEPT ![p] = u]
    BY <1>3, <2>1, <2>3, Zenon
  <2>5. f[p] = u /\ DOMAIN f = Peer
    BY <1>4, <2>4, Zenon
  <2>6. peer' = [f EXCEPT ![p].known = IF told THEN @ \cup {b} ELSE @]
    BY <1>1, <2>3, Zenon
  <2>7. peer' = [f EXCEPT ![p] = t]
    BY <1>9, <2>2, <2>5, <2>6, Zenon
  <2> QED
    BY <1>4, <2>4, <2>5, <2>7, Zenon
<1>13. UNCHANGED <<mapBlockIndex, haveData, tip, mapBlocksInFlight, nodeState>>
  BY <1>1, Zenon
<1> QED
  BY <1>2, <1>6, <1>7, <1>11, <1>12, <1>13, OtherEnd, Zenon

\* Every step keeps the invariant
LEMMA StepIInv == IInv /\ [Next]_vars => IInv'
<1> SUFFICES ASSUME IInv, [Next]_vars PROVE IInv'
  BY Zenon
<1>1. CASE UNCHANGED vars
  <2>1. UNCHANGED <<mapBlockIndex, haveData, tip, mapBlocksInFlight, nodeState, requests, replies, peer>>
    BY <1>1, Zenon DEF vars, blockVars
  <2>2. FlightInv'
    BY <2>1, SameRefl, SameFlight, Zenon DEF IInv
  <2> QED
    BY <2>1, <2>2, Zenon DEF IInv, DataInv, StateInv, RequestInv, ReplyInv, PeerInv, Linked
<1>2. ASSUME NEW p \in Peer, Connect(p) PROVE IInv'
  BY <1>2, ConnectInv, Zenon
<1>3. ASSUME NEW p \in Peer, FinalizeNode(p) PROVE IInv'
  BY <1>3, FinalizeInv, Zenon
<1>4. ASSUME NEW p \in Peer, Receive(p) PROVE IInv'
  BY <1>4, InvInv, BlockUnlinkedInv, BlockNewInv, BlockKnownInv, Zenon DEF Receive
<1>5. ASSUME NEW p \in Peer, PeerAnswers(p) PROVE IInv'
  BY <1>5, PeerGetBlocksInv, PeerGetDataInv, Zenon DEF PeerAnswers
<1>6. ASSUME NEW p \in Peer, NEW recent \in BOOLEAN, NEW late \in BOOLEAN, SendMessages(p, recent, late) PROVE IInv'
  BY <1>6, SendMessagesInv, Zenon
<1>7. ASSUME NEW p \in Peer, NEW b \in Block, PeerAdvances(p, b) PROVE IInv'
  BY <1>7, PeerAdvancesInv, Zenon
<1>8. ASSUME NEW b \in Block, SubmitBlock(b) PROVE IInv'
  BY <1>8, SubmitBlockInv, Zenon
<1> QED
  BY <1>1, <1>2, <1>3, <1>4, <1>5, <1>6, <1>7, <1>8, Zenon DEF Next

\* So it always holds
LEMMA AlwaysIInv == Spec => []IInv
BY InitIInv, StepIInv, PTL DEF Spec

-----------------------------------------------------------------------------
(* The theorems *)

\* Whatever connections are lost, blocks come unasked or are submitted by the operator, the
\* map of the blocks in flight (mapBlocksInFlight) and the lists of the peers
\* (vBlocksInFlight) agree: no block is in flight from two peers or from a peer that is gone,
\* and no peer is asked for more than MAX_BLOCKS_IN_TRANSIT_PER_PEER blocks
THEOREM BlocksInFlight == Spec => []InFlightConsistent
<1>1. IInv => InFlightConsistent
  BY Zenon DEF IInv, FlightInv
<1> QED
  BY <1>1, AlwaysIInv, PTL

\* pindexLastCommonBlock starts as a guess (a block of this node's own chain) and moves while
\* FindNextBlocksToDownload walks towards the best block of the peer; it is always a block
\* that is here with all its ancestors, on a chain that the peer has
THEOREM LastCommonBlock == Spec => []CommonIsHeld
<1>1. IInv => CommonIsHeld
  <2> SUFFICES ASSUME IInv, NEW p \in Peer, nodeState[p].common # None
               PROVE  /\ Linked(nodeState[p].common, haveData)
                      /\ \E b \in Tips[p] : nodeState[p].common \in Chain[b]
    BY Zenon DEF CommonIsHeld
  <2>1. nodeState[p].common \in HeldBy(p, haveData) \cup {None}
    BY StateFields, Zenon DEF IInv, StateInv
  <2> QED
    BY <2>1, Zenon DEF HeldBy, OnTips
<1> QED
  BY <1>1, AlwaysIInv, PTL

-----------------------------------------------------------------------------
(* The masternode sync.  NoAdvanceBeforeChain is not inductive: the step    *)
(* to the stage after the list is taken in the loop over the peers, which   *)
(* does not look at the flag.  It relies on the gate, which was passed in   *)
(* an earlier step, other threads having run in between; what they cannot   *)
(* have done is clear the flag and leave the stage.                         *)

\* Past the gate, a stage other than the first two means that the flag was set there
GatePassed == ~regtest /\ pc = "loop" /\ stage \notin {"initial", "sporks"} => fBlockchainSynced

StageInv == stage \in Stage /\ NoAdvanceBeforeChain /\ GatePassed

\* The stages that the chain matters to
LEMMA NextStages ==
  ASSUME stage \in Stage
  PROVE  /\ NextStage[stage] \in Stage
         /\ stage \in {"initial", "sporks"} => NextStage[stage] \in {"sporks", "list"}
BY DEF Stage, Asset, NextStage

\* IsBlockchainSynced: the flag is cleared only together with the stage
LEMMA FlagKept ==
  ASSUME StageInv, NEW res \in BOOLEAN, IsBlockchainSynced(res)
  PROVE  /\ stage' \in Stage /\ fBlockchainSynced' = res
         /\ stage' = "initial" \/ (stage' = stage /\ (fBlockchainSynced => fBlockchainSynced'))
BY DEF StageInv, IsBlockchainSynced, WakeUp, Reset, syncVars, Stage

\* Every step of Process and of the other threads keeps the invariant
LEMMA StageStep == StageInv /\ [SyncNext]_masternodeSyncVars => StageInv'
<1> SUFFICES ASSUME StageInv, [SyncNext]_masternodeSyncVars PROVE StageInv'
  OBVIOUS
<1> USE DEF StageInv, NoAdvanceBeforeChain, GatePassed
<1>1. CASE Sleep1s
  BY <1>1 DEF Sleep1s, chainVars
<1>2. CASE ProcessNothing \/ ProcessContinue \/ LoopNothing
  BY <1>2 DEF ProcessNothing, ProcessContinue, LoopNothing, Return, syncVars, chainVars
<1>3. CASE ProcessStart
  BY <1>3 DEF ProcessStart, chainVars, Stage
<1>4. CASE ProcessGate
  <2>1. CASE regtest
    BY <1>4, <2>1 DEF ProcessGate, syncVars, chainVars
  <2>2. CASE ~regtest
    <3>1. PICK res \in BOOLEAN :
            IsBlockchainSynced(res) /\ pc' = IF GateStops(res) THEN "after" ELSE "loop"
      BY <1>4, <2>2 DEF ProcessGate
    <3>2. regtest' = regtest
      BY <1>4 DEF ProcessGate
    <3> QED
      BY <3>1, <3>2, FlagKept DEF GateStops
  <2> QED
    BY <2>1, <2>2
<1>5. CASE LoopRegtest
  BY <1>5 DEF LoopRegtest, Return, chainVars, Stage
<1>6. CASE LoopQuiet \/ LoopNoBudget
  BY <1>6, NextStages DEF LoopQuiet, LoopNoBudget, Advance, Return, chainVars, Asset
<1>7. ASSUME NEW p \in Node, LoopSporks(p) PROVE StageInv'
  BY <1>7, NextStages DEF LoopSporks, Advance, Return, chainVars
<1>8. ASSUME NEW p \in Node, LoopTimeout(p) PROVE StageInv'
  BY <1>8, NextStages DEF LoopTimeout, Advance, Return, chainVars, Stage
<1>9. ASSUME NEW p \in Node, LoopAsk(p) PROVE StageInv'
  BY <1>9 DEF LoopAsk, Return, chainVars
<1>10. CASE AfterProcess
  BY <1>10, FlagKept DEF AfterProcess
<1>11. CASE MessageHandler
  BY <1>11, FlagKept DEF MessageHandler, threadVars
<1>12. CASE MnsyncReset
  BY <1>12 DEF MnsyncReset, Reset, chainVars, threadVars, Stage
<1>13. CASE SleepMode \/ ChainReady
  BY <1>13 DEF SleepMode, ChainReady, syncVars, threadVars
<1>14. ASSUME NEW i \in Item, Added(i) PROVE StageInv'
  BY <1>14 DEF Added, chainVars, threadVars
<1>15. ASSUME NEW p \in Node, ConnectNode(p) \/ DisconnectNode(p) PROVE StageInv'
  BY <1>15 DEF ConnectNode, DisconnectNode, syncVars, chainVars, threadVars
<1>16. CASE UNCHANGED masternodeSyncVars
  BY <1>16 DEF masternodeSyncVars, syncVars, chainVars, threadVars
<1> QED
  BY <1>1, <1>2, <1>3, <1>4, <1>5, <1>6, <1>7, <1>8, <1>9, <1>10, <1>11, <1>12, <1>13, <1>14,
     <1>15, <1>16 DEF SyncNext, Process, Loop

\* No stage after the masternode list is entered, and the sync neither finishes nor fails,
\* unless IsBlockchainSynced has found the chain synced since the last sleep, although
\* Process and the message handler share the stage and the flag without a lock
THEOREM ChainBeforeMasternodes == SyncSpec => []NoAdvanceBeforeChain
<1>1. SyncInit => StageInv
  BY DEF SyncInit, StageInv, NoAdvanceBeforeChain, GatePassed, Stage
<1>2. StageInv => NoAdvanceBeforeChain
  BY DEF StageInv
<1> QED
  BY <1>1, <1>2, StageStep, PTL DEF SyncSpec
=============================================================================
