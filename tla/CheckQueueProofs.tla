-------------------------- MODULE CheckQueueProofs --------------------------
(***************************************************************************)
(* Proofs about the queue of script checks, for any number of workers,     *)
(* checks, blocks and failures and any batch size: the counters are exact, *)
(* and Wait returns whether all the checks of the block succeed.           *)
(*                                                                         *)
(* Neither is inductive.  That the queue is idle between two blocks needs  *)
(* that nobody holds an empty batch; that the result is right needs what   *)
(* fAllOk says while the block is being checked, about the checks that are *)
(* no longer pending, and what the result of a batch says although a       *)
(* thread may have begun it after some other batch had failed.             *)
(***************************************************************************)
EXTENDS CheckQueue, FiniteSetTheorems, TLAPS

Place == {"out", "adding", "first", "waiting", "woken", "working", "done", "gone"}

QueueTypeOK ==
  /\ queue \in SUBSET Check /\ added \in SUBSET Check
  /\ nIdle \in Int /\ nTotal \in Int /\ nTodo \in Int /\ fAllOk \in BOOLEAN
  /\ pc \in [Thread -> Place]
  /\ vChecks \in [Thread -> SUBSET Check]
  /\ fOk \in [Thread -> BOOLEAN]

Idle == {t \in Thread : pc[t] \in {"waiting", "woken", "gone"}}
InLoop == {t \in Thread : pc[t] \notin {"first", "out", "adding"}}

Counted ==
  /\ nTodo = Cardinality(Pending)
  /\ nIdle = Cardinality(Idle)
  /\ nTotal = Cardinality(InLoop)

\* A check is in one place, and a thread has a batch from taking it to cleaning up
OnePlace ==
  /\ \A t \in Thread : vChecks[t] \cap queue = {}
  /\ \A t, u \in Thread : t # u => vChecks[t] \cap vChecks[u] = {}
  /\ \A t \in Thread : vChecks[t] # {} <=> pc[t] \in {"working", "done"}

\* Between two blocks nothing is pending and no failure is remembered
Between == pc[Master] = "out" => Pending = {} /\ fAllOk

\* During a block fAllOk tells whether the checks that are no longer pending succeed
During ==
  pc[Master] # "out" =>
    /\ Pending \subseteq added
    /\ fAllOk <=> (added \ Pending) \cap bad = {}

\* The result of a batch is that of its checks, unless some other batch has failed
Batch(t) ==
  /\ pc[t] = "working" /\ fAllOk => fOk[t]
  /\ pc[t] = "done" /\ fOk[t] => vChecks[t] \cap bad = {}
  /\ pc[t] = "done" /\ fAllOk /\ ~fOk[t] => vChecks[t] \cap bad # {}

Batches == \A t \in Thread : Batch(t)

IInv == QueueTypeOK /\ Counted /\ OnePlace /\ Between /\ During /\ Batches

-----------------------------------------------------------------------------
(* Counting *)

\* Threads, and checks of a block, can be counted
LEMMA Finite ==
  /\ \A S \in SUBSET Thread : IsFiniteSet(S) /\ Cardinality(S) \in Nat
  /\ \A S \in SUBSET Check : IsFiniteSet(S) /\ Cardinality(S) \in Nat
<1>1. IsFiniteSet(Thread)
  BY QueueAssumption, FS_AddElement DEF Thread
<1>2. \A S \in SUBSET Thread : IsFiniteSet(S) /\ Cardinality(S) \in Nat
  BY <1>1, FS_Subset, FS_CardinalityType
<1>3. \A S \in SUBSET Check : IsFiniteSet(S) /\ Cardinality(S) \in Nat
  BY QueueAssumption, FS_Subset, FS_CardinalityType
<1> QED
  BY <1>2, <1>3

\* One more, one less
LEMMA CountThread ==
  ASSUME NEW S \in SUBSET Thread, NEW t \in Thread
  PROVE  /\ Cardinality(S \cup {t}) = Cardinality(S) + (IF t \in S THEN 0 ELSE 1)
         /\ Cardinality(S \ {t}) = Cardinality(S) - (IF t \in S THEN 1 ELSE 0)
<1>1. IsFiniteSet(S) /\ Cardinality(S) \in Nat
  BY Finite
<1>2. Cardinality(S \cup {t}) = IF t \in S THEN Cardinality(S) ELSE Cardinality(S) + 1
  BY <1>1, FS_AddElement
<1>3. Cardinality(S \ {t}) = IF t \in S THEN Cardinality(S) - 1 ELSE Cardinality(S)
  BY <1>1, FS_RemoveElement
<1> QED
  BY <1>1, <1>2, <1>3

\* Checks added to others, or taken from them
LEMMA CountChecks ==
  ASSUME NEW S \in SUBSET Check, NEW T \in SUBSET Check
  PROVE  /\ S \cap T = {} => Cardinality(S \cup T) = Cardinality(S) + Cardinality(T)
         /\ T \subseteq S => Cardinality(S \ T) = Cardinality(S) - Cardinality(T)
<1>1. IsFiniteSet(S) /\ IsFiniteSet(T) /\ Cardinality(S) \in Nat /\ Cardinality(T) \in Nat
  BY Finite
<1>2. ASSUME S \cap T = {} PROVE Cardinality(S \cup T) = Cardinality(S) + Cardinality(T)
  <2>1. Cardinality(S \cup T) = Cardinality(S) + Cardinality(T) - Cardinality(S \cap T)
    BY <1>1, FS_Union
  <2>2. Cardinality(S \cap T) = 0
    BY <1>2, FS_EmptySet
  <2> QED
    BY <1>1, <2>1, <2>2
<1>3. ASSUME T \subseteq S PROVE Cardinality(S \ T) = Cardinality(S) - Cardinality(T)
  <2>1. Cardinality(S \ T) = Cardinality(S) - Cardinality(S \cap T)
    BY <1>1, FS_Difference
  <2>2. S \cap T = T
    BY <1>3
  <2> QED
    BY <2>1, <2>2
<1> QED
  BY <1>2, <1>3

\* A thread takes at least one check
LEMMA BatchNotEmpty ==
  ASSUME QueueTypeOK, NEW t \in Thread, NEW batch \in kSubset(nNow(t), queue),
         TotalAfter(t) + IdleAfter(t) + 1 \in Nat \ {0}
  PROVE  batch \in SUBSET queue /\ batch # {}
<1> DEFINE share == Cardinality(queue) \div (TotalAfter(t) + IdleAfter(t) + 1)
           least == Min({nBatchSize, share})
<1>1. Cardinality(queue) \in Nat
  BY Finite DEF QueueTypeOK
<1>2. share \in Int
  BY <1>1
<1> HIDE DEF share
<1>3. least \in Int
  <2>1. \E x \in {nBatchSize, share} : \A y \in {nBatchSize, share} : x =< y
    BY <1>2, QueueAssumption
  <2>2. least \in {nBatchSize, share}
    BY <2>1 DEF Min
  <2> QED
    BY <2>2, <1>2, QueueAssumption
<1> HIDE DEF least
<1>4. Max({1, least}) >= 1
  <2>1. \E x \in {1, least} : \A y \in {1, least} : x >= y
    BY <1>3
  <2> QED
    BY <2>1 DEF Max
<1>5. batch \in SUBSET queue /\ Cardinality(batch) >= 1
  BY <1>4 DEF kSubset, nNow, least, share
<1>6. Cardinality({}) = 0
  BY FS_EmptySet
<1> QED
  BY <1>5, <1>6

-----------------------------------------------------------------------------
(* The steps *)

\* What the invariant is about
kept == <<queue, nIdle, nTotal, nTodo, fAllOk, pc, vChecks, fOk, added, bad>>

\* At first every worker is outside and the queue is empty
LEMMA InitIInv == Init => IInv
<1> SUFFICES ASSUME Init PROVE IInv
  OBVIOUS
<1>1. QueueTypeOK
  BY DEF Init, QueueTypeOK, Place
<1>2. Pending = {} /\ Idle = {} /\ InLoop = {}
  BY DEF Init, Pending, Idle, InLoop
<1>3. Counted
  BY <1>2, FS_EmptySet DEF Init, Counted
<1>4. OnePlace /\ Batches
  BY DEF Init, OnePlace, Batches, Batch
<1>5. Between /\ During
  BY <1>2 DEF Init, Between, During, Thread
<1> QED
  BY <1>1, <1>3, <1>4, <1>5 DEF IInv

\* The result of the last block and the number of blocks do not matter
LEMMA FrameIInv == IInv /\ UNCHANGED kept => IInv'
BY DEF IInv, kept, QueueTypeOK, Counted, OnePlace, Between, During, Batches, Batch, Pending,
       Idle, InLoop

\* Pending is a set of checks
LEMMA PendingType == QueueTypeOK => Pending \in SUBSET Check
BY DEF QueueTypeOK, Pending

\* A thread only changes its place, within those that are counted alike and hold no batch
LEMMA PlaceIInv ==
  ASSUME IInv, NEW p \in [Thread -> Place], pc' = p,
         \A t \in Thread : p[t] # pc[t] =>
            \/ pc[t] = "waiting" /\ p[t] \in {"woken", "gone"}
            \/ t = Master /\ pc[t] = "adding" /\ p[t] = "first",
         UNCHANGED <<queue, nIdle, nTotal, nTodo, fAllOk, vChecks, fOk, added, bad>>
  PROVE  IInv'
<1>1. QueueTypeOK'
  BY DEF IInv, QueueTypeOK
<1>2. Pending' = Pending /\ Idle' = Idle /\ InLoop' = InLoop
  BY DEF Pending, Idle, InLoop
<1>3. Counted'
  BY <1>2 DEF IInv, Counted
<1>4. OnePlace' /\ Batches'
  BY DEF IInv, OnePlace, Batches, Batch
<1>5. (pc[Master] = "out") <=> (pc'[Master] = "out")
  BY DEF Thread
<1>6. Between' /\ During'
  BY <1>2, <1>5 DEF IInv, Between, During
<1> QED
  BY <1>1, <1>3, <1>4, <1>6 DEF IInv

\* CCheckQueueControl: the queue is idle, so nothing is known of the new block yet
LEMMA NewControlIInv ==
  ASSUME IInv, NewControl
  PROVE  IInv'
<1>1. /\ pc[Master] = "out" /\ pc' = [pc EXCEPT ![Master] = "adding"] /\ added' = {}
      /\ UNCHANGED <<queue, nIdle, nTotal, nTodo, fAllOk, vChecks, fOk>>
  BY DEF NewControl, queueVars
<1>2. Master \in Thread
  BY DEF Thread
<1>3. QueueTypeOK'
  BY <1>1, <1>2 DEF IInv, QueueTypeOK, Place
<1>4. pc'[Master] = "adding" /\ \A t \in Thread : t # Master => pc'[t] = pc[t]
  BY <1>1, <1>2 DEF IInv, QueueTypeOK
<1>5. Pending = {} /\ fAllOk /\ Pending' = {}
  BY <1>1 DEF IInv, Between, Pending
<1>6. \A t \in Thread : vChecks[t] = {} /\ pc[t] \notin {"working", "done"}
  BY <1>5 DEF IInv, OnePlace, Pending
<1>7. Idle' = Idle /\ InLoop' = InLoop
  BY <1>1, <1>4 DEF Idle, InLoop
<1>8. Counted'
  BY <1>1, <1>5, <1>7 DEF IInv, Counted
<1>9. OnePlace' /\ Batches'
  BY <1>1, <1>4, <1>6 DEF IInv, OnePlace, Batches, Batch
<1>10. Between' /\ During'
  BY <1>1, <1>4, <1>5 DEF Between, During
<1> QED
  BY <1>3, <1>8, <1>9, <1>10 DEF IInv

\* Add: new checks are pending, and some idle workers are woken
LEMMA AddIInv ==
  ASSUME IInv, NEW cs \in SUBSET Check, Add(cs)
  PROVE  IInv'
<1>1. /\ pc[Master] = "adding" /\ cs \cap added = {} /\ queue' = queue \cup cs
      /\ nTodo' = nTodo + Cardinality(cs) /\ added' = added \cup cs
      /\ UNCHANGED <<nIdle, nTotal, fAllOk, vChecks, fOk, bad>>
  BY DEF Add
<1>2. PICK ws \in SUBSET Waiting : pc' = [t \in Thread |-> IF t \in ws THEN "woken" ELSE pc[t]]
  BY DEF Add, NotifiedOf
<1>3. \A t \in ws : pc[t] = "waiting" /\ t \in Thread
  BY DEF Waiting, Thread
<1>4. /\ \A t \in Thread : pc'[t] = pc[t] \/ (pc[t] = "waiting" /\ pc'[t] = "woken")
      /\ pc'[Master] = "adding"
  BY <1>1, <1>2, <1>3 DEF Thread
<1>5. QueueTypeOK'
  <2>1. pc' \in [Thread -> Place]
    BY <1>2 DEF IInv, QueueTypeOK, Place
  <2>2. Cardinality(cs) \in Int
    BY Finite
  <2> QED
    BY <1>1, <2>1, <2>2 DEF IInv, QueueTypeOK
<1>6. Pending' = Pending \cup cs /\ Pending \cap cs = {} /\ Pending \subseteq added
  BY <1>1 DEF IInv, During, Pending
<1>7. Idle' = Idle /\ InLoop' = InLoop
  BY <1>4 DEF Idle, InLoop
<1>8. Counted'
  <2>1. Cardinality(Pending \cup cs) = Cardinality(Pending) + Cardinality(cs)
    BY <1>6, CountChecks, PendingType DEF IInv
  <2> QED
    BY <1>1, <1>6, <1>7, <2>1 DEF IInv, Counted
<1>9. OnePlace'
  <2>1. \A t \in Thread : vChecks[t] \cap cs = {}
    BY <1>6 DEF Pending
  <2> QED
    BY <1>1, <1>4, <2>1 DEF IInv, OnePlace
<1>10. Batches'
  BY <1>1, <1>4 DEF IInv, Batches, Batch
<1>11. During'
  <2>1. added' \ Pending' = added \ Pending
    BY <1>1, <1>6
  <2> QED
    BY <1>1, <1>6, <2>1 DEF IInv, During
<1> QED
  BY <1>4, <1>5, <1>8, <1>9, <1>10, <1>11 DEF IInv, Between

\* Work: the batch stays, its result becomes known
LEMMA WorkIInv ==
  ASSUME IInv, NEW t \in Thread, Work(t)
  PROVE  IInv'
<1>1. /\ pc[t] = "working" /\ pc' = [pc EXCEPT ![t] = "done"]
      /\ fOk' = [fOk EXCEPT ![t] = fOk[t] /\ vChecks[t] \cap bad = {}]
      /\ UNCHANGED <<queue, nIdle, nTotal, nTodo, fAllOk, vChecks, added, bad>>
  BY DEF Work, queueVars
<1>2. QueueTypeOK'
  BY <1>1 DEF IInv, QueueTypeOK, Place
<1>3. pc'[t] = "done" /\ \A u \in Thread : u # t => pc'[u] = pc[u] /\ fOk'[u] = fOk[u]
  BY <1>1 DEF IInv, QueueTypeOK
<1>4. fOk'[t] <=> fOk[t] /\ vChecks[t] \cap bad = {}
  BY <1>1 DEF IInv, QueueTypeOK
<1>5. Pending' = Pending /\ Idle' = Idle /\ InLoop' = InLoop
  BY <1>1, <1>3 DEF Pending, Idle, InLoop
<1>6. Counted'
  BY <1>1, <1>5 DEF IInv, Counted
<1>7. OnePlace'
  BY <1>1, <1>3 DEF IInv, OnePlace
<1>8. (pc'[Master] = "out") <=> (pc[Master] = "out")
  BY <1>1, <1>3 DEF Thread
<1>9. Between' /\ During'
  BY <1>1, <1>5, <1>8 DEF IInv, Between, During
<1>10. Batches'
  <2> SUFFICES ASSUME NEW u \in Thread PROVE Batch(u)'
    BY DEF Batches
  <2>1. Batch(u)
    BY DEF IInv, Batches
  <2>2. CASE u = t
    BY <1>1, <1>3, <1>4, <2>1, <2>2 DEF Batch
  <2>3. CASE u # t
    BY <1>1, <1>3, <2>1, <2>3 DEF Batch
  <2> QED
    BY <2>2, <2>3
<1> QED
  BY <1>2, <1>6, <1>7, <1>9, <1>10 DEF IInv

\* The clean-up at the head of a critical section: what is pending without the batch of t,
\* and who is counted once t is in the loop and awake
LEMMA CleanUp ==
  ASSUME IInv, NEW t \in Thread, Enters(t)
  PROVE  /\ TodoAfter(t) = Cardinality(Pending \ vChecks[t])
         /\ TotalAfter(t) = Cardinality(InLoop \cup {t})
         /\ IdleAfter(t) = Cardinality(Idle \ {t})
         /\ AllOkAfter(t) \in BOOLEAN
         /\ AllOkAfter(t) => fAllOk
         /\ pc[Master] = "out" => Pending \ vChecks[t] = {} /\ AllOkAfter(t)
         /\ pc[Master] # "out" =>
              (AllOkAfter(t) <=> (added \ (Pending \ vChecks[t])) \cap bad = {})
<1>1. QueueTypeOK /\ Counted /\ Batch(t)
  BY DEF IInv, Batches
<1>2. TodoAfter(t) = Cardinality(Pending \ vChecks[t])
  <2>1. vChecks[t] \subseteq Pending /\ vChecks[t] \in SUBSET Check
    BY <1>1 DEF Pending, QueueTypeOK
  <2> QED
    BY <1>1, <2>1, CountChecks, PendingType DEF TodoAfter, Counted
<1>3. TotalAfter(t) = Cardinality(InLoop \cup {t})
  <2>1. InLoop \in SUBSET Thread /\ (t \in InLoop <=> pc[t] # "first")
    BY DEF InLoop, Enters
  <2>2. Cardinality(InLoop) \in Nat
    BY <2>1, Finite
  <2> QED
    BY <1>1, <2>1, <2>2, CountThread DEF TotalAfter, Counted
<1>4. IdleAfter(t) = Cardinality(Idle \ {t})
  <2>1. Idle \in SUBSET Thread /\ (t \in Idle <=> pc[t] = "woken")
    BY DEF Idle, Enters
  <2>2. Cardinality(Idle) \in Nat
    BY <2>1, Finite
  <2> QED
    BY <1>1, <2>1, <2>2, CountThread DEF IdleAfter, Counted
<1>5. AllOkAfter(t) \in BOOLEAN /\ (AllOkAfter(t) => fAllOk)
  BY <1>1 DEF AllOkAfter, QueueTypeOK
<1>6. pc[t] # "done" => vChecks[t] = {}
  BY DEF IInv, OnePlace, Enters
<1>7. ASSUME pc[Master] = "out" PROVE Pending \ vChecks[t] = {} /\ AllOkAfter(t)
  <2>1. Pending = {} /\ fAllOk
    BY <1>7 DEF IInv, Between
  <2>2. pc[t] # "done"
    BY <2>1 DEF IInv, OnePlace, Pending
  <2> QED
    BY <2>1, <2>2 DEF AllOkAfter
<1>8. ASSUME pc[Master] # "out"
      PROVE  AllOkAfter(t) <=> (added \ (Pending \ vChecks[t])) \cap bad = {}
  <2>1. Pending \subseteq added /\ (fAllOk <=> (added \ Pending) \cap bad = {})
    BY <1>8 DEF IInv, During
  <2>2. added \ (Pending \ vChecks[t]) = (added \ Pending) \cup vChecks[t]
    BY <2>1 DEF Pending
  <2>3. CASE pc[t] = "done"
    BY <1>1, <2>1, <2>2, <2>3 DEF AllOkAfter, Batch
  <2>4. CASE pc[t] # "done"
    BY <1>6, <2>1, <2>2, <2>4 DEF AllOkAfter
  <2> QED
    BY <2>3, <2>4
<1> QED
  BY <1>2, <1>3, <1>4, <1>5, <1>7, <1>8

\* The rest of a critical section that does not return: t takes a batch and works, or it
\* takes nothing and waits
LEMMA TurnIInv ==
  ASSUME IInv, NEW t \in Thread, Enters(t),
         NEW batch \in SUBSET queue, NEW to \in {"waiting", "working"},
         to = "working" <=> batch # {},
         Moves(t, to),
         queue' = queue \ batch, vChecks' = [vChecks EXCEPT ![t] = batch],
         fAllOk' = AllOkAfter(t), nTodo' = TodoAfter(t), nTotal' = TotalAfter(t),
         nIdle' = IdleAfter(t) + (IF to = "waiting" THEN 1 ELSE 0),
         fOk' = IF to = "working" THEN [fOk EXCEPT ![t] = AllOkAfter(t)] ELSE fOk,
         UNCHANGED <<added, bad>>
  PROVE  IInv'
<1>1. /\ pc' \in [Thread -> Place] /\ pc'[t] = to
      /\ \A u \in Thread : u # t => pc'[u] = pc[u] \/ (pc[u] = "waiting" /\ pc'[u] = "woken")
  BY DEF IInv, QueueTypeOK, Moves, Notified, Place
<1>2. /\ vChecks' \in [Thread -> SUBSET Check] /\ vChecks'[t] = batch
      /\ \A u \in Thread : u # t => vChecks'[u] = vChecks[u]
  BY DEF IInv, QueueTypeOK
<1>3. /\ fOk' \in [Thread -> BOOLEAN] /\ (to = "working" => fOk'[t] = AllOkAfter(t))
      /\ \A u \in Thread : u # t => fOk'[u] = fOk[u]
  BY CleanUp DEF IInv, QueueTypeOK
<1>4. Pending' = Pending \ vChecks[t]
  <2>1. Pending = queue \cup vChecks[t] \cup UNION {vChecks[u] : u \in Thread \ {t}}
    BY DEF Pending
  <2>2. vChecks[t] \cap (queue \cup UNION {vChecks[u] : u \in Thread \ {t}}) = {}
    BY DEF IInv, OnePlace
  <2>3. Pending' = queue' \cup batch \cup UNION {vChecks[u] : u \in Thread \ {t}}
    BY <1>2 DEF Pending
  <2> QED
    BY <2>1, <2>2, <2>3
<1>5. Counted'
  <2>1. nTodo' = Cardinality(Pending')
    BY <1>4, CleanUp
  <2>2. nTotal' = Cardinality(InLoop')
    <3>1. InLoop' = InLoop \cup {t}
      BY <1>1 DEF InLoop
    <3> QED
      BY <3>1, CleanUp
  <2>3. nIdle' = Cardinality(Idle')
    <3>1. Idle \ {t} \in SUBSET Thread /\ Cardinality(Idle \ {t}) \in Nat
      BY Finite DEF Idle
    <3>2. CASE to = "waiting"
      <4>1. Idle' = (Idle \ {t}) \cup {t}
        BY <1>1, <3>2 DEF Idle
      <4>2. Cardinality((Idle \ {t}) \cup {t}) = Cardinality(Idle \ {t}) + 1
        BY <3>1, CountThread
      <4>3. nIdle' = Cardinality(Idle \ {t}) + 1
        BY <3>2, CleanUp
      <4> QED
        BY <4>1, <4>2, <4>3
    <3>3. CASE to = "working"
      <4>1. Idle' = Idle \ {t}
        BY <1>1, <3>3 DEF Idle
      <4>2. nIdle' = IdleAfter(t) + 0
        BY <3>3
      <4>3. IdleAfter(t) = Cardinality(Idle \ {t})
        BY CleanUp
      <4> QED
        BY <3>1, <4>1, <4>2, <4>3
    <3> QED
      BY <3>2, <3>3
  <2> QED
    BY <2>1, <2>2, <2>3 DEF Counted
<1>6. QueueTypeOK'
  <2>1. nTodo' \in Int /\ nTotal' \in Int /\ nIdle' \in Int
    <3>1. Pending \ vChecks[t] \in SUBSET Check
      BY PendingType DEF IInv
    <3>2. InLoop \cup {t} \in SUBSET Thread /\ Idle \ {t} \in SUBSET Thread
      BY DEF InLoop, Idle
    <3>3. TodoAfter(t) \in Int /\ TotalAfter(t) \in Int /\ IdleAfter(t) \in Int
      <4>1. /\ TodoAfter(t) = Cardinality(Pending \ vChecks[t])
            /\ TotalAfter(t) = Cardinality(InLoop \cup {t})
            /\ IdleAfter(t) = Cardinality(Idle \ {t})
        BY CleanUp
      <4> QED
        BY <3>1, <3>2, <4>1, Finite
    <3> QED
      BY <3>3
  <2> QED
    BY <1>1, <1>2, <1>3, <2>1, CleanUp DEF IInv, QueueTypeOK
<1>7. OnePlace'
  <2>1. \A u \in Thread : vChecks'[u] \cap queue' = {}
    BY <1>2 DEF IInv, OnePlace
  <2>2. \A u, v \in Thread : u # v => vChecks'[u] \cap vChecks'[v] = {}
    BY <1>2 DEF IInv, OnePlace
  <2>3. \A u \in Thread : vChecks'[u] # {} <=> pc'[u] \in {"working", "done"}
    BY <1>1, <1>2 DEF IInv, OnePlace
  <2> QED
    BY <2>1, <2>2, <2>3 DEF OnePlace
<1>8. (pc'[Master] = "out") <=> (pc[Master] = "out")
  BY <1>1 DEF Enters, Thread
<1>9. Between' /\ During'
  <2>1. Between'
    BY <1>4, <1>8, CleanUp DEF Between
  <2>2. During'
    BY <1>4, <1>8, CleanUp DEF IInv, During
  <2> QED
    BY <2>1, <2>2
<1>10. Batches'
  <2> SUFFICES ASSUME NEW u \in Thread PROVE Batch(u)'
    BY DEF Batches
  <2>1. Batch(u) /\ (fAllOk' => fAllOk)
    BY CleanUp DEF IInv, Batches
  <2>2. CASE u = t
    BY <1>1, <1>3, <2>2 DEF Batch
  <2>3. CASE u # t
    BY <1>1, <1>2, <1>3, <2>1, <2>3 DEF Batch
  <2> QED
    BY <2>2, <2>3
<1> QED
  BY <1>5, <1>6, <1>7, <1>9, <1>10 DEF IInv

\* When the master returns, nothing is pending but its own batch, which it has cleaned up
LEMMA NothingLeft ==
  ASSUME IInv, LoopReturns
  PROVE  /\ Pending \ vChecks[Master] = {}
         /\ result' <=> added \cap bad = {}
<1>1. Master \in Thread /\ Enters(Master) /\ TodoAfter(Master) = 0 /\ result' = AllOkAfter(Master)
  BY DEF LoopReturns, Thread
<1>2. Pending \ vChecks[Master] = {}
  <2>1. Cardinality(Pending \ vChecks[Master]) = 0
    BY <1>1, CleanUp
  <2>2. IsFiniteSet(Pending \ vChecks[Master])
    BY PendingType, Finite DEF IInv
  <2> QED
    BY <2>1, <2>2, FS_EmptySet
<1>3. pc[Master] # "out"
  BY <1>1 DEF Enters
<1>4. AllOkAfter(Master) <=> (added \ (Pending \ vChecks[Master])) \cap bad = {}
  BY <1>1, <1>3, CleanUp
<1>5. added \ (Pending \ vChecks[Master]) = added
  BY <1>2
<1> QED
  BY <1>1, <1>2, <1>4, <1>5

\* The master leaves Loop and resets fAllOk
LEMMA ReturnsIInv ==
  ASSUME IInv, LoopReturns
  PROVE  IInv'
<1>1. /\ Enters(Master) /\ queue = {} /\ fAllOk' = TRUE /\ nTodo' = 0
      /\ nTotal' = TotalAfter(Master) - 1 /\ nIdle' = IdleAfter(Master)
      /\ pc' = [pc EXCEPT ![Master] = "out"] /\ vChecks' = [vChecks EXCEPT ![Master] = {}]
      /\ UNCHANGED <<queue, fOk, added, bad>>
  BY DEF LoopReturns
<1>2. Master \in Thread
  BY DEF Thread
<1>3. /\ pc' \in [Thread -> Place] /\ pc'[Master] = "out"
      /\ \A t \in Thread : t # Master => pc'[t] = pc[t]
      /\ vChecks' \in [Thread -> SUBSET Check] /\ vChecks'[Master] = {}
      /\ \A t \in Thread : t # Master => vChecks'[t] = vChecks[t]
  BY <1>1, <1>2 DEF IInv, QueueTypeOK, Place
<1>4. \A t \in Thread : t # Master => vChecks[t] = {}
  <2>1. \A t \in Thread : vChecks[t] \subseteq vChecks[Master]
    BY NothingLeft DEF Pending
  <2> QED
    BY <1>2, <2>1 DEF IInv, OnePlace
<1>5. \A t \in Thread : vChecks'[t] = {} /\ pc'[t] \notin {"working", "done"}
  BY <1>3, <1>4 DEF IInv, OnePlace
<1>6. Pending' = {}
  BY <1>1, <1>5 DEF Pending
<1>7. nTotal' = Cardinality(InLoop') /\ nTotal' \in Int
  <2>1. InLoop \cup {Master} \in SUBSET Thread
    BY <1>2 DEF InLoop
  <2>2. InLoop' = (InLoop \cup {Master}) \ {Master}
    BY <1>3 DEF InLoop
  <2>3. TotalAfter(Master) = Cardinality(InLoop \cup {Master})
    BY <1>1, <1>2, CleanUp
  <2>4. Cardinality(InLoop \cup {Master}) \in Nat
    BY <2>1, Finite
  <2>5. Cardinality((InLoop \cup {Master}) \ {Master}) = Cardinality(InLoop \cup {Master}) - 1
    BY <1>2, <2>1, CountThread
  <2> QED
    BY <1>1, <2>2, <2>3, <2>4, <2>5
<1>8. nIdle' = Cardinality(Idle') /\ nIdle' \in Int
  <2>1. Idle' = Idle \ {Master} /\ Idle \ {Master} \in SUBSET Thread
    BY <1>3 DEF Idle
  <2>2. IdleAfter(Master) = Cardinality(Idle \ {Master})
    BY <1>1, <1>2, CleanUp
  <2> QED
    BY <1>1, <2>1, <2>2, Finite
<1>9. QueueTypeOK'
  BY <1>1, <1>3, <1>7, <1>8 DEF IInv, QueueTypeOK
<1>10. Counted'
  BY <1>1, <1>6, <1>7, <1>8, FS_EmptySet DEF Counted
<1>11. OnePlace' /\ Batches'
  BY <1>5 DEF OnePlace, Batches, Batch
<1>12. Between' /\ During'
  BY <1>1, <1>3, <1>6 DEF Between, During
<1> QED
  BY <1>9, <1>10, <1>11, <1>12 DEF IInv

\* A critical section of Loop after which the thread waits or works
LEMMA LoopIInv ==
  ASSUME IInv, NEW t \in Thread, Loop(t)
  PROVE  IInv'
<1>1. CASE LoopWaits(t)
  <2>1. queue' = queue \ {} /\ {} \in SUBSET queue
    BY <1>1 DEF LoopWaits
  <2>2. nIdle' = IdleAfter(t) + 1 /\ fOk' = fOk /\ Moves(t, "waiting")
    BY <1>1 DEF LoopWaits
  <2>3. "waiting" # "working"
    OBVIOUS
  <2> QED
    BY <1>1, <2>1, <2>2, <2>3, TurnIInv DEF LoopWaits
<1>2. CASE LoopTakes(t)
  <2>1. PICK batch \in kSubset(nNow(t), queue) :
          vChecks' = [vChecks EXCEPT ![t] = batch] /\ queue' = queue \ batch
    BY <1>2 DEF LoopTakes
  <2>2. TotalAfter(t) \in Nat /\ IdleAfter(t) \in Nat
    <3>1. /\ TotalAfter(t) = Cardinality(InLoop \cup {t})
          /\ IdleAfter(t) = Cardinality(Idle \ {t})
      BY <1>2, CleanUp DEF LoopTakes
    <3>2. InLoop \cup {t} \in SUBSET Thread /\ Idle \ {t} \in SUBSET Thread
      BY DEF InLoop, Idle
    <3> QED
      BY <3>1, <3>2, Finite
  <2>3. TotalAfter(t) + IdleAfter(t) + 1 \in Nat \ {0}
    BY <2>2
  <2>4. batch \in SUBSET queue /\ batch # {}
    BY <2>3, BatchNotEmpty DEF IInv
  <2>5. nIdle' = IdleAfter(t) + 0
    BY <1>2, <2>2 DEF LoopTakes
  <2> QED
    BY <1>2, <2>1, <2>4, <2>5, TurnIInv DEF LoopTakes
<1>3. CASE Work(t)
  BY <1>3, WorkIInv
<1> QED
  BY <1>1, <1>2, <1>3 DEF Loop

\* Every step keeps the invariant
LEMMA NextIInv == IInv /\ [Next]_vars => IInv'
<1> SUFFICES ASSUME IInv, [Next]_vars PROVE IInv'
  OBVIOUS
<1>1. CASE NewControl
  BY <1>1, NewControlIInv
<1>2. CASE Wait
  <2>1. [pc EXCEPT ![Master] = "first"] \in [Thread -> Place]
    BY DEF IInv, QueueTypeOK, Place
  <2> QED
    BY <1>2, <2>1, PlaceIInv DEF Wait, queueVars, IInv, QueueTypeOK
<1>3. CASE LoopReturns
  BY <1>3, ReturnsIInv
<1>4. ASSUME NEW cs \in SUBSET Check, Add(cs) PROVE IInv'
  BY <1>4, AddIInv
<1>5. ASSUME NEW t \in Thread, Loop(t) PROVE IInv'
  BY <1>5, LoopIInv
<1>6. ASSUME NEW t \in Thread, SpuriousWakeup(t) PROVE IInv'
  <2>1. [pc EXCEPT ![t] = "woken"] \in [Thread -> Place]
    BY DEF IInv, QueueTypeOK, Place
  <2> QED
    BY <1>6, <2>1, PlaceIInv DEF SpuriousWakeup, queueVars, IInv, QueueTypeOK
<1>7. ASSUME NEW w \in Worker, Interrupt(w) PROVE IInv'
  <2>1. w \in Thread /\ [pc EXCEPT ![w] = "gone"] \in [Thread -> Place]
    BY DEF IInv, QueueTypeOK, Place, Thread
  <2> QED
    BY <1>7, <2>1, PlaceIInv DEF Interrupt, queueVars, IInv, QueueTypeOK
<1>8. CASE UNCHANGED vars
  BY <1>8, FrameIInv DEF vars, queueVars, kept
<1> QED
  BY <1>1, <1>2, <1>3, <1>4, <1>5, <1>6, <1>7, <1>8 DEF Next

\* Between two blocks nobody works, so that who is in the loop is idle
LEMMA IInvCounters == IInv => CountersExact
<1> SUFFICES ASSUME IInv PROVE CountersExact
  OBVIOUS
<1>1. ASSUME pc[Master] = "out" PROVE IsIdle /\ queue = {}
  <2>1. Pending = {} /\ fAllOk
    BY <1>1 DEF IInv, Between
  <2>2. \A t \in Thread : pc[t] \notin {"working", "done"}
    BY <2>1 DEF IInv, OnePlace, Pending
  <2>3. InLoop = Idle
    BY <2>2 DEF InLoop, Idle, IInv, QueueTypeOK, Place
  <2> QED
    BY <2>1, <2>3, FS_EmptySet DEF IInv, Counted, IsIdle, Pending
<1> QED
  BY <1>1 DEF IInv, Counted, OnePlace, CountersExact, Idle, InLoop

\* Only LoopReturns takes the master out of Loop
LEMMA OnlyReturnsLeaves ==
  ASSUME IInv, Next, pc[Master] # "out", pc'[Master] = "out"
  PROVE  LoopReturns
<1>1. Master \in Thread /\ pc \in [Thread -> Place]
  BY DEF IInv, QueueTypeOK, Thread
<1>2. ~NewControl /\ ~Wait
  BY <1>1 DEF NewControl, Wait
<1>3. ASSUME NEW cs \in SUBSET Check, Add(cs) PROVE FALSE
  BY <1>1, <1>3 DEF Add
<1>4. ASSUME NEW t \in Thread, Loop(t) PROVE FALSE
  BY <1>1, <1>4 DEF Loop, LoopWaits, LoopTakes, Work, Moves
<1>5. ASSUME NEW t \in Thread, SpuriousWakeup(t) PROVE FALSE
  BY <1>1, <1>5 DEF SpuriousWakeup
<1>6. ASSUME NEW w \in Worker, Interrupt(w) PROVE FALSE
  BY <1>1, <1>6 DEF Interrupt
<1> QED
  BY <1>2, <1>3, <1>4, <1>5, <1>6 DEF Next

-----------------------------------------------------------------------------
(* The theorems *)

\* The invariant holds of every behaviour
THEOREM Invariance == Spec => []IInv
<1>1. Init => IInv
  BY InitIInv
<1>2. IInv /\ [Next]_vars => IInv'
  BY NextIInv
<1> QED
  BY <1>1, <1>2, PTL DEF Spec

\* nTodo, nIdle and nTotal count the pending checks, the threads in the wait and the threads
\* in Loop, and the queue is idle whenever a CCheckQueueControl may be constructed: its
\* assertion of IsIdle never fails, however many workers there are
THEOREM QueueCountersExact == Spec => []CountersExact
<1>1. IInv => CountersExact
  BY IInvCounters
<1> QED
  BY <1>1, Invariance, PTL

\* Wait returns true exactly when every check added for the block succeeds, for any number
\* of workers and checks and any batch size
THEOREM WaitTellsTheTruth == Spec => ResultIsConjunction
<1>1. IInv /\ [Next]_vars =>
        [pc[Master] # "out" /\ pc'[Master] = "out" => (result' <=> added \cap bad = {})]_vars
  <2> SUFFICES ASSUME IInv, Next, pc[Master] # "out", pc'[Master] = "out"
               PROVE  result' <=> added \cap bad = {}
    BY DEF vars
  <2>1. LoopReturns
    BY OnlyReturnsLeaves
  <2> QED
    BY <2>1, NothingLeft
<1> QED
  BY <1>1, Invariance, PTL DEF Spec, ResultIsConjunction
=============================================================================
