----------------------------- MODULE CheckQueue -----------------------------
(***************************************************************************)
(* CCheckQueue and CCheckQueueControl (checkqueue.h): the master thread    *)
(* that connects a block hands its script checks to a pool of workers,     *)
(* joins the pool, and returns whether all of them succeeded.              *)
(*                                                                         *)
(* One action per critical section of Loop: from the acquisition of the    *)
(* mutex to the next wait, return or release.  A thread that waits on a    *)
(* condition variable is "waiting" until it is notified, spuriously woken  *)
(* or (workers only, at shutdown) interrupted; then it is "woken" and      *)
(* needs the mutex again.  The order of the checks does not matter, so the *)
(* queue is a set.                                                         *)
(***************************************************************************)
EXTENDS Integers, FiniteSets, FiniteSetsExt

CONSTANTS Worker,      \* the threads of ThreadScriptCheck
          Master,      \* the thread that holds a CCheckQueueControl
          Check,       \* the script checks of a block
          nBatchSize,
          MaxBad,      \* how many checks of a block may fail: a bound for TLC
          MaxBlocks    \* how many blocks are checked: a bound for TLC

ASSUME QueueAssumption ==
  /\ Master \notin Worker
  /\ IsFiniteSet(Worker) /\ IsFiniteSet(Check)
  /\ nBatchSize \in Nat \ {0}
  /\ MaxBad \in Nat /\ MaxBlocks \in Nat

Thread == Worker \cup {Master}

VARIABLES queue,      \* checks nobody has taken yet
          nIdle, nTotal, fAllOk, nTodo,
          pc,         \* where a thread is in Loop
          vChecks,    \* its local batch
          fOk,        \* its local result
          added,      \* checks the master has added for this block
          bad,        \* the checks of this block that fail
          result,     \* what the last Wait returned
          blocks      \* blocks started so far

queueVars == <<queue, nIdle, nTotal, fAllOk, nTodo>>
vars == <<queueVars, pc, vChecks, fOk, added, bad, result, blocks>>

Init ==
  /\ queue = {} /\ nIdle = 0 /\ nTotal = 0 /\ fAllOk = TRUE /\ nTodo = 0
  /\ pc = [t \in Thread |-> IF t = Master THEN "out" ELSE "first"]
  /\ vChecks = [t \in Thread |-> {}]
  /\ fOk = [t \in Thread |-> TRUE]
  /\ added = {} /\ bad = {} /\ result = TRUE /\ blocks = 0

Waiting == {w \in Worker : pc[w] = "waiting"}

-----------------------------------------------------------------------------
\* IsIdle, asserted by the constructor of CCheckQueueControl
IsIdle == nTotal = nIdle /\ nTodo = 0 /\ fAllOk

\* ConnectBlock creates a control for the next block
NewControl ==
  /\ pc[Master] = "out"
  /\ blocks < MaxBlocks
  /\ blocks' = blocks + 1
  /\ pc' = [pc EXCEPT ![Master] = "adding"]
  /\ added' = {}
  /\ bad' \in {cs \in SUBSET Check : Cardinality(cs) <= MaxBad}
  /\ UNCHANGED <<queueVars, vChecks, fOk, result>>

\* The workers that may be woken: notify_one for one check, notify_all for several
NotifiedOf(cs) ==
  CASE Cardinality(cs) = 0 -> {{}}
    [] Cardinality(cs) = 1 -> IF Waiting = {} THEN {{}} ELSE {{w} : w \in Waiting}
    [] OTHER -> {Waiting}

\* Add
Add(cs) ==
  /\ pc[Master] = "adding"
  /\ cs \cap added = {}
  /\ queue' = queue \cup cs
  /\ nTodo' = nTodo + Cardinality(cs)
  /\ added' = added \cup cs
  /\ \E ws \in NotifiedOf(cs) : pc' = [t \in Thread |-> IF t \in ws THEN "woken" ELSE pc[t]]
  /\ UNCHANGED <<nIdle, nTotal, fAllOk, vChecks, fOk, bad, result, blocks>>

\* Wait, called by ConnectBlock or by the destructor when ConnectBlock fails early
Wait ==
  /\ pc[Master] = "adding"
  /\ pc' = [pc EXCEPT ![Master] = "first"]
  /\ UNCHANGED <<queueVars, vChecks, fOk, added, bad, result, blocks>>

-----------------------------------------------------------------------------
(* A critical section of Loop for thread t *)

Enters(t) == pc[t] \in {"first", "woken", "done"}

\* The counters after the clean-up of the previous turn, or after the wait
TodoAfter(t) == nTodo - Cardinality(vChecks[t])

\* Mutant: the result of a batch is not kept
AllOkAfter_Dropped(t) == fAllOk

AllOkAfter(t) == fAllOk /\ (pc[t] = "done" => fOk[t])

TotalAfter(t) == nTotal + (IF pc[t] = "first" THEN 1 ELSE 0)

\* Mutant: a thread that has been woken stays counted as idle
IdleAfter_Kept(t) == nIdle

IdleAfter(t) == nIdle - (IF pc[t] = "woken" THEN 1 ELSE 0)

\* Mutant: the master is not notified by the worker that did the last check
Notified_Nobody(t) == {}

\* A worker that finished the last check notifies the master
Notified(t) ==
  {m \in {Master} : t # Master /\ pc[t] = "done" /\ TodoAfter(t) = 0 /\ pc[m] = "waiting"}

Moves(t, to) ==
  pc' = [u \in Thread |-> IF u = t THEN to ELSE IF u \in Notified(t) THEN "woken" ELSE pc[u]]

\* Nothing to take: the thread waits
LoopWaits(t) ==
  /\ Enters(t)
  /\ queue = {}
  /\ ~(t = Master /\ TodoAfter(t) = 0)
  /\ fAllOk' = AllOkAfter(t)
  /\ nTodo' = TodoAfter(t)
  /\ nTotal' = TotalAfter(t)
  /\ nIdle' = IdleAfter(t) + 1
  /\ Moves(t, "waiting")
  /\ vChecks' = [vChecks EXCEPT ![t] = {}]
  /\ UNCHANGED <<queue, fOk, added, bad, result, blocks>>

\* Nothing left at all: the master returns the result and resets it.  (fQuit is never
\* set, so a worker does not return.)
LoopReturns ==
  /\ Enters(Master)
  /\ queue = {}
  /\ TodoAfter(Master) = 0
  /\ result' = AllOkAfter(Master)
  /\ fAllOk' = TRUE
  /\ nTodo' = 0
  /\ nTotal' = TotalAfter(Master) - 1
  /\ nIdle' = IdleAfter(Master)
  /\ pc' = [pc EXCEPT ![Master] = "out"]
  /\ vChecks' = [vChecks EXCEPT ![Master] = {}]
  /\ UNCHANGED <<queue, fOk, added, bad, blocks>>

\* How many checks a thread takes at once
nNow(t) ==
  Max({1, Min({nBatchSize, Cardinality(queue) \div (TotalAfter(t) + IdleAfter(t) + 1)})})

LoopTakes(t) ==
  /\ Enters(t)
  /\ queue # {}
  /\ fAllOk' = AllOkAfter(t)
  /\ nTodo' = TodoAfter(t)
  /\ nTotal' = TotalAfter(t)
  /\ nIdle' = IdleAfter(t)
  /\ \E batch \in kSubset(nNow(t), queue) :
       /\ vChecks' = [vChecks EXCEPT ![t] = batch]
       /\ queue' = queue \ batch
  /\ fOk' = [fOk EXCEPT ![t] = AllOkAfter(t)]
  /\ Moves(t, "working")
  /\ UNCHANGED <<added, bad, result, blocks>>

\* The batch is executed without the mutex, up to the first failure
Work(t) ==
  /\ pc[t] = "working"
  /\ fOk' = [fOk EXCEPT ![t] = @ /\ vChecks[t] \cap bad = {}]
  /\ pc' = [pc EXCEPT ![t] = "done"]
  /\ UNCHANGED <<queueVars, vChecks, added, bad, result, blocks>>

-----------------------------------------------------------------------------
\* boost::condition_variable may wake a thread without a notification
SpuriousWakeup(t) ==
  /\ pc[t] = "waiting"
  /\ pc' = [pc EXCEPT ![t] = "woken"]
  /\ UNCHANGED <<queueVars, vChecks, fOk, added, bad, result, blocks>>

\* threadGroup.interrupt_all: a worker leaves from its wait with an exception,
\* so that the counters keep it as idle
Interrupt(w) ==
  /\ pc[w] = "waiting"
  /\ pc' = [pc EXCEPT ![w] = "gone"]
  /\ UNCHANGED <<queueVars, vChecks, fOk, added, bad, result, blocks>>

Loop(t) == LoopWaits(t) \/ LoopTakes(t) \/ Work(t)

Next ==
  \/ NewControl \/ Wait \/ LoopReturns
  \/ \E cs \in SUBSET Check : Add(cs)
  \/ \E t \in Thread : Loop(t) \/ SpuriousWakeup(t)
  \/ \E w \in Worker : Interrupt(w)

Spec == Init /\ [][Next]_vars

\* A thread that can run runs; nobody is obliged to start a block or to be woken
Fairness ==
  /\ WF_vars(Wait) /\ WF_vars(LoopReturns)
  /\ \A t \in Thread : WF_vars(Loop(t))

FairSpec == Spec /\ Fairness

-----------------------------------------------------------------------------
(* Properties *)

\* Checks that are in the queue or in a batch
Pending == queue \cup UNION {vChecks[t] : t \in Thread}

\* nTodo counts exactly the checks that are in the queue or in somebody's batch, so it
\* is never decremented below zero, and nTotal and nIdle count the threads that are in
\* Loop and in its wait (interrupted ones included).  Between two blocks they say that
\* the queue is idle: the assertion of the constructor of CCheckQueueControl.
CountersExact ==
  /\ nTodo = Cardinality(Pending)
  /\ \A t \in Thread : vChecks[t] \cap queue = {}
  /\ \A t, u \in Thread : t # u => vChecks[t] \cap vChecks[u] = {}
  /\ nIdle = Cardinality({t \in Thread : pc[t] \in {"waiting", "woken", "gone"}})
  /\ nTotal = Cardinality({t \in Thread : pc[t] \notin {"first", "out", "adding"}})
  /\ pc[Master] = "out" => IsIdle /\ queue = {}

\* Wait returns true exactly when every check that was added succeeds: no check is
\* lost between the queue and a batch, and no failure of an earlier block lingers.
ResultIsConjunction ==
  [][pc[Master] # "out" /\ pc'[Master] = "out" => (result' <=> added \cap bad = {})]_vars

\* The master always gets its answer, even if every worker has been interrupted: no
\* notification it needs is lost.
WaitReturns == pc[Master] = "first" ~> pc[Master] = "out"
=============================================================================
