-------------------------- MODULE ChainActivation --------------------------
(***************************************************************************)
(* The block index of main.cpp and the choice of the active chain:        *)
(* headers and blocks are accepted (AcceptBlockHeader, AcceptBlock,       *)
(* ReceivedBlockTransactions), the best candidate is chosen               *)
(* (FindMostWorkChain) and made active step by step (ActivateBestChain,   *)
(* DisconnectTip, ConnectTip), an operator invalidates or reconsiders a   *)
(* block, a completed SwiftX lock replays the last blocks                 *)
(* (ReprocessBlocks in spork.cpp), and the node is killed and loads the   *)
(* index again (LoadBlockIndexDB).                                        *)
(*                                                                         *)
(* cs_main is held for one iteration of the loop of ActivateBestChain and *)
(* released between two.  job is what the thread that holds cs_main is    *)
(* doing ("idle": nobody holds it); thr[t] is where thread t is in        *)
(* ActivateBestChain or ReprocessBlocks when it does not hold the lock.   *)
(* What a block contains, and the coins, are the subject of              *)
(* BlockConnection: here a block is good or bad to each check.            *)
(***************************************************************************)
EXTENDS Integers, FiniteSets

CONSTANTS Block,         \* block hashes
          Genesis,       \* Params().HashGenesisBlock()
          Prev,          \* hashPrevBlock of every other block
          Work,          \* nChainWork
          Addr,          \* address of the CBlockIndex, the last tie-break
          Thread,        \* threads that may run ActivateBestChain
          ReplayBlocks,  \* the argument of ReprocessBlocks
          Scenario       \* what a behaviour may be given, see below

ASSUME TreeAssumption ==
  /\ Genesis \in Block
  /\ Prev \in [Block \ {Genesis} -> Block]
  /\ Work \in [Block -> Nat]
  /\ \A b \in Block \ {Genesis} : Work[Prev[b]] < Work[b]
  /\ IsFiniteSet(Block) /\ Addr \in [Block -> Nat]
  /\ \A a, b \in Block : Addr[a] = Addr[b] => a = b

ASSUME ParameterAssumption ==
  /\ ReplayBlocks \in Nat
  /\ Block \cap {"out", "loop", "replay", "flush"} = {}
  /\ Scenario \subseteq
       [arriving : SUBSET (Block \ {Genesis}),     \* the blocks peers send
        badBody : SUBSET (Block \ {Genesis}),      \* those ContextualCheckBlock finds invalid
        badConnect : SUBSET (Block \ {Genesis}),   \* those ConnectBlock finds invalid
        checkpointed : SUBSET Block,               \* exact matches of a checkpoint
        ops : SUBSET {"invalidate", "reconsider", "replay", "crash"}]  \* rare operations

VARIABLES known,        \* mapBlockIndex
          data,         \* BLOCK_HAVE_DATA
          linked,       \* nChainTx # 0
          failedValid,  \* BLOCK_FAILED_VALID
          failedChild,  \* BLOCK_FAILED_CHILD
          seq,          \* nSequenceId
          nBlockSequenceId,
          candidates,   \* setBlockIndexCandidates
          unlinked,     \* second components of mapBlocksUnlinked
          tip,          \* chainActive.Tip()
          refused,      \* blocks CheckBlock refuses for a locked input
          rejected,     \* mapRejectedBlocks
          thr,          \* threads outside cs_main
          pblock,       \* the block a thread's ActivateBestChain was given, or Genesis
          job,          \* what the holder of cs_main is doing
          disk,         \* the block index and the best block on disk
          scenario      \* which of Scenario this behaviour is, constant

index == <<known, data, linked, seq, nBlockSequenceId, unlinked>>
flags == <<failedValid, failedChild>>
locks == <<refused, rejected>>
threads == <<thr, pblock>>
vars == <<index, flags, candidates, tip, locks, threads, job, disk, scenario>>

-----------------------------------------------------------------------------
(* The chain that ends in b, Genesis and b included: pprev, GetAncestor.  *)
Chain[b \in Block] ==
  IF b = Genesis THEN {b} ELSE {b} \cup Chain[Prev[b]]

Descendants(b) == {c \in known : b \in Chain[c]}

Failed == failedValid \cup failedChild

\* CBlockIndexWorkComparator: a sorts before, and is worse than, b
Worse(a, b, s) ==
  \/ Work[a] < Work[b]
  \/ Work[a] = Work[b] /\ s[a] > s[b]
  \/ Work[a] = Work[b] /\ s[a] = s[b] /\ Addr[a] > Addr[b]

\* PruneBlockIndexCandidates, once chainActive's tip is t
Prune(cand, t, s) == {c \in cand : ~Worse(c, t, s)}

\* What FlushStateToDisk writes when chainActive's tip is t
Snapshot(t) ==
  [known |-> known, data |-> data, failedValid |-> failedValid, failedChild |-> failedChild,
   tip |-> t]

-----------------------------------------------------------------------------
(* Where a thread may be: not in ActivateBestChain, about to take cs_main *)
(* in its loop, about to replay blocks, about to evaluate the loop's      *)
(* condition with this block as pindexMostWork, or past the loop.         *)
Out == "out"
Loop == "loop"
Replay == "replay"
Flushing == "flush"

Idle == [op |-> "idle"]
Activating(t, most) == [op |-> "activate", thread |-> t, target |-> most, old |-> tip]
Invalidating(t, b) == [op |-> "invalidate", thread |-> t, target |-> b]
Replaying(t, n) == [op |-> "replay", thread |-> t, left |-> n]

Init ==
  /\ known = {Genesis} /\ data = {Genesis} /\ linked = {Genesis}
  /\ failedValid = {} /\ failedChild = {}
  /\ seq = [b \in Block |-> IF b = Genesis THEN 1 ELSE 0]
  /\ nBlockSequenceId = 2
  /\ candidates = {Genesis} /\ unlinked = {} /\ tip = Genesis
  /\ refused = {} /\ rejected = {}
  /\ thr = [t \in Thread |-> Out]
  /\ pblock = [t \in Thread |-> Genesis]
  /\ job = Idle
  /\ disk = Snapshot(Genesis)
  /\ scenario \in Scenario

-----------------------------------------------------------------------------
(* Accepting headers and blocks *)

\* A block whose header is known already is found there
AddToBlockIndex(b) == known' = known \cup {b}

AcceptBlockHeader(b) ==
  /\ job = Idle
  /\ b \notin known
  /\ Prev[b] \in known /\ Prev[b] \notin Failed
  /\ AddToBlockIndex(b)
  /\ UNCHANGED <<data, linked, seq, nBlockSequenceId, unlinked, flags, candidates, tip,
                 locks, threads, job, disk>>

\* Mutant: only the children of b are looked up, not theirs
NewlyLinked_OneLevel(b) == {c \in unlinked \cup {b} : c = b \/ Prev[c] = b}

\* b and the waiting blocks that its data links to the genesis block
NewlyLinked(b) == {c \in unlinked \cup {b} : b \in Chain[c] /\ Chain[c] \ Chain[b] \subseteq unlinked}

\* The queue numbers a parent before its children, generation by generation
QueueOrder(new, s) ==
  /\ \A c, d \in new : s[c] = s[d] => c = d
  /\ \A c, d \in new : Cardinality(Chain[c]) < Cardinality(Chain[d]) => s[c] < s[d]

ReceivedBlockTransactions(b) ==
  /\ data' = data \cup {b}
  /\ \/ /\ Prev[b] \in linked
        /\ LET new == NewlyLinked(b)
           IN  \E s \in [new -> nBlockSequenceId..(nBlockSequenceId + Cardinality(new) - 1)] :
                 /\ QueueOrder(new, s)
                 /\ seq' = [c \in Block |-> IF c \in new THEN s[c] ELSE seq[c]]
                 /\ nBlockSequenceId' = nBlockSequenceId + Cardinality(new)
                 /\ linked' = linked \cup new
                 /\ candidates' = candidates \cup {c \in new : ~Worse(c, tip, seq')}
                 /\ unlinked' = unlinked \ new
     \/ /\ Prev[b] \notin linked
        /\ unlinked' = unlinked \cup (IF Prev[b] \in Failed THEN {} ELSE {b})
        /\ UNCHANGED <<linked, seq, nBlockSequenceId, candidates>>

\* Mutant: candidates are not compared with the tip
Reconsider_AnyWork(b) ==
  /\ failedValid' = failedValid \ (Descendants(b) \cup Chain[b])
  /\ failedChild' = failedChild \ (Descendants(b) \cup Chain[b])
  /\ candidates' = candidates \cup (Descendants(b) \cap Failed \cap linked)

\* ReconsiderBlock: flags of the descendants and of the ancestors are cleared,
\* but only descendants become candidates, and only if the tip is worse
Reconsider(b) ==
  /\ failedValid' = failedValid \ (Descendants(b) \cup Chain[b])
  /\ failedChild' = failedChild \ (Descendants(b) \cup Chain[b])
  /\ candidates' = candidates \cup {c \in Descendants(b) \cap Failed \cap linked : Worse(tip, c, seq)}

\* t calls ActivateBestChain(state, b), without a block if b is Genesis
Starts(t, b) ==
  /\ thr[t] = Out
  /\ thr' = [thr EXCEPT ![t] = Loop]
  /\ pblock' = [pblock EXCEPT ![t] = b]

Returns(t) ==
  /\ thr' = [thr EXCEPT ![t] = Out]
  /\ pblock' = [pblock EXCEPT ![t] = Genesis]

\* What does not depend on the transaction locks is right for the blocks of this model
CheckBlock(b) == b \notin refused

ContextualCheckBlock(b) == b \notin scenario.badBody

\* AcceptBlock returned true: ProcessNewBlock goes on to ActivateBestChain
AcceptGood(t, b) ==
  /\ ContextualCheckBlock(b)
  /\ AddToBlockIndex(b)
  /\ ReceivedBlockTransactions(b)
  /\ Starts(t, b)
  /\ UNCHANGED <<flags, rejected>>

\* CheckBlock or ContextualCheckBlock fails after the header was added
AcceptBad(b) ==
  /\ ~ContextualCheckBlock(b)
  /\ AddToBlockIndex(b)
  /\ failedValid' = failedValid \cup {b}
  /\ UNCHANGED <<data, linked, seq, nBlockSequenceId, unlinked, failedChild, candidates, rejected, threads>>

\* A proof-of-stake check that depends on the active chain fails: the header stays
AcceptStakeRefused(b) ==
  /\ b \notin known /\ ContextualCheckBlock(b)
  /\ AddToBlockIndex(b)
  /\ UNCHANGED <<data, linked, seq, nBlockSequenceId, unlinked, flags, candidates, rejected, threads>>

\* AcceptBlock returns true before it looks at the block
AcceptEarly(t, b) ==
  /\ Starts(t, b)
  /\ \/ /\ Prev[b] \in Failed /\ Prev[b] \in scenario.checkpointed
        /\ Reconsider(Prev[b])
     \/ /\ Prev[b] \notin Failed /\ b \in data /\ b \notin Failed
        /\ UNCHANGED <<flags, candidates>>
  /\ UNCHANGED <<index, rejected>>

\* ProcessNewBlock: CheckBlock before the lock, then AcceptBlock
ProcessNewBlock(t, b) ==
  /\ job = Idle
  /\ Prev[b] \in known
  /\ \/ /\ ~CheckBlock(b)
        /\ rejected' = rejected \cup {b}
        /\ UNCHANGED <<index, flags, candidates, threads>>
     \/ /\ CheckBlock(b)
        /\ \/ AcceptEarly(t, b)
           \/ /\ Prev[b] \notin Failed /\ b \notin Failed /\ b \notin data
              /\ AcceptGood(t, b) \/ AcceptBad(b) \/ AcceptStakeRefused(b)
  /\ UNCHANGED <<tip, refused, job, disk>>

-----------------------------------------------------------------------------
(* FindMostWorkChain.  A candidate is usable when no block on its path to *)
(* the active chain has failed.  The best usable one is returned; of each *)
(* better candidate everything from its own end down to the nearest       *)
(* failed block leaves the set, and what lies above that block is marked. *)
Path(c) == Chain[c] \ Chain[tip]

\* Mutant: only the candidate itself is tested
Usable_NoAncestors(c) == c \notin Failed
Usable(c) == Path(c) \cap Failed = {}

NearestFailed(c) ==
  CHOOSE f \in Path(c) \cap Failed : \A g \in Path(c) \cap Failed : g \in Chain[f]

UsableCandidates == {c \in candidates : Usable(c)}

\* pindexMostWork: one block, or none
MostWork == {m \in UsableCandidates : \A c \in UsableCandidates \ {m} : Worse(c, m, seq)}

\* The candidates the loop takes before it finds a usable one
PassedOver == {c \in candidates : ~Usable(c) /\ \A m \in UsableCandidates : Worse(m, c, seq)}

\* Mutant: everything off the active chain is marked
AboveFailed_Path(c) == Path(c)

AboveFailed(c) == Chain[c] \ Chain[NearestFailed(c)]

FindMostWorkChain ==
  /\ failedChild' = failedChild \cup UNION {AboveFailed(c) : c \in PassedOver}
  /\ candidates' = candidates \ UNION {AboveFailed(c) \cup {NearestFailed(c)} : c \in PassedOver}

\* One turn of the loop of ActivateBestChain takes cs_main and looks for work
ActivateBestChain(t) ==
  /\ job = Idle
  /\ thr[t] = Loop
  /\ FindMostWorkChain
  /\ \/ /\ MostWork \subseteq {tip}
        /\ Returns(t)
        /\ job' = Idle
     \/ \E m \in MostWork \ {tip} :
          /\ job' = Activating(t, m)
          /\ UNCHANGED threads
  /\ UNCHANGED <<index, failedValid, tip, locks, disk>>

\* The turn ends: cs_main is released, the loop's condition is next
Release(t, most) ==
  /\ job' = Idle
  /\ thr' = [thr EXCEPT ![t] = most]
  /\ UNCHANGED pblock

\* Mutant: the loop is left after one turn
LoopCondition_Once(t) ==
  /\ thr[t] \in Block
  /\ thr' = [thr EXCEPT ![t] = Flushing]
  /\ UNCHANGED <<index, flags, candidates, tip, locks, pblock, job, disk>>

\* while (pindexMostWork != chainActive.Tip()), read without cs_main
LoopCondition(t) ==
  /\ thr[t] \in Block
  /\ thr' = [thr EXCEPT ![t] = IF thr[t] = tip THEN Flushing ELSE Loop]
  /\ UNCHANGED <<index, flags, candidates, tip, locks, pblock, job, disk>>

\* FlushStateToDisk(FLUSH_STATE_PERIODIC) writes when enough time has passed
LeaveLoop(t) ==
  /\ job = Idle
  /\ thr[t] = Flushing
  /\ disk' \in {disk, Snapshot(tip)}
  /\ Returns(t)
  /\ UNCHANGED <<index, flags, candidates, tip, locks, job>>

-----------------------------------------------------------------------------
(* One block off or onto the active chain.  DisconnectTip writes the      *)
(* whole state to disk, ConnectTip only when it is due.                   *)

UpdateTip(b) == tip' = b

DisconnectTip ==
  /\ UpdateTip(Prev[tip])
  /\ disk' = Snapshot(Prev[tip])

\* ActivateBestChainStep: blocks above the fork are disconnected first
StepDisconnect ==
  /\ job.op = "activate"
  /\ tip \notin Chain[job.target]
  /\ DisconnectTip
  /\ UNCHANGED <<index, flags, candidates, locks, threads, job>>

NextBlock == CHOOSE b \in Chain[job.target] \ {Genesis} : Prev[b] = tip

\* CheckBlock is skipped for the block the caller has checked already
Rechecked(b) == ~(b = job.target /\ pblock[job.thread] = b)
Connects(b) == b \notin scenario.badConnect /\ (Rechecked(b) => CheckBlock(b))

\* Mutant: the lock is released after any block
StepConnect_AnyBlock ==
  /\ job.op = "activate"
  /\ tip \in Chain[job.target] \ {job.target}
  /\ Connects(NextBlock)
  /\ UpdateTip(NextBlock)
  /\ candidates' = Prune(candidates, NextBlock, seq)
  /\ disk' \in {disk, Snapshot(NextBlock)}
  /\ Release(job.thread, job.target)
  /\ UNCHANGED <<index, flags, locks>>

\* ConnectTip and PruneBlockIndexCandidates; the step ends at the target or
\* as soon as the chain has more work than before
StepConnect ==
  /\ job.op = "activate"
  /\ tip \in Chain[job.target] \ {job.target}
  /\ Connects(NextBlock)
  /\ UpdateTip(NextBlock)
  /\ candidates' = Prune(candidates, NextBlock, seq)
  /\ disk' \in {disk, Snapshot(NextBlock)}
  /\ IF Work[NextBlock] > Work[job.old] \/ NextBlock = job.target
       THEN Release(job.thread, job.target)
       ELSE UNCHANGED <<threads, job>>
  /\ UNCHANGED <<index, flags, locks>>

\* Mutant: the block is neither marked nor erased
StepInvalid_NotMarked ==
  /\ job.op = "activate"
  /\ tip \in Chain[job.target] \ {job.target}
  /\ ~Connects(NextBlock)
  /\ Release(job.thread, job.target)
  /\ UNCHANGED <<index, flags, candidates, tip, locks, disk>>

\* ConnectTip fails and InvalidBlockFound marks the block
StepInvalid ==
  /\ job.op = "activate"
  /\ tip \in Chain[job.target] \ {job.target}
  /\ ~Connects(NextBlock)
  /\ failedValid' = failedValid \cup {NextBlock}
  /\ candidates' = candidates \ {NextBlock}
  /\ rejected' = IF Rechecked(NextBlock) /\ ~CheckBlock(NextBlock)
                   THEN rejected \cup {NextBlock} ELSE rejected
  /\ Release(job.thread, job.target)
  /\ UNCHANGED <<index, failedChild, tip, refused, disk>>

-----------------------------------------------------------------------------
(* invalidateblock and reconsiderblock (rpc/blockchain.cpp) *)

\* The body of the while loop of InvalidateBlock up to DisconnectTip
MarkTip(b, top, cand) ==
  IF b \in Chain[top]
    THEN failedChild' = failedChild \cup {top} /\ candidates' = cand \ {top}
    ELSE failedChild' = failedChild /\ candidates' = cand

InvalidateBlock(t, b) ==
  /\ "invalidate" \in scenario.ops
  /\ job = Idle /\ thr[t] = Out
  /\ b \in known \ {Genesis}
  /\ failedValid' = failedValid \cup {b}
  /\ MarkTip(b, tip, candidates \ {b})
  /\ job' = Invalidating(t, b)
  /\ UNCHANGED <<index, tip, locks, threads, disk>>

InvalidateDisconnect ==
  /\ job.op = "invalidate"
  /\ job.target \in Chain[tip]
  /\ DisconnectTip
  /\ MarkTip(job.target, tip', candidates)
  /\ UNCHANGED <<index, failedValid, locks, threads, job>>

\* Mutant: only blocks better than the new tip become candidates again
InvalidateRestore_Strict ==
  /\ job.op = "invalidate"
  /\ job.target \notin Chain[tip]
  /\ candidates' = candidates \cup {c \in linked \ Failed : Worse(tip, c, seq)}
  /\ Starts(job.thread, Genesis)
  /\ job' = Idle
  /\ UNCHANGED <<index, flags, tip, locks, disk>>

\* The new tip and what is as good as it become candidates again
InvalidateRestore ==
  /\ job.op = "invalidate"
  /\ job.target \notin Chain[tip]
  /\ candidates' = candidates \cup {c \in linked \ Failed : ~Worse(c, tip, seq)}
  /\ Starts(job.thread, Genesis)
  /\ job' = Idle
  /\ UNCHANGED <<index, flags, tip, locks, disk>>

ReconsiderBlock(t, b) ==
  /\ "reconsider" \in scenario.ops
  /\ job = Idle
  /\ b \in known
  /\ Reconsider(b)
  /\ Starts(t, Genesis)
  /\ UNCHANGED <<index, tip, locks, job, disk>>

-----------------------------------------------------------------------------
(* ReprocessBlocks (spork.cpp): a SwiftX lock completed whose inputs block *)
(* r of the active chain spends otherwise.  Rejected blocks of the last   *)
(* hours are reconsidered one by one, each under its own cs_main, then    *)
(* ReplayBlocks + 1 blocks are disconnected.                              *)
ReprocessBlocks(t, r) ==
  /\ "replay" \in scenario.ops
  /\ thr[t] = Out
  /\ r \in Chain[tip] \ (refused \cup {Genesis})
  /\ refused' = refused \cup {r}
  /\ thr' = [thr EXCEPT ![t] = Replay]
  /\ UNCHANGED <<index, flags, candidates, tip, rejected, pblock, job, disk>>

ReprocessReconsider(t, b) ==
  /\ job = Idle /\ thr[t] = Replay
  /\ b \in rejected \cap known
  /\ Reconsider(b)
  /\ UNCHANGED <<index, tip, locks, threads, job, disk>>

DisconnectBlocksAndReprocess(t) ==
  /\ job = Idle /\ thr[t] = Replay
  /\ Cardinality(Chain[tip]) > ReplayBlocks + 1
  /\ job' = Replaying(t, ReplayBlocks + 1)
  /\ UNCHANGED <<index, flags, candidates, tip, locks, threads, disk>>

ReplayDisconnect ==
  /\ job.op = "replay" /\ job.left > 0
  /\ DisconnectTip
  /\ job' = [job EXCEPT !.left = @ - 1]
  /\ UNCHANGED <<index, flags, candidates, locks, threads>>

ReplayDone ==
  /\ job.op = "replay" /\ job.left = 0
  /\ thr' = [thr EXCEPT ![job.thread] = Loop]
  /\ job' = Idle
  /\ UNCHANGED <<index, flags, candidates, tip, locks, pblock, disk>>

-----------------------------------------------------------------------------
(* The node is killed, possibly inside a FlushStateToDisk that has        *)
(* written the index and not yet the coins, and starts again:            *)
(* LoadBlockIndexDB, then the ActivateBestChain of init.cpp.              *)
LoadedLinked(saved) == {b \in saved.data : Chain[b] \subseteq saved.data}
LoadedValid(saved) == LoadedLinked(saved) \ (saved.failedValid \cup saved.failedChild)

LoadedUnlinked(saved) == {b \in saved.data \ {Genesis} : Prev[b] \notin LoadedLinked(saved)}

LoadedCandidates(saved, s) == Prune(LoadedValid(saved), saved.tip, s)

LoadBlockIndexGuts(saved) ==
  /\ known' = saved.known /\ data' = saved.data
  /\ failedValid' = saved.failedValid /\ failedChild' = saved.failedChild

LoadBlockIndexDB(saved) ==
  /\ LoadBlockIndexGuts(saved)
  /\ linked' = LoadedLinked(saved)
  /\ unlinked' = LoadedUnlinked(saved)
  /\ seq' = [b \in Block |-> 0]
  /\ nBlockSequenceId' = 1
  /\ tip' = saved.tip
  /\ candidates' = LoadedCandidates(saved, seq')
  /\ disk' = saved

FlushMayRun == job # Idle \/ \E t \in Thread : thr[t] = Flushing

\* Mutant: the best chain is not activated after loading
Restart_NoActivation(t) ==
  /\ "crash" \in scenario.ops
  /\ \/ LoadBlockIndexDB(disk)
     \/ FlushMayRun /\ LoadBlockIndexDB(Snapshot(disk.tip))
  /\ refused' = {} /\ rejected' = {}
  /\ job' = Idle
  /\ thr' = [u \in Thread |-> Out]
  /\ pblock' = [u \in Thread |-> Genesis]

Restart(t) ==
  /\ "crash" \in scenario.ops
  /\ \/ LoadBlockIndexDB(disk)
     \/ FlushMayRun /\ LoadBlockIndexDB(Snapshot(disk.tip))
  /\ refused' = {} /\ rejected' = {}
  /\ job' = Idle
  /\ thr' = [u \in Thread |-> IF u = t THEN Loop ELSE Out]
  /\ pblock' = [u \in Thread |-> Genesis]

-----------------------------------------------------------------------------
LoopStep(t) == (ActivateBestChain(t) \/ LoopCondition(t) \/ LeaveLoop(t)) /\ UNCHANGED scenario
JobStep ==
  /\ \/ StepDisconnect \/ StepConnect \/ StepInvalid
     \/ InvalidateDisconnect \/ InvalidateRestore \/ ReplayDisconnect \/ ReplayDone
  /\ UNCHANGED scenario
ReplayStep(t) == DisconnectBlocksAndReprocess(t) /\ UNCHANGED scenario

External(t, b) ==
  /\ \/ AcceptBlockHeader(b) \/ ProcessNewBlock(t, b)
     \/ InvalidateBlock(t, b) \/ ReconsiderBlock(t, b)
     \/ ReprocessBlocks(t, b) \/ ReprocessReconsider(t, b)
  /\ UNCHANGED scenario

Next ==
  \/ JobStep
  \/ \E t \in Thread :
       \/ LoopStep(t) \/ ReplayStep(t) \/ (Restart(t) /\ UNCHANGED scenario)
       \/ \E b \in scenario.arriving : External(t, b)

Spec == Init /\ [][Next]_vars

\* A thread that waits for cs_main gets it, and who holds it goes on
Fairness ==
  /\ WF_vars(JobStep)
  /\ \A t \in Thread : WF_vars(LoopStep(t)) /\ WF_vars(ReplayStep(t))

FairSpec == Spec /\ Fairness

-----------------------------------------------------------------------------
(* Properties *)

HasInvalidAncestor(b) == Chain[b] \cap failedValid # {}

\* nChainTx is set exactly for the blocks whose data and whose ancestors' data are
\* all there, and mapBlocksUnlinked holds exactly the blocks that wait for an
\* ancestor's data (unless an ancestor is invalid), whatever the order in which
\* headers and blocks arrive (CheckBlockIndex, ReceivedBlockTransactions).
LinkedWhenComplete ==
  /\ \A b \in known : b \in linked <=> Chain[b] \subseteq data
  /\ unlinked \subseteq data \ linked
  /\ \A b \in data \ linked : b \in unlinked \/ HasInvalidAncestor(b)

\* No block that has failed is given a second chance in this behaviour
NothingReconsidered ==
  scenario.ops \cap {"reconsider", "replay"} = {} /\ scenario.checkpointed = {}

\* A candidate has all its data and never sorts worse than the tip, and the block that is
\* being activated is one, so that PruneBlockIndexCandidates never empties the set: "Either
\* the current tip or a successor of it we're working towards is left in
\* setBlockIndexCandidates".  Unless blocks are reconsidered, which makes candidates of
\* descendants only, one is left whenever cs_main is free.
CandidatesAtLeastTip ==
  /\ \A c \in candidates : c \in linked /\ ~Worse(c, tip, seq)
  /\ job.op = "activate" => job.target \in candidates
  /\ job = Idle /\ NothingReconsidered => candidates # {}

\* Whenever cs_main is free the best block that could be active, the one that sorts
\* highest among the complete blocks without an invalid ancestor, is a candidate:
\* neither pruning nor a failed reorganisation forgets it.
BestBlockIsCandidate ==
  job = Idle =>
    LET good == {b \in linked : ~HasInvalidAncestor(b)}
    IN  \A b \in good : (\A c \in good \ {b} : Worse(c, b, seq)) => b \in candidates

\* No block on the active chain is marked failed while cs_main is free:
\* FindMostWorkChain takes the blocks already active for valid.
ActiveChainNotFailed ==
  job = Idle => Chain[tip] \cap Failed = {}

\* CheckBlockIndex: "The failed mask cannot be set for blocks without invalid parents."
FailedOnlyBelowInvalid ==
  job = Idle => \A b \in Failed : HasInvalidAncestor(b)

\* A complete chain that ConnectBlock would accept and that has more work than the
\* active one
Better(b) ==
  /\ b \in linked
  /\ Work[b] > Work[tip]
  /\ Chain[b] \cap (failedValid \cup scenario.badConnect \cup refused) = {}
TipIsBest == \A b \in known : ~Better(b)

\* When no thread is inside ActivateBestChain or ReprocessBlocks, the active chain is
\* a best one: "The result is either failure or an activated best chain."  Blocks that
\* are reconsidered are excepted: ReconsiderBlock makes candidates of descendants only.
BestChainActivated ==
  (job = Idle /\ (\A t \in Thread : thr[t] = Out) /\ NothingReconsidered) => TipIsBest

\* A step of ActivateBestChain that does not meet an invalid block ends on a tip that
\* sorts higher than the one it started from: nodes never move between equal chains
\* except to the one received first.  A step that the node is killed in is excepted.
ActivationImproves ==
  [][job.op = "activate" /\ job' = Idle /\ failedValid' = failedValid
       /\ "crash" \notin scenario.ops
       => Worse(job.old, tip', seq)]_vars

\* Every call of ActivateBestChain returns, although each invalid block it meets and
\* each block that arrives sends it round its loop again, unless the node is killed.
CallsReturn ==
  "crash" \notin scenario.ops => \A t \in Thread : thr[t] = Loop ~> thr[t] = Out
=============================================================================
