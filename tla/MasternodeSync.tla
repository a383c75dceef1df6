--------------------------- MODULE MasternodeSync ---------------------------
(***************************************************************************)
(* CMasternodeSync (masternode-sync.cpp): after a start the node asks its  *)
(* peers for the sporks, the masternode list, the masternode winners and   *)
(* the budget, one stage after the other.                                  *)
(*                                                                         *)
(* Process runs in ThreadCheckObfuScationPool, once a second; the other    *)
(* operations are called by the message handler and by RPC.  The class has *)
(* no lock: a call of Process is two steps (up to the blockchain gate, and *)
(* the loop over the peers), between which the other threads may run.      *)
(*                                                                         *)
(* Times are kept as ages, in seconds up to the largest age the code tells *)
(* apart.  mnodeman.CountEnabled() = 0 and IsSporkActive(SPORK_8) belong   *)
(* to other components and are free choices here.                          *)
(***************************************************************************)
EXTENDS Integers

CONSTANTS Node,        \* connection slots of vNodes
          OldNode,     \* slots taken by peers below the masternode protocol version
          Item,        \* what the network announces: pairs of an asset and a hash
          Timeout,     \* MASTERNODE_SYNC_TIMEOUT
          Threshold,   \* MASTERNODE_SYNC_THRESHOLD
          RetryDelay,  \* seconds after which a failed sync is retried
          MaxSetbacks  \* how often a reset, a sleep or a lost peer upsets the sync: a bound for TLC

ASSUME SyncAssumption ==
  /\ OldNode \subseteq Node
  /\ \A i \in Item : i[1] \in {"list", "mnw", "budget"}
  /\ Timeout \in Nat \ {0} /\ Threshold \in Nat \ {0}
  /\ RetryDelay \in Nat /\ MaxSetbacks \in Nat

VARIABLES regtest,     \* Params().NetworkID() == REGTEST
          stage,       \* RequestedMasternodeAssets
          attempt,     \* RequestedMasternodeAttempt
          last,        \* ages of lastMasternodeList, lastMasternodeWinner, lastBudgetItem
          started,     \* age of nAssetSyncStarted
          failure,     \* age of lastFailure
          seen,        \* mapSeenSyncMNB, mapSeenSyncMNW, mapSeenSyncBudget
          vNodes,      \* connected peers
          fulfilled,   \* vecRequestsFulfilled of each peer
          fBlockchainSynced,
          stale,       \* the last call of IsBlockchainSynced is over an hour ago
          chainReady,  \* no import is running and the tip is recent
          tick, pc,    \* of Process
          setbacks

syncVars == <<stage, attempt, last, started, failure, seen>>
chainVars == <<fBlockchainSynced, stale, chainReady>>
netVars == <<vNodes, fulfilled>>
threadVars == <<tick, pc>>
masternodeSyncVars == <<regtest, syncVars, chainVars, netVars, threadVars, setbacks>>

Asset == {"list", "mnw", "budget"}
Stage == {"initial", "sporks", "failed", "finished"} \cup Asset

\* The flag on a peer that has been asked in a stage
Request == [sporks |-> "getspork", list |-> "mnsync", mnw |-> "mnwsync", budget |-> "busync"]
Flag == {Request[s] : s \in DOMAIN Request}

Never == -1
QuietAge == 2 * Timeout + 1
StaleAge == 5 * Timeout + 1
Older(age, limit) == IF age < limit THEN age + 1 ELSE limit

SyncInit ==
  /\ regtest \in BOOLEAN
  /\ stage = "initial" /\ attempt = 0
  /\ last = [a \in Asset |-> Never]
  /\ started = 0 /\ failure = RetryDelay + 1
  /\ seen = [i \in Item |-> 0]
  /\ vNodes = {} /\ fulfilled = [p \in Node |-> {}]
  /\ fBlockchainSynced = FALSE /\ stale = FALSE /\ chainReady \in BOOLEAN
  /\ tick = 0 /\ pc = "sleep"
  /\ setbacks = 0

-----------------------------------------------------------------------------
(* Operations of the class *)

Reset ==
  /\ stage' = "initial" /\ attempt' = 0
  /\ last' = [a \in Asset |-> Never]
  /\ seen' = [i \in Item |-> 0]
  /\ failure' = RetryDelay + 1
  /\ started' = 0

\* Mutant: the sync is not reset after a sleep, only the flag is
WakeUp_NoReset == UNCHANGED syncVars

\* The first call for an hour: the client was in sleep mode
WakeUp == IF stale THEN Reset ELSE UNCHANGED syncVars

\* IsBlockchainSynced returns res; TRY_LOCK(cs_main) may fail
IsBlockchainSynced(res) ==
  /\ res => (fBlockchainSynced /\ ~stale) \/ chainReady
  /\ fBlockchainSynced /\ ~stale => res
  /\ fBlockchainSynced' = res
  /\ stale' = FALSE
  /\ WakeUp
  /\ UNCHANGED chainReady

\* The stage GetNextAsset moves to
NextStage ==
  [initial |-> "sporks", failed |-> "sporks", sporks |-> "list",
   list |-> "mnw", mnw |-> "budget", budget |-> "finished", finished |-> "finished"]

\* GetNextAsset, without the attempt counter: the one use for sporks increments it after
Advance ==
  /\ stage' = NextStage[stage]
  /\ started' = 0
  /\ UNCHANGED <<last, failure, seen>>

\* ClearFulfilledRequest; TRY_LOCK(cs_vNodes) may fail
ClearFulfilledRequest ==
  fulfilled' \in {fulfilled, [p \in Node |-> fulfilled[p] \ Flag]}

\* Mutant: an item refreshes the age each time it is announced
Added_Unlimited(i) ==
  /\ seen' = [seen EXCEPT ![i] = IF @ < Threshold THEN @ + 1 ELSE @]
  /\ last' = [last EXCEPT ![i[1]] = 0]
  /\ UNCHANGED <<regtest, stage, attempt, started, failure, chainVars, netVars,
                 threadVars, setbacks>>

\* AddedMasternodeList, AddedMasternodeWinner, AddedBudgetItem (for an item the budget
\* manager has already stored, which is the case at every call)
Added(i) ==
  /\ seen[i] < Threshold
  /\ seen' = [seen EXCEPT ![i] = @ + 1]
  /\ last' = [last EXCEPT ![i[1]] = 0]
  /\ UNCHANGED <<regtest, stage, attempt, started, failure, chainVars, netVars,
                 threadVars, setbacks>>

-----------------------------------------------------------------------------
(* Process *)

Return == pc' = "after"

\* MilliSleep(1000), then Process is called; it works on every Timeout-th call
Sleep1s ==
  /\ pc = "sleep"
  /\ tick' = (tick + 1) % Timeout
  /\ pc' = IF tick = 0 THEN "process" ELSE "after"
  /\ last' = [a \in Asset |-> IF last[a] = Never THEN Never ELSE Older(last[a], QuietAge)]
  /\ started' = Older(started, StaleAge)
  /\ failure' = Older(failure, RetryDelay + 1)
  /\ UNCHANGED <<regtest, stage, attempt, seen, chainVars, netVars, setbacks>>

\* Mutant: the delay is never over
RetryDue_Never == FALSE

RetryDue == failure > RetryDelay

\* Synced, and mnodeman still has an enabled masternode; or failed a moment ago
ProcessNothing ==
  /\ pc = "process"
  /\ stage = "finished" \/ (stage = "failed" /\ ~RetryDue)
  /\ Return
  /\ UNCHANGED <<regtest, syncVars, chainVars, netVars, tick, setbacks>>

\* From the initial stage, or after a Reset, the sync starts with the sporks
ProcessStart ==
  /\ pc = "process"
  /\ \/ stage = "initial"
     \/ stage = "finished"                             \* CountEnabled() = 0
     \/ stage = "failed" /\ RetryDue
  /\ stage' = "sporks" /\ attempt' = 0
  /\ started' = 0
  /\ IF stage = "initial"
       THEN UNCHANGED <<last, seen, failure>>
       ELSE /\ last' = [a \in Asset |-> Never]
            /\ seen' = [i \in Item |-> 0]
            /\ failure' = RetryDelay + 1
  /\ ClearFulfilledRequest
  /\ pc' = "gate"
  /\ UNCHANGED <<regtest, chainVars, vNodes, tick, setbacks>>

ProcessContinue ==
  /\ pc = "process"
  /\ stage \in {"sporks"} \cup Asset
  /\ pc' = "gate"
  /\ UNCHANGED <<regtest, syncVars, chainVars, netVars, tick, setbacks>>

\* "wait until we're almost at a recent block to continue"; read after WakeUp
GateStops(res) == ~res /\ stage' \notin {"initial", "sporks"}

ProcessGate ==
  /\ pc = "gate"
  /\ IF regtest
       THEN pc' = "loop" /\ UNCHANGED <<syncVars, chainVars>>
       ELSE \E res \in BOOLEAN :
              /\ IsBlockchainSynced(res)
              /\ pc' = IF GateStops(res) THEN "after" ELSE "loop"
  /\ UNCHANGED <<regtest, netVars, tick, setbacks>>

\* TRY_LOCK(cs_vNodes) failed, or no peer leads to a step
LoopNothing ==
  /\ pc = "loop"
  /\ Return
  /\ UNCHANGED <<regtest, syncVars, chainVars, netVars, tick, setbacks>>

\* The loop on a regtest network stops at the first peer
LoopRegtest ==
  /\ pc = "loop" /\ regtest /\ vNodes # {}
  /\ stage' = IF attempt < 6 THEN stage ELSE "finished"
  /\ attempt' = attempt + 1
  /\ Return
  /\ UNCHANGED <<regtest, last, started, failure, seen, chainVars, netVars, tick, setbacks>>

\* Peers that have not been asked in this stage
NotAsked(s) == {p \in vNodes : Request[s] \notin fulfilled[p]}
AskNode(p, s) == fulfilled' = [fulfilled EXCEPT ![p] = @ \cup {Request[s]}]

\* Three peers are asked for sporks; the third answer is not waited for
LoopSporks(p) ==
  /\ pc = "loop" /\ ~regtest /\ stage = "sporks"
  /\ p \in NotAsked("sporks")
  /\ AskNode(p, "sporks")
  /\ IF attempt >= 2
       THEN Advance /\ attempt' = 1
       ELSE /\ attempt' = attempt + 1
            /\ UNCHANGED <<stage, last, started, failure, seen>>
  /\ Return
  /\ UNCHANGED <<regtest, vNodes, chainVars, tick, setbacks>>

\* Peers recent enough for the list, the winners and the budget
NewNode == vNodes \ OldNode

\* Items have arrived and then none for a while
Quiet == last[stage] # Never /\ last[stage] > 2 * Timeout /\ attempt >= Threshold

TimedOut ==
  /\ last[stage] = Never
  /\ attempt >= 3 * Threshold \/ started > 5 * Timeout

LoopQuiet ==
  /\ pc = "loop" /\ ~regtest /\ stage \in Asset
  /\ NewNode # {}
  /\ Quiet
  /\ Advance /\ attempt' = 0
  /\ Return
  /\ UNCHANGED <<regtest, netVars, chainVars, tick, setbacks>>

\* List and winners: the timeout is looked at for a peer not yet asked, which is then
\* marked as asked.  Whether it is a failure depends on spork 8.
LoopTimeout(p) ==
  /\ pc = "loop" /\ ~regtest /\ stage \in {"list", "mnw"}
  /\ ~Quiet
  /\ p \in NotAsked(stage) \cap NewNode
  /\ TimedOut
  /\ AskNode(p, stage)
  /\ \/ Advance
     \/ stage' = "failed" /\ failure' = 0 /\ UNCHANGED <<last, started, seen>>
  /\ attempt' = 0
  /\ Return
  /\ UNCHANGED <<regtest, vNodes, chainVars, tick, setbacks>>

\* Budget: maybe there are no budgets at all, so just finish
LoopNoBudget ==
  /\ pc = "loop" /\ ~regtest /\ stage = "budget"
  /\ NewNode # {}
  /\ TimedOut
  /\ Advance /\ attempt' = 0
  /\ Return
  /\ UNCHANGED <<regtest, netVars, chainVars, tick, setbacks>>

LoopAsk(p) ==
  /\ pc = "loop" /\ ~regtest /\ stage \in Asset
  /\ ~Quiet /\ ~TimedOut
  /\ p \in NotAsked(stage) \cap NewNode
  /\ AskNode(p, stage)
  /\ IF attempt >= 3 * Threshold
       THEN UNCHANGED attempt
       ELSE attempt' = attempt + 1
  /\ Return
  /\ UNCHANGED <<regtest, stage, last, started, failure, seen, vNodes, chainVars, tick, setbacks>>

\* The thread calls IsBlockchainSynced once more before it sleeps
AfterProcess ==
  /\ pc = "after"
  /\ pc' = "sleep"
  /\ \E res \in BOOLEAN : IsBlockchainSynced(res)
  /\ UNCHANGED <<regtest, netVars, tick, setbacks>>

Loop ==
  \/ LoopRegtest \/ LoopQuiet \/ LoopNoBudget
  \/ \E p \in Node : LoopSporks(p) \/ LoopTimeout(p) \/ LoopAsk(p)

-----------------------------------------------------------------------------
(* Other threads and the environment *)

\* A handler of the message thread asks whether the blockchain is synced
MessageHandler ==
  /\ \E res \in BOOLEAN : IsBlockchainSynced(res)
  /\ UNCHANGED <<regtest, netVars, threadVars, setbacks>>

\* RPC "mnsync reset"
MnsyncReset ==
  /\ setbacks < MaxSetbacks
  /\ setbacks' = setbacks + 1
  /\ Reset
  /\ UNCHANGED <<regtest, chainVars, netVars, threadVars>>

\* The computer sleeps for more than an hour
SleepMode ==
  /\ setbacks < MaxSetbacks
  /\ setbacks' = setbacks + 1
  /\ stale' = TRUE
  /\ last' = [a \in Asset |-> IF last[a] = Never THEN Never ELSE QuietAge]
  /\ started' = StaleAge /\ failure' = RetryDelay + 1
  /\ chainReady' \in BOOLEAN
  /\ UNCHANGED <<regtest, stage, attempt, seen, fBlockchainSynced, netVars, threadVars>>

\* A peer takes a free slot, or at once the slot of one that leaves
ConnectNode(p) ==
  /\ vNodes' = vNodes \cup {p}
  /\ fulfilled' = [fulfilled EXCEPT ![p] = {}]
  /\ UNCHANGED <<regtest, syncVars, chainVars, threadVars, setbacks>>

DisconnectNode(p) ==
  /\ p \in vNodes
  /\ setbacks < MaxSetbacks
  /\ setbacks' = setbacks + 1
  /\ vNodes' = vNodes \ {p}
  /\ fulfilled' = [fulfilled EXCEPT ![p] = {}]
  /\ UNCHANGED <<regtest, syncVars, chainVars, threadVars>>

\* The import ends and blocks arrive
ChainReady ==
  /\ ~chainReady
  /\ chainReady' = TRUE
  /\ UNCHANGED <<regtest, syncVars, fBlockchainSynced, stale, netVars, threadVars, setbacks>>

Process == ProcessNothing \/ ProcessStart \/ ProcessContinue \/ ProcessGate \/ Loop \/ LoopNothing

SyncNext ==
  \/ Sleep1s \/ Process \/ AfterProcess
  \/ \E i \in Item : Added(i)
  \/ MessageHandler \/ MnsyncReset \/ SleepMode \/ ChainReady
  \/ \E p \in Node : ConnectNode(p) \/ DisconnectNode(p)

SyncSpec == SyncInit /\ [][SyncNext]_masternodeSyncVars

\* The thread of Process runs forever and a TRY_LOCK does not fail every time
ThreadFairness ==
  /\ WF_masternodeSyncVars(Sleep1s) /\ WF_masternodeSyncVars(Process) /\ WF_masternodeSyncVars(AfterProcess)
  /\ SF_masternodeSyncVars(Loop)
  /\ WF_masternodeSyncVars(ChainReady)
  /\ SF_masternodeSyncVars(AfterProcess /\ fBlockchainSynced')

\* New peers keep taking the slots of old ones
FairSyncSpec ==
  /\ SyncSpec
  /\ ThreadFairness
  /\ \A p \in Node : SF_masternodeSyncVars(ConnectNode(p) /\ fulfilled[p] # {})
  /\ \A p \in Node : WF_masternodeSyncVars(ConnectNode(p) /\ p \notin vNodes)

-----------------------------------------------------------------------------
(* Properties *)

\* No stage after the masternode list is entered, and none is reported as finished or
\* failed, unless the blockchain has been seen synced since the last sleep: Reset in one
\* thread and Process in another never leave the stage ahead of the flag.
NoAdvanceBeforeChain ==
  ~regtest /\ stage \notin {"initial", "sporks", "list"} => fBlockchainSynced

\* A sync never gets stuck, whatever the peers answer: it finishes or fails again and again.
SyncSettles == []<>(stage \in {"finished", "failed"})

\* A failed sync is retried ("will retry later").
FailedIsRetried == stage = "failed" ~> stage # "failed"

=============================================================================
