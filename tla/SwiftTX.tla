------------------------------- MODULE SwiftTX -------------------------------
(***************************************************************************)
(* Transaction locks (swifttx.cpp): a lock request ("ix") names a          *)
(* transaction, masternodes vote for it, and once SWIFTTX_SIGNATURES_      *)
(* REQUIRED votes with the right block height have come the inputs are     *)
(* locked: the memory pool and CheckBlock refuse whatever else spends them.*)
(*                                                                         *)
(* One action per message, per call of the wallet and per call of          *)
(* CleanTransactionLocksList.  A vote is right or wrong about the block    *)
(* height.  Rank, signature, fee and age checks depend on data that is not *)
(* modelled and are free choices.  Relaying and the vote rate limit (which *)
(* only decides about relaying) are left out.                              *)
(***************************************************************************)
EXTENDS Integers, Sequences, FiniteSets

CONSTANTS Tx, Input,
          Ins,              \* the inputs a transaction spends
          Masternode,
          Me,               \* the set of this node's own masternode, or {}
          Required,         \* SWIFTTX_SIGNATURES_REQUIRED
          NoTx, NoLock

\* CConsensusVote; right: its height is the one of the lock
Vote == [mn : Masternode, right : BOOLEAN]

\* CTransactionLock; known: nBlockHeight # 0; due: nExpiration has passed
Lock == [known : BOOLEAN, votes : Seq(Vote), due : BOOLEAN]

ASSUME SwiftAssumption ==
  /\ Ins \in [Tx -> SUBSET Input]
  /\ Me \subseteq Masternode
  /\ Required \in Nat \ {0}
  /\ NoTx \notin Tx
  /\ NoLock \notin Lock

VARIABLES mapTxLockReq,          \* "none", "tx", or "empty": operator[] made it
          mapTxLockReqRejected,
          mapTxLockVote,         \* hashes of votes: pairs of a masternode and a transaction
          mapTxLocks,
          mapLockedInputs,
          pool,                  \* the memory pool
          confirmed              \* transactions of recent blocks

lockVars == <<mapTxLockReq, mapTxLockReqRejected, mapTxLockVote, mapTxLocks, mapLockedInputs>>
vars == <<lockVars, pool, confirmed>>

NewLock(known) == [known |-> known, votes |-> <<>>, due |-> FALSE]

Init ==
  /\ mapTxLockReq = [t \in Tx |-> "none"]
  /\ mapTxLockReqRejected = {} /\ mapTxLockVote = {}
  /\ mapTxLocks = [t \in Tx |-> NoLock]
  /\ mapLockedInputs = [i \in Input |-> NoTx]
  /\ pool = {} /\ confirmed = {}

\* Mutant: votes count before the height is known
CountSignatures_AnyHeight(l) == Cardinality({k \in DOMAIN l.votes : l.votes[k].right})

\* CountSignatures
CountSignatures(l) ==
  IF ~l.known THEN -1 ELSE Cardinality({k \in DOMAIN l.votes : l.votes[k].right})

Complete(l) == l # NoLock /\ CountSignatures(l) >= Required

-----------------------------------------------------------------------------
(* What the memory pool and CheckBlock make of the locked inputs *)

Conflicts(t, locked) == {i \in Ins[t] : locked[i] \notin {NoTx, t}}

Spends(ts) == UNION {Ins[t] : t \in ts}

\* AcceptToMemoryPool, as far as locks and double spends go
Acceptable(t) ==
  /\ t \notin pool
  /\ Conflicts(t, mapLockedInputs) = {}
  /\ Ins[t] \cap Spends(pool \cup confirmed) = {}

\* ReprocessBlocks: recent blocks are disconnected and connected again, and those that
\* conflict with a lock now are refused
Reprocessed(locked) == {u \in confirmed : Conflicts(u, locked) = {}}

\* The inputs that are free are locked for t
Locked(t, ins) ==
  [i \in Input |-> IF i \in ins /\ mapLockedInputs[i] = NoTx THEN t ELSE mapLockedInputs[i]]

\* CheckForConflictingLocks found a conflict: both locks expire now
Cancelled(locks, t, u) ==
  [s \in Tx |-> IF s \in {t, u} /\ locks[s] # NoLock THEN [locks[s] EXCEPT !.due = TRUE]
                ELSE locks[s]]

-----------------------------------------------------------------------------
(* CreateNewLock: nothing for inputs that are too new *)

CreateNewLock(t, aged) ==
  IF ~aged THEN mapTxLocks
  ELSE [mapTxLocks EXCEPT ![t] = IF @ = NoLock THEN NewLock(TRUE) ELSE [@ EXCEPT !.known = TRUE]]

Unknown(t) == mapTxLockReq[t] = "none" /\ t \notin mapTxLockReqRejected

\* The vote hashes DoConsensusVote may add: its own, if this node's rank is high enough
DoConsensusVote(t) == {{}, Me \X {t}}

\* "ix", accepted by the memory pool
IxAccepted(t, aged) ==
  /\ Unknown(t)
  /\ Acceptable(t)
  /\ mapTxLocks' = CreateNewLock(t, aged)
  /\ pool' = pool \cup {t}
  /\ \E own \in DoConsensusVote(t) : mapTxLockVote' = mapTxLockVote \cup own
  /\ mapTxLockReq' = [mapTxLockReq EXCEPT ![t] = "tx"]
  /\ UNCHANGED <<mapTxLockReqRejected, mapLockedInputs, confirmed>>

\* "ix", rejected: the inputs are locked all the same, and a lock that the votes have
\* already completed is enforced or, in a conflict, cancelled
IxRejected(t, aged) ==
  LET locks == CreateNewLock(t, aged)
      locked == Locked(t, Ins[t])
  IN  /\ Unknown(t)
      /\ mapTxLockReqRejected' = mapTxLockReqRejected \cup {t}
      /\ mapLockedInputs' = locked
      /\ \/ /\ ~Complete(locks[t])
            /\ mapTxLocks' = locks
            /\ UNCHANGED <<mapTxLockReq, confirmed>>
         \/ /\ Complete(locks[t]) /\ Conflicts(t, locked) = {}
            /\ mapTxLocks' = locks
            /\ confirmed' = Reprocessed(locked)
            /\ mapTxLockReq' = [mapTxLockReq EXCEPT ![t] = "tx"]
         \/ /\ Complete(locks[t])
            /\ \E i \in Conflicts(t, locked) : mapTxLocks' = Cancelled(locks, t, locked[i])
            /\ UNCHANGED <<mapTxLockReq, confirmed>>
      /\ UNCHANGED <<mapTxLockVote, pool>>

\* The wallet or sendrawtransaction makes a request
Send(t, aged) ==
  /\ t \notin pool \cup confirmed
  /\ mapTxLockReq' = [mapTxLockReq EXCEPT ![t] = IF @ = "none" THEN "tx" ELSE @]
  /\ mapTxLocks' = CreateNewLock(t, aged)
  /\ pool' = IF Acceptable(t) THEN pool \cup {t} ELSE pool
  /\ UNCHANGED <<mapTxLockReqRejected, mapTxLockVote, mapLockedInputs, confirmed>>

-----------------------------------------------------------------------------
(* "txlvote" *)

\* From an unknown or low masternode, or with a bad signature: remembered all the same
VoteRefused(m, t) ==
  /\ <<m, t>> \notin mapTxLockVote
  /\ mapTxLockVote' = mapTxLockVote \cup {<<m, t>>}
  /\ UNCHANGED <<mapTxLockReq, mapTxLockReqRejected, mapTxLocks, mapLockedInputs, pool, confirmed>>

\* The locks with the vote added
WithVote(m, t, right) ==
  LET l == IF mapTxLocks[t] = NoLock THEN NewLock(FALSE) ELSE mapTxLocks[t]
  IN  [mapTxLocks EXCEPT ![t] = [l EXCEPT !.votes = Append(@, [mn |-> m, right |-> right])]]

\* The inputs of mapTxLockReq[t], which is an empty transaction unless t was requested
ReqIns(t) == IF mapTxLockReq[t] = "tx" THEN Ins[t] ELSE {}

\* Mutant: a vote can be counted again
VoteKnown_Never(m, t) == FALSE

VoteKnown(m, t) == <<m, t>> \in mapTxLockVote

VoteCounted(m, t, right) ==
  LET locks == WithVote(m, t, right)
      conflicts == ReqIns(t) \cap Conflicts(t, mapLockedInputs)
      locked == Locked(t, ReqIns(t))
  IN  /\ ~VoteKnown(m, t)
      /\ mapTxLockVote' = mapTxLockVote \cup {<<m, t>>}
      /\ \/ /\ ~Complete(locks[t])
            /\ mapTxLocks' = locks
            /\ UNCHANGED <<mapTxLockReq, mapLockedInputs, confirmed>>
         \/ /\ Complete(locks[t]) /\ conflicts = {}
            /\ mapTxLocks' = locks
            /\ mapTxLockReq' = [mapTxLockReq EXCEPT ![t] = IF @ = "none" THEN "empty" ELSE @]
            /\ mapLockedInputs' = locked
            /\ confirmed' = IF t \in mapTxLockReqRejected THEN Reprocessed(locked) ELSE confirmed
         \/ /\ Complete(locks[t])
            /\ \E i \in conflicts : mapTxLocks' = Cancelled(locks, t, mapLockedInputs[i])
            /\ UNCHANGED <<mapTxLockReq, mapLockedInputs, confirmed>>
      /\ UNCHANGED <<mapTxLockReqRejected, pool>>

-----------------------------------------------------------------------------
(* CleanTransactionLocksList, called once a minute *)

Due == {t \in Tx : mapTxLocks[t] # NoLock /\ mapTxLocks[t].due}

\* Hashes of the votes of a lock
VoteHashes(t) == {<<mapTxLocks[t].votes[k].mn, t>> : k \in DOMAIN mapTxLocks[t].votes}

LocksAfterClean == [t \in Tx |-> IF t \in Due THEN NoLock ELSE mapTxLocks[t]]

CleanTransactionLocksList ==
  LET requested == {t \in Due : mapTxLockReq[t] # "none"}
      released == UNION {ReqIns(t) : t \in requested}
  IN  /\ Due # {}
      /\ mapTxLocks' = LocksAfterClean
      /\ mapLockedInputs' = [i \in Input |-> IF i \in released THEN NoTx ELSE mapLockedInputs[i]]
      /\ mapTxLockReq' = [t \in Tx |-> IF t \in requested THEN "none" ELSE mapTxLockReq[t]]
      /\ mapTxLockReqRejected' = mapTxLockReqRejected \ requested
      /\ mapTxLockVote' = mapTxLockVote \ UNION {VoteHashes(t) : t \in requested}
      /\ UNCHANGED <<pool, confirmed>>

\* An hour has passed since the lock was made
HourPasses(t) ==
  /\ mapTxLocks[t] # NoLock /\ ~mapTxLocks[t].due
  /\ mapTxLocks' = [mapTxLocks EXCEPT ![t].due = TRUE]
  /\ UNCHANGED <<mapTxLockReq, mapTxLockReqRejected, mapTxLockVote, mapLockedInputs, pool, confirmed>>

-----------------------------------------------------------------------------
(* The rest of the node *)

\* "tx": a transaction without a lock request
AcceptToMemoryPool(t) ==
  /\ Acceptable(t)
  /\ pool' = pool \cup {t}
  /\ UNCHANGED <<lockVars, confirmed>>

\* A block with t; CheckBlock refuses it if an input is locked for another transaction
ConnectBlock(t) ==
  /\ t \notin confirmed
  /\ Conflicts(t, mapLockedInputs) = {}
  /\ Ins[t] \cap Spends(confirmed) = {}
  /\ confirmed' = confirmed \cup {t}
  /\ pool' = {u \in pool : u # t /\ Ins[u] \cap Ins[t] = {}}
  /\ UNCHANGED lockVars

Next ==
  \/ \E t \in Tx, aged \in BOOLEAN : IxAccepted(t, aged) \/ IxRejected(t, aged) \/ Send(t, aged)
  \/ \E m \in Masternode, t \in Tx : VoteRefused(m, t)
  \/ \E m \in Masternode, t \in Tx, right \in BOOLEAN : VoteCounted(m, t, right)
  \/ CleanTransactionLocksList
  \/ \E t \in Tx : HourPasses(t) \/ AcceptToMemoryPool(t) \/ ConnectBlock(t)

Spec == Init /\ [][Next]_vars

-----------------------------------------------------------------------------
(* Properties *)

TypeOK ==
  /\ mapTxLockReq \in [Tx -> {"none", "tx", "empty"}]
  /\ mapTxLockReqRejected \subseteq Tx
  /\ mapTxLockVote \subseteq Masternode \X Tx
  /\ mapTxLocks \in [Tx -> Lock \cup {NoLock}]
  /\ mapLockedInputs \in [Input -> Tx \cup {NoTx}]
  /\ pool \subseteq Tx /\ confirmed \subseteq Tx

\* A lock never holds two votes of one masternode, so a complete one has Required
\* different signers, although votes and locks are forgotten independently.
OneVotePerMasternode ==
  \A t \in Tx : mapTxLocks[t] # NoLock =>
    \A j, k \in DOMAIN mapTxLocks[t].votes :
      mapTxLocks[t].votes[j].mn = mapTxLocks[t].votes[k].mn => j = k

\* The empty transaction that mapTxLockReq[] creates in ProcessConsensusVote never stands
\* for a request the node has not seen: a first "ix" is not taken for a repeated one.
RequestNotShadowed == \A t \in Tx : mapTxLockReq[t] = "empty" => t \in mapTxLockReqRejected

=============================================================================
