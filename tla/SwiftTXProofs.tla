--------------------------- MODULE SwiftTXProofs ---------------------------
(***************************************************************************)
(* Proofs about transaction locks, for any transactions, masternodes and   *)
(* number of required signatures: a lock never counts a masternode twice,  *)
(* and an empty request never hides one that has not been seen.            *)
(*                                                                         *)
(* Neither is inductive.  That a lock holds no two votes of a masternode   *)
(* follows from what mapTxLockVote remembers, as long as it remembers at   *)
(* least the votes of the locks that exist; that an empty request is made  *)
(* only for a rejected one follows from the locks whose height is known,   *)
(* since only those are ever complete.                                     *)
(***************************************************************************)
EXTENDS SwiftTX, TLAPS

\* The votes of lock l of transaction t are by different masternodes, and in hashes
Signers(l, t, hashes) ==
  l # NoLock =>
    /\ \A k \in DOMAIN l.votes : <<l.votes[k].mn, t>> \in hashes
    /\ \A j, k \in DOMAIN l.votes : l.votes[j].mn = l.votes[k].mn => j = k

VotesRemembered == \A t \in Tx : Signers(mapTxLocks[t], t, mapTxLockVote)

\* CreateNewLock, which finds out the height, is called only for a request
KnownIsRequested ==
  \A t \in Tx : mapTxLocks[t] # NoLock /\ mapTxLocks[t].known
                  => mapTxLockReq[t] # "none" \/ t \in mapTxLockReqRejected

IInv == TypeOK /\ VotesRemembered /\ KnownIsRequested /\ RequestNotShadowed

LockMap == [Tx -> Lock \cup {NoLock}]

-----------------------------------------------------------------------------
(* Single locks *)

\* CTransactionLock as CreateNewLock and ProcessConsensusVote make it
LEMMA NewLockFacts ==
  ASSUME NEW known \in BOOLEAN
  PROVE  /\ NewLock(known) \in Lock /\ NewLock(known) # NoLock
         /\ NewLock(known).votes = <<>> /\ NewLock(known).known = known
<1>1. NewLock(known) \in Lock
  BY DEF NewLock, Lock
<1>2. QED
  BY <1>1, SwiftAssumption DEF NewLock

\* A new lock has no votes
LEMMA NoSigners ==
  ASSUME NEW l, NEW t, NEW hashes, l.votes = <<>>
  PROVE  Signers(l, t, hashes)
<1>1. \A k : k \notin DOMAIN <<>>
  OBVIOUS
<1>2. \A k : k \notin DOMAIN l.votes
  BY <1>1
<1>3. QED
  BY <1>2 DEF Signers

\* A field of the lock is set, the votes stay
LEMMA SetFieldFacts ==
  ASSUME NEW l \in Lock
  PROVE  /\ [l EXCEPT !.known = TRUE] \in Lock /\ [l EXCEPT !.known = TRUE] # NoLock
         /\ [l EXCEPT !.known = TRUE].votes = l.votes
         /\ [l EXCEPT !.due = TRUE] \in Lock /\ [l EXCEPT !.due = TRUE] # NoLock
         /\ [l EXCEPT !.due = TRUE].votes = l.votes
         /\ [l EXCEPT !.due = TRUE].known = l.known
<1>1. [l EXCEPT !.known = TRUE] \in Lock /\ [l EXCEPT !.due = TRUE] \in Lock
  BY DEF Lock
<1>2. QED
  BY <1>1, SwiftAssumption DEF Lock

\* AddSignature puts the vote at the end
LEMMA AddVoteFacts ==
  ASSUME NEW l \in Lock, NEW v \in Vote
  PROVE  LET x == [l EXCEPT !.votes = Append(@, v)]
         IN  /\ x \in Lock /\ x # NoLock /\ x.known = l.known
             /\ x.votes = Append(l.votes, v)
<1>1. l.votes \in Seq(Vote) /\ Append(l.votes, v) \in Seq(Vote)
  BY DEF Lock
<1>2. [l EXCEPT !.votes = Append(@, v)] \in Lock
  BY <1>1 DEF Lock
<1>3. QED
  BY <1>2, SwiftAssumption DEF Lock

\* A masternode whose vote is not in hashes signs a lock whose votes are
LEMMA AddSigner ==
  ASSUME NEW t, NEW hashes, NEW l \in Lock, Signers(l, t, hashes), NEW v \in Vote,
         <<v.mn, t>> \notin hashes
  PROVE  Signers([l EXCEPT !.votes = Append(@, v)], t, hashes \cup {<<v.mn, t>>})
<1> DEFINE x == [l EXCEPT !.votes = Append(@, v)]
<1>1. l # NoLock /\ l.votes \in Seq(Vote)
  BY SwiftAssumption DEF Lock
<1>2. x.votes = Append(l.votes, v)
  BY AddVoteFacts
<1>3. /\ DOMAIN x.votes = 1..(Len(l.votes) + 1) /\ DOMAIN l.votes = 1..Len(l.votes)
      /\ Len(l.votes) \in Nat
      /\ \A k \in 1..Len(l.votes) : x.votes[k] = l.votes[k]
      /\ x.votes[Len(l.votes) + 1] = v
  BY <1>1, <1>2
<1> HIDE DEF x
<1>4. \A k \in DOMAIN l.votes : <<l.votes[k].mn, t>> \in hashes /\ l.votes[k].mn # v.mn
  BY <1>1 DEF Signers
<1>5. \A k \in DOMAIN x.votes : k \in DOMAIN l.votes \/ k = Len(l.votes) + 1
  BY <1>3
<1>6. \A k \in DOMAIN x.votes : <<x.votes[k].mn, t>> \in hashes \cup {<<v.mn, t>>}
  BY <1>3, <1>4, <1>5
<1>7. \A j, k \in DOMAIN x.votes : x.votes[j].mn = x.votes[k].mn => j = k
  BY <1>1, <1>3, <1>4, <1>5 DEF Signers
<1>8. QED
  BY <1>6, <1>7 DEF Signers, x

-----------------------------------------------------------------------------
(* The map of locks *)

\* CreateNewLock changes the lock of t only, and no votes
LEMMA CreateNewLockFacts ==
  ASSUME TypeOK, VotesRemembered, NEW t \in Tx, NEW aged \in BOOLEAN
  PROVE  /\ CreateNewLock(t, aged) \in LockMap
         /\ \A s \in Tx : Signers(CreateNewLock(t, aged)[s], s, mapTxLockVote)
         /\ \A s \in Tx \ {t} : CreateNewLock(t, aged)[s] = mapTxLocks[s]
<1> DEFINE new == IF mapTxLocks[t] = NoLock THEN NewLock(TRUE)
                  ELSE [mapTxLocks[t] EXCEPT !.known = TRUE]
<1>1. mapTxLocks \in LockMap /\ Signers(mapTxLocks[t], t, mapTxLockVote)
  BY DEF TypeOK, LockMap, VotesRemembered
<1>2. new \in Lock /\ Signers(new, t, mapTxLockVote)
  <2>1. CASE mapTxLocks[t] = NoLock
    <3>1. new = NewLock(TRUE)
      BY <2>1
    <3>2. new \in Lock /\ new.votes = <<>>
      BY <3>1, NewLockFacts
    <3> HIDE DEF new
    <3>3. QED
      BY <3>2, NoSigners
  <2>2. CASE mapTxLocks[t] # NoLock
    <3>1. mapTxLocks[t] \in Lock
      BY <1>1, <2>2 DEF LockMap
    <3>2. new = [mapTxLocks[t] EXCEPT !.known = TRUE]
      BY <2>2
    <3>3. new \in Lock /\ new.votes = mapTxLocks[t].votes
      BY <3>1, <3>2, SetFieldFacts
    <3>4. QED
      BY <1>1, <2>2, <3>3 DEF Signers
  <2>3. QED
    BY <2>1, <2>2
<1>3. CreateNewLock(t, aged) = IF ~aged THEN mapTxLocks ELSE [mapTxLocks EXCEPT ![t] = new]
  BY DEF CreateNewLock
<1> HIDE DEF new
<1>4. CASE ~aged
  BY <1>1, <1>3, <1>4 DEF VotesRemembered
<1>5. CASE aged
  <2>1. CreateNewLock(t, aged) = [mapTxLocks EXCEPT ![t] = new]
    BY <1>3, <1>5
  <2>2. [mapTxLocks EXCEPT ![t] = new] \in LockMap
    BY <1>1, <1>2 DEF LockMap
  <2>3. \A s \in Tx : [mapTxLocks EXCEPT ![t] = new][s] = IF s = t THEN new ELSE mapTxLocks[s]
    BY <1>1 DEF LockMap
  <2>4. QED
    BY <1>2, <2>1, <2>2, <2>3 DEF VotesRemembered
<1>6. QED
  BY <1>4, <1>5

\* The locks are the same but for their expiration
SameVotes(old, new) ==
  /\ new \in LockMap
  /\ \A s \in Tx : /\ old[s] = NoLock <=> new[s] = NoLock
                   /\ old[s] # NoLock => new[s].votes = old[s].votes /\ new[s].known = old[s].known

\* CheckForConflictingLocks changes no votes and no height
LEMMA CancelledFacts ==
  ASSUME NEW locks \in LockMap, NEW t, NEW u
  PROVE  SameVotes(locks, Cancelled(locks, t, u))
<1> DEFINE c(s) == IF s \in {t, u} /\ locks[s] # NoLock THEN [locks[s] EXCEPT !.due = TRUE]
                   ELSE locks[s]
<1>1. ASSUME NEW s \in Tx
      PROVE  /\ c(s) \in Lock \cup {NoLock}
             /\ locks[s] = NoLock <=> c(s) = NoLock
             /\ locks[s] # NoLock => c(s).votes = locks[s].votes /\ c(s).known = locks[s].known
  <2>1. CASE s \in {t, u} /\ locks[s] # NoLock
    <3>1. locks[s] \in Lock
      BY <2>1 DEF LockMap
    <3>2. c(s) = [locks[s] EXCEPT !.due = TRUE]
      BY <2>1
    <3>3. QED
      BY <2>1, <3>1, <3>2, SetFieldFacts
  <2>2. CASE ~(s \in {t, u} /\ locks[s] # NoLock)
    <3>1. c(s) = locks[s]
      BY <2>2
    <3>2. QED
      BY <3>1 DEF LockMap
  <2>3. QED
    BY <2>1, <2>2
<1>2. Cancelled(locks, t, u) = [s \in Tx |-> c(s)]
  BY DEF Cancelled
<1> HIDE DEF c
<1>3. QED
  BY <1>1, <1>2 DEF LockMap, SameVotes

\* ProcessConsensusVote adds a vote that has not been seen
LEMMA WithVoteFacts ==
  ASSUME TypeOK, VotesRemembered, NEW m \in Masternode, NEW t \in Tx, NEW right \in BOOLEAN,
         <<m, t>> \notin mapTxLockVote
  PROVE  LET locks == WithVote(m, t, right)
         IN  /\ locks \in LockMap
             /\ \A s \in Tx : Signers(locks[s], s, mapTxLockVote \cup {<<m, t>>})
             /\ \A s \in Tx \ {t} : locks[s] = mapTxLocks[s]
             /\ locks[t] # NoLock
             /\ locks[t].known => mapTxLocks[t] # NoLock /\ mapTxLocks[t].known
<1> DEFINE l == IF mapTxLocks[t] = NoLock THEN NewLock(FALSE) ELSE mapTxLocks[t]
           v == [mn |-> m, right |-> right]
           x == [l EXCEPT !.votes = Append(@, v)]
           hashes == mapTxLockVote \cup {<<m, t>>}
<1>1. mapTxLocks \in LockMap /\ \A s \in Tx : Signers(mapTxLocks[s], s, mapTxLockVote)
  BY DEF TypeOK, LockMap, VotesRemembered
<1>2. /\ l \in Lock /\ Signers(l, t, mapTxLockVote)
      /\ l.known => mapTxLocks[t] # NoLock /\ mapTxLocks[t].known
  <2>1. CASE mapTxLocks[t] = NoLock
    <3>1. l = NewLock(FALSE)
      BY <2>1
    <3>2. l \in Lock /\ l.votes = <<>> /\ l.known = FALSE
      BY <3>1, NewLockFacts
    <3> HIDE DEF l
    <3>3. QED
      BY <3>2, NoSigners
  <2>2. CASE mapTxLocks[t] # NoLock
    BY <1>1, <2>2 DEF LockMap
  <2>3. QED
    BY <2>1, <2>2
<1>3. v \in Vote /\ v.mn = m
  BY DEF Vote
<1>4. WithVote(m, t, right) = [mapTxLocks EXCEPT ![t] = x]
  BY DEF WithVote
<1> HIDE DEF l, v
<1>5. x \in Lock /\ x # NoLock /\ x.known = l.known
  BY <1>2, <1>3, AddVoteFacts
<1>6. Signers(x, t, hashes)
  BY <1>2, <1>3, AddSigner
<1> HIDE DEF x
<1>7. ASSUME NEW s \in Tx \ {t} PROVE Signers(mapTxLocks[s], s, hashes)
  BY <1>1 DEF Signers
<1>8. [mapTxLocks EXCEPT ![t] = x] \in LockMap
  BY <1>1, <1>5 DEF LockMap
<1>9. \A s \in Tx : [mapTxLocks EXCEPT ![t] = x][s] = IF s = t THEN x ELSE mapTxLocks[s]
  BY <1>1 DEF LockMap
<1>10. QED
  BY <1>2, <1>4, <1>5, <1>6, <1>7, <1>8, <1>9

\* A lock without a height is never complete
LEMMA CompleteIsKnown ==
  ASSUME NEW l, Complete(l)
  PROVE  l # NoLock /\ l.known
BY SwiftAssumption DEF Complete, CountSignatures

\* The maps of inputs keep their type
LEMMA LockedType ==
  ASSUME TypeOK, NEW t \in Tx, NEW ins
  PROVE  Locked(t, ins) \in [Input -> Tx \cup {NoTx}]
BY DEF TypeOK, Locked

LEMMA ReprocessedType ==
  ASSUME TypeOK, NEW locked
  PROVE  Reprocessed(locked) \subseteq Tx
BY DEF TypeOK, Reprocessed

-----------------------------------------------------------------------------
(* One lemma per action *)

LEMMA IxAcceptedInv ==
  ASSUME IInv, NEW t \in Tx, NEW aged \in BOOLEAN, IxAccepted(t, aged)
  PROVE  IInv'
<1> USE DEF IInv
<1>1. /\ mapTxLocks' \in LockMap
      /\ \A s \in Tx : Signers(mapTxLocks'[s], s, mapTxLockVote)
      /\ \A s \in Tx \ {t} : mapTxLocks'[s] = mapTxLocks[s]
  BY CreateNewLockFacts DEF IxAccepted
<1>2. mapTxLockVote \subseteq mapTxLockVote' /\ mapTxLockVote' \subseteq Masternode \X Tx
  BY SwiftAssumption DEF IxAccepted, DoConsensusVote, TypeOK
<1>3. TypeOK'
  BY <1>1, <1>2 DEF IxAccepted, TypeOK, LockMap
<1>4. VotesRemembered'
  BY <1>1, <1>2 DEF VotesRemembered, Signers
<1>5. KnownIsRequested'
  BY <1>1 DEF IxAccepted, KnownIsRequested, TypeOK
<1>6. RequestNotShadowed'
  BY DEF IxAccepted, RequestNotShadowed, TypeOK
<1>7. QED
  BY <1>3, <1>4, <1>5, <1>6

LEMMA IxRejectedInv ==
  ASSUME IInv, NEW t \in Tx, NEW aged \in BOOLEAN, IxRejected(t, aged)
  PROVE  IInv'
<1> USE DEF IInv
<1> DEFINE locks == CreateNewLock(t, aged)
           locked == Locked(t, Ins[t])
<1>1. /\ locks \in LockMap
      /\ \A s \in Tx : Signers(locks[s], s, mapTxLockVote)
      /\ \A s \in Tx \ {t} : locks[s] = mapTxLocks[s]
  BY CreateNewLockFacts
<1>2. locked \in [Input -> Tx \cup {NoTx}] /\ Reprocessed(locked) \subseteq Tx
  BY LockedType, ReprocessedType
<1>3. /\ mapTxLockReqRejected' = mapTxLockReqRejected \cup {t}
      /\ mapLockedInputs' = locked /\ UNCHANGED <<mapTxLockVote, pool>>
      /\ mapTxLockReq' \in {mapTxLockReq, [mapTxLockReq EXCEPT ![t] = "tx"]}
      /\ confirmed' \in {confirmed, Reprocessed(locked)}
      /\ \/ mapTxLocks' = locks
         \/ \E i \in Conflicts(t, locked) : mapTxLocks' = Cancelled(locks, t, locked[i])
  BY DEF IxRejected
<1> HIDE DEF locks, locked
<1>4. /\ mapTxLocks' \in LockMap
      /\ \A s \in Tx : Signers(mapTxLocks'[s], s, mapTxLockVote)
      /\ \A s \in Tx : mapTxLocks'[s] # NoLock /\ mapTxLocks'[s].known
                         => locks[s] # NoLock /\ locks[s].known
  <2>1. CASE mapTxLocks' = locks
    BY <1>1, <2>1
  <2>2. CASE \E i \in Conflicts(t, locked) : mapTxLocks' = Cancelled(locks, t, locked[i])
    <3>1. PICK u : mapTxLocks' = Cancelled(locks, t, u)
      BY <2>2
    <3>2. SameVotes(locks, mapTxLocks')
      BY <1>1, <3>1, CancelledFacts
    <3>3. QED
      BY <1>1, <3>2 DEF SameVotes, Signers
  <2>3. QED
    BY <1>3, <2>1, <2>2
<1>5. TypeOK'
  BY <1>2, <1>3, <1>4 DEF TypeOK, LockMap
<1>6. VotesRemembered'
  BY <1>3, <1>4 DEF VotesRemembered
<1>7. KnownIsRequested'
  BY <1>1, <1>3, <1>4 DEF KnownIsRequested, TypeOK
<1>8. RequestNotShadowed'
  BY <1>3 DEF RequestNotShadowed, TypeOK
<1>9. QED
  BY <1>5, <1>6, <1>7, <1>8

LEMMA SendInv ==
  ASSUME IInv, NEW t \in Tx, NEW aged \in BOOLEAN, Send(t, aged)
  PROVE  IInv'
<1> USE DEF IInv
<1>1. /\ mapTxLocks' \in LockMap
      /\ \A s \in Tx : Signers(mapTxLocks'[s], s, mapTxLockVote)
      /\ \A s \in Tx \ {t} : mapTxLocks'[s] = mapTxLocks[s]
  BY CreateNewLockFacts DEF Send
<1>2. /\ mapTxLockReq' \in [Tx -> {"none", "tx", "empty"}]
      /\ mapTxLockReq'[t] # "none"
      /\ mapTxLockReq'[t] = "empty" => mapTxLockReq[t] = "empty"
      /\ \A s \in Tx \ {t} : mapTxLockReq'[s] = mapTxLockReq[s]
  BY DEF Send, TypeOK
<1>3. TypeOK'
  BY <1>1, <1>2 DEF Send, TypeOK, LockMap
<1>4. VotesRemembered'
  BY <1>1 DEF Send, VotesRemembered
<1>5. KnownIsRequested'
  BY <1>1, <1>2 DEF Send, KnownIsRequested
<1>6. RequestNotShadowed'
  BY <1>2 DEF Send, RequestNotShadowed
<1>7. QED
  BY <1>3, <1>4, <1>5, <1>6

LEMMA VoteRefusedInv ==
  ASSUME IInv, NEW m \in Masternode, NEW t \in Tx, VoteRefused(m, t)
  PROVE  IInv'
<1>1. TypeOK'
  BY DEF IInv, VoteRefused, TypeOK
<1>2. VotesRemembered'
  BY DEF IInv, VoteRefused, VotesRemembered, Signers
<1>3. KnownIsRequested' /\ RequestNotShadowed'
  BY DEF IInv, VoteRefused, KnownIsRequested, RequestNotShadowed
<1>4. QED
  BY <1>1, <1>2, <1>3 DEF IInv

LEMMA VoteCountedInv ==
  ASSUME IInv, NEW m \in Masternode, NEW t \in Tx, NEW right \in BOOLEAN,
         VoteCounted(m, t, right)
  PROVE  IInv'
<1> USE DEF IInv
<1> DEFINE locks == WithVote(m, t, right)
           locked == Locked(t, ReqIns(t))
           conflicts == ReqIns(t) \cap Conflicts(t, mapLockedInputs)
           hashes == mapTxLockVote \cup {<<m, t>>}
<1>1. <<m, t>> \notin mapTxLockVote
  BY DEF VoteCounted, VoteKnown
<1>2. /\ locks \in LockMap
      /\ \A s \in Tx : Signers(locks[s], s, hashes)
      /\ \A s \in Tx \ {t} : locks[s] = mapTxLocks[s]
      /\ locks[t].known => mapTxLocks[t] # NoLock /\ mapTxLocks[t].known
  BY <1>1, WithVoteFacts
<1>3. locked \in [Input -> Tx \cup {NoTx}] /\ Reprocessed(locked) \subseteq Tx
  BY LockedType, ReprocessedType
<1>4. /\ mapTxLockVote' = hashes /\ UNCHANGED <<mapTxLockReqRejected, pool>>
      /\ mapLockedInputs' \in {mapLockedInputs, locked}
      /\ confirmed' \in {confirmed, Reprocessed(locked)}
      /\ \/ mapTxLocks' = locks
         \/ \E i \in conflicts : mapTxLocks' = Cancelled(locks, t, mapLockedInputs[i])
      /\ \/ mapTxLockReq' = mapTxLockReq
         \/ /\ Complete(locks[t])
            /\ mapTxLockReq' = [mapTxLockReq EXCEPT ![t] = IF @ = "none" THEN "empty" ELSE @]
  BY DEF VoteCounted
<1> HIDE DEF locks, locked, conflicts, hashes
<1>5. /\ mapTxLocks' \in LockMap
      /\ \A s \in Tx : Signers(mapTxLocks'[s], s, hashes)
      /\ \A s \in Tx : mapTxLocks'[s] # NoLock /\ mapTxLocks'[s].known
                         => locks[s] # NoLock /\ locks[s].known
  <2>1. CASE mapTxLocks' = locks
    BY <1>2, <2>1
  <2>2. CASE \E i \in conflicts : mapTxLocks' = Cancelled(locks, t, mapLockedInputs[i])
    <3>1. PICK u : mapTxLocks' = Cancelled(locks, t, u)
      BY <2>2
    <3>2. SameVotes(locks, mapTxLocks')
      BY <1>2, <3>1, CancelledFacts
    <3>3. QED
      BY <1>2, <3>2 DEF SameVotes, Signers
  <2>3. QED
    BY <1>4, <2>1, <2>2
<1>6. \A s \in Tx : locks[s] # NoLock /\ locks[s].known
                    => mapTxLockReq[s] # "none" \/ s \in mapTxLockReqRejected
  BY <1>2 DEF KnownIsRequested
<1>7. /\ mapTxLockReq' \in [Tx -> {"none", "tx", "empty"}]
      /\ \A s \in Tx : mapTxLockReq[s] # "none" => mapTxLockReq'[s] = mapTxLockReq[s]
      /\ \A s \in Tx : mapTxLockReq'[s] # mapTxLockReq[s] => s \in mapTxLockReqRejected
  <2>1. CASE mapTxLockReq' = mapTxLockReq
    BY <2>1 DEF TypeOK
  <2>2. CASE /\ Complete(locks[t])
             /\ mapTxLockReq' = [mapTxLockReq EXCEPT ![t] = IF @ = "none" THEN "empty" ELSE @]
    <3>1. mapTxLockReq[t] # "none" \/ t \in mapTxLockReqRejected
      BY <1>6, <2>2, CompleteIsKnown
    <3>2. QED
      BY <2>2, <3>1 DEF TypeOK
  <2>3. QED
    BY <1>4, <2>1, <2>2
<1>8. TypeOK'
  BY <1>3, <1>4, <1>5, <1>7 DEF TypeOK, LockMap, hashes
<1>9. VotesRemembered'
  BY <1>4, <1>5 DEF VotesRemembered
<1>10. KnownIsRequested'
  BY <1>4, <1>5, <1>6, <1>7 DEF KnownIsRequested
<1>11. RequestNotShadowed'
  BY <1>4, <1>7 DEF RequestNotShadowed
<1>12. QED
  BY <1>8, <1>9, <1>10, <1>11

\* The votes that are forgotten are those of locks that are forgotten too
LEMMA CleanInv ==
  ASSUME IInv, CleanTransactionLocksList
  PROVE  IInv'
<1> USE DEF IInv
<1> DEFINE requested == {t \in Due : mapTxLockReq[t] # "none"}
<1>1. /\ mapTxLocks' = [t \in Tx |-> IF t \in Due THEN NoLock ELSE mapTxLocks[t]]
      /\ mapTxLockReq' = [t \in Tx |-> IF t \in requested THEN "none" ELSE mapTxLockReq[t]]
      /\ mapTxLockReqRejected' = mapTxLockReqRejected \ requested
      /\ mapTxLockVote' = mapTxLockVote \ UNION {VoteHashes(t) : t \in requested}
      /\ mapLockedInputs' \in [Input -> Tx \cup {NoTx}]
      /\ UNCHANGED <<pool, confirmed>>
  BY DEF CleanTransactionLocksList, LocksAfterClean, TypeOK
<1>2. requested \subseteq Due /\ Due \subseteq Tx
  BY DEF Due
<1> HIDE DEF requested
<1>3. TypeOK'
  BY <1>1, <1>2 DEF TypeOK
<1>4. VotesRemembered'
  <2>1. SUFFICES ASSUME NEW s \in Tx, mapTxLocks'[s] # NoLock
                 PROVE  Signers(mapTxLocks'[s], s, mapTxLockVote')
    BY DEF VotesRemembered, Signers
  <2>2. s \notin requested /\ mapTxLocks'[s] = mapTxLocks[s]
    BY <1>1, <1>2, <2>1
  <2>3. \A n : <<n, s>> \notin UNION {VoteHashes(t) : t \in requested}
    BY <2>2 DEF VoteHashes
  <2>4. Signers(mapTxLocks[s], s, mapTxLockVote)
    BY DEF VotesRemembered
  <2>5. QED
    BY <1>1, <2>1, <2>2, <2>3, <2>4 DEF Signers
<1>5. KnownIsRequested'
  BY <1>1, <1>2 DEF KnownIsRequested
<1>6. RequestNotShadowed'
  BY <1>1, <1>2 DEF RequestNotShadowed
<1>7. QED
  BY <1>3, <1>4, <1>5, <1>6

LEMMA HourPassesInv ==
  ASSUME IInv, NEW t \in Tx, HourPasses(t)
  PROVE  IInv'
<1> USE DEF IInv
<1> DEFINE x == [mapTxLocks[t] EXCEPT !.due = TRUE]
<1>1. /\ mapTxLocks \in LockMap /\ mapTxLocks[t] # NoLock
      /\ mapTxLocks' = [mapTxLocks EXCEPT ![t] = x]
      /\ UNCHANGED <<mapTxLockReq, mapTxLockReqRejected, mapTxLockVote, mapLockedInputs,
                     pool, confirmed>>
  BY DEF HourPasses, TypeOK, LockMap
<1>2. mapTxLocks[t] \in Lock
  BY <1>1 DEF LockMap
<1>3. x \in Lock /\ x.votes = mapTxLocks[t].votes /\ x.known = mapTxLocks[t].known
  BY <1>2, SetFieldFacts
<1> HIDE DEF x
<1>4. /\ mapTxLocks' \in LockMap
      /\ \A s \in Tx : mapTxLocks'[s] = IF s = t THEN x ELSE mapTxLocks[s]
  BY <1>1, <1>3 DEF LockMap
<1>5. TypeOK'
  BY <1>1, <1>4 DEF TypeOK, LockMap
<1>6. VotesRemembered'
  BY <1>1, <1>3, <1>4 DEF VotesRemembered, Signers
<1>7. KnownIsRequested' /\ RequestNotShadowed'
  BY <1>1, <1>3, <1>4 DEF KnownIsRequested, RequestNotShadowed
<1>8. QED
  BY <1>5, <1>6, <1>7

\* The memory pool and the chain do not touch the locks
LEMMA ChainInv ==
  ASSUME IInv, NEW t \in Tx, AcceptToMemoryPool(t) \/ ConnectBlock(t)
  PROVE  IInv'
<1>1. UNCHANGED lockVars /\ pool' \subseteq Tx /\ confirmed' \subseteq Tx
  BY DEF IInv, TypeOK, AcceptToMemoryPool, ConnectBlock
<1>2. TypeOK'
  BY <1>1 DEF IInv, TypeOK, lockVars
<1>3. QED
  BY <1>1, <1>2 DEF IInv, VotesRemembered, KnownIsRequested, RequestNotShadowed, lockVars

-----------------------------------------------------------------------------
\* The invariant is inductive
LEMMA IInvHolds == Spec => []IInv
<1>1. Init => IInv
  <2>1. SUFFICES ASSUME Init PROVE IInv
    OBVIOUS
  <2>2. TypeOK
    BY <2>1 DEF Init, TypeOK
  <2>3. QED
    BY <2>1, <2>2
      DEF Init, IInv, VotesRemembered, Signers, KnownIsRequested, RequestNotShadowed
<1>2. IInv /\ [Next]_vars => IInv'
  <2>1. SUFFICES ASSUME IInv, [Next]_vars PROVE IInv'
    OBVIOUS
  <2>2. CASE UNCHANGED vars
    BY <2>1, <2>2 DEF IInv, TypeOK, VotesRemembered, KnownIsRequested, RequestNotShadowed,
                      vars, lockVars
  <2>3. CASE Next
    BY <2>1, <2>3, IxAcceptedInv, IxRejectedInv, SendInv, VoteRefusedInv, VoteCountedInv,
       CleanInv, HourPassesInv, ChainInv DEF Next
  <2>4. QED
    BY <2>1, <2>2, <2>3
<1>3. QED
  BY <1>1, <1>2, PTL DEF Spec

\* The maps of swifttx.cpp keep their types
THEOREM LocksTyped == Spec => []TypeOK
<1>1. IInv => TypeOK
  BY DEF IInv
<1>2. QED
  BY <1>1, IInvHolds, PTL

\* No lock counts a masternode twice, however votes, requests and the clean-up of
\* ProcessMessageSwiftTX and CleanTransactionLocksList follow each other
THEOREM VotersDiffer == Spec => []OneVotePerMasternode
<1>1. IInv => OneVotePerMasternode
  BY DEF IInv, VotesRemembered, Signers, OneVotePerMasternode
<1>2. QED
  BY <1>1, IInvHolds, PTL

\* The empty transaction that ProcessConsensusVote makes in mapTxLockReq never stands for
\* a request that was not seen
THEOREM EmptyIsRejected == Spec => []RequestNotShadowed
<1>1. IInv => RequestNotShadowed
  BY DEF IInv
<1>2. QED
  BY <1>1, IInvHolds, PTL
=============================================================================
