---------------------------- MODULE BlockDownload ----------------------------
(***************************************************************************)
(* How a node gets blocks from its peers (main.cpp): the "inv" and "block" *)
(* messages, SendMessages with FindNextBlocksToDownload, the timeouts, and *)
(* at the other end "getblocks", "getdata" and the announcement of a new   *)
(* tip, which are the same program run by the peer.  Headers-first sync is *)
(* off on every network (chainparams.cpp:236) and there is no store of     *)
(* blocks without a parent: such a block is dropped, and asked for again.  *)
(*                                                                         *)
(* Blocks form a tree; a chain is named by its last block.  All peers are  *)
(* outbound, so that every one is a preferred download peer.  Validation   *)
(* and activation are module ChainActivation; here a block is stored, or   *)
(* its stake is refused and only its header stays in mapBlockIndex.        *)
(***************************************************************************)
EXTENDS Integers, Sequences, FiniteSets, Functions

CONSTANTS Block, Genesis,
          Prev,          \* the parent of a block; Genesis is its own
          Height,
          StakeRefused,  \* blocks that AcceptBlock may refuse without marking them
          Submitted,     \* blocks that also come from submitblock
          Peer,
          Tips,          \* the tips a peer may have
          InvLimit,      \* nLimit of "getblocks" (500)
          BLOCK_DOWNLOAD_WINDOW, MAX_BLOCKS_IN_TRANSIT_PER_PEER,
          MaxUpsets,      \* connections lost and blocks submitted: a bound for TLC
          None

ASSUME BlockDownloadAssumption ==
  /\ Genesis \in Block /\ Prev[Genesis] = Genesis /\ Height[Genesis] = 0
  /\ \A b \in Block \ {Genesis} : Prev[b] \in Block /\ Height[b] = Height[Prev[b]] + 1
  /\ \A b \in Block : Height[b] \in Nat
  /\ StakeRefused \subseteq Block /\ Submitted \subseteq Block
  /\ \A p \in Peer : Tips[p] \subseteq Block
  /\ InvLimit \in Nat \ {0} /\ MaxUpsets \in Nat
  /\ BLOCK_DOWNLOAD_WINDOW \in Nat /\ MAX_BLOCKS_IN_TRANSIT_PER_PEER \in Nat \ {0}
  /\ None \notin Block \cup Peer

VARIABLES
  mapBlockIndex, haveData, tip,          \* this node's blocks
  mapBlocksInFlight,                     \* block -> peer it was asked from
  nodeState,                             \* peer -> CNodeState and CNode fields
  requests, replies,                     \* the two directions of each connection
  peer,                                  \* peer -> the state of the node at the other end
  upsets

blockVars == <<mapBlockIndex, haveData, tip>>
vars == <<blockVars, mapBlocksInFlight, nodeState, requests, replies, peer, upsets>>

-----------------------------------------------------------------------------
(* Chains *)

Chain ==
  LET chain[b \in Block] == IF b = Genesis THEN {b} ELSE chain[Prev[b]] \cup {b}
  IN  [b \in Block |-> chain[b]]

Ancestor(b, h) == CHOOSE x \in Chain[b] : Height[x] = h
LastCommonAncestor(a, b) == CHOOSE x \in Chain[a] \cap Chain[b] :
                              \A y \in Chain[a] \cap Chain[b] : Height[y] <= Height[x]
\* The blocks above height h on the way to b, in order
Path(b, h) == [i \in 1..(Height[b] - h) |-> Ancestor(b, h + i)]

\* nChainTx is set: the block and all its ancestors are here
Linked(b, data) == Chain[b] \subseteq data

\* The members of s that are in S, in their order (recursive functions here and below,
\* because the provers cannot reason about SelectSeq and folds)
Kept(s, S) ==
  LET kept[j \in 0..Len(s)] ==
        IF j = 0 THEN <<>>
        ELSE IF s[j] \in S THEN Append(kept[j - 1], s[j]) ELSE kept[j - 1]
  IN  kept

Filter(s, S) == Kept(s, S)[Len(s)]

-----------------------------------------------------------------------------
(* Connections *)

NewState == [connected |-> TRUE, fDisconnect |-> FALSE, fSyncStarted |-> FALSE,
             stalling |-> FALSE, best |-> None, unknown |-> None, common |-> None,
             inFlight |-> <<>>, vBlockRequested |-> {}, goal |-> None]

NoState == [NewState EXCEPT !.connected = FALSE]

Init ==
  /\ mapBlockIndex = {Genesis} /\ haveData = {Genesis} /\ tip = Genesis
  /\ mapBlocksInFlight = <<>>
  /\ nodeState = [p \in Peer |-> NoState]
  /\ requests = [p \in Peer |-> <<>>] /\ replies = [p \in Peer |-> <<>>]
  /\ \E t \in [Peer -> Block] :
       /\ \A p \in Peer : t[p] \in Tips[p]
       /\ peer = [p \in Peer |-> [tip |-> t[p], known |-> {}, hashContinue |-> None]]
  /\ upsets = 0

Connected == {p \in Peer : nodeState[p].connected}
nSyncStarted == Cardinality({p \in Peer : nodeState[p].fSyncStarted})

\* InitializeNode.  goal is the tip the peer starts with, for the properties.
Connect(p) ==
  /\ p \notin Connected
  /\ nodeState' = [nodeState EXCEPT ![p] = [NewState EXCEPT !.goal = peer[p].tip]]
  /\ UNCHANGED <<blockVars, mapBlocksInFlight, requests, replies, peer, upsets>>

Without(f, S) == [x \in DOMAIN f \ S |-> f[x]]

\* Mutant: the blocks of the peer stay in flight
FinalizeInFlight_Kept(p) == mapBlocksInFlight

FinalizeInFlight(p) == Without(mapBlocksInFlight, Range(nodeState[p].inFlight))

\* The socket is closed, by a timeout or by the other end
FinalizeNode(p) ==
  /\ p \in Connected
  /\ upsets < MaxUpsets /\ upsets' = upsets + 1
  /\ mapBlocksInFlight' = FinalizeInFlight(p)
  /\ nodeState' = [nodeState EXCEPT ![p] = NoState]
  /\ requests' = [requests EXCEPT ![p] = <<>>]
  /\ replies' = [replies EXCEPT ![p] = <<>>]
  /\ peer' = [peer EXCEPT ![p].known = {}, ![p].hashContinue = None]
  /\ UNCHANGED blockVars

-----------------------------------------------------------------------------
(* What the node does with a message of peer p *)

\* ProcessBlockAvailability
Available(s) ==
  IF s.unknown \notin mapBlockIndex THEN s
  ELSE [s EXCEPT !.unknown = None,
                 !.best = IF @ = None \/ Height[s.unknown] >= Height[@] THEN s.unknown ELSE @]

UpdateBlockAvailability(st, b) ==
  LET s == Available(st)
  IN  IF b \in mapBlockIndex
        THEN [s EXCEPT !.best = IF @ = None \/ Height[b] >= Height[@] THEN b ELSE @]
        ELSE [s EXCEPT !.unknown = b]

\* The loop over the blocks of an "inv"
AfterInv(st, blocks) ==
  LET after[j \in 0..Len(blocks)] ==
        IF j = 0 THEN st ELSE UpdateBlockAvailability(after[j - 1], blocks[j])
  IN  after

Active(p) == p \in Connected /\ ~nodeState[p].fDisconnect

\* The message ProcessMessages takes next from peer p
HasReply(p, type) == Active(p) /\ replies[p] # <<>> /\ Head(replies[p]).type = type

Ask(p, asked) == requests' = [requests EXCEPT ![p] = @ \o asked]

GetBlocks(stop) == [type |-> "getblocks", tip |-> tip, stop |-> stop]

AlreadyHave(b) == b \in mapBlockIndex

\* "inv": blocks that are not known and not in flight are asked for
Inv(p) ==
  /\ HasReply(p, "inv")
  /\ LET blocks == Head(replies[p]).blocks
         vToFetch == Filter(blocks, {b \in Block : ~AlreadyHave(b)
                                                   /\ b \notin DOMAIN mapBlocksInFlight})
     IN  /\ nodeState' = [nodeState EXCEPT ![p] = AfterInv(@, blocks)[Len(blocks)]]
         /\ Ask(p, IF vToFetch = <<>> THEN <<>>
                   ELSE <<[type |-> "getdata", blocks |-> vToFetch]>>)
  /\ replies' = [replies EXCEPT ![p] = Tail(@)]
  /\ UNCHANGED <<blockVars, mapBlocksInFlight, peer, upsets>>

\* MarkBlockAsReceived, on the state of the peer that owes the block, and on all of them
WithoutBlock(s, b) == [s EXCEPT !.inFlight = Filter(@, Block \ {b}), !.stalling = FALSE]

Received(b) ==
  IF b \notin DOMAIN mapBlocksInFlight THEN nodeState
  ELSE [nodeState EXCEPT ![mapBlocksInFlight[b]] = WithoutBlock(@, b)]

\* ActivateBestChain
BestOf(data) ==
  LET better == {b \in data : Linked(b, data) /\ Height[b] > Height[tip]}
  IN  IF better = {} THEN tip
      ELSE CHOOSE b \in better : \A x \in better : Height[x] <= Height[b]

\* ProcessNewBlock of a block that is stored, or of which only the header is
ProcessNewBlock(b) ==
  /\ mapBlockIndex' = mapBlockIndex \cup {b}
  /\ \/ haveData' = haveData \cup {b} /\ tip' = BestOf(haveData')
     \/ b \in StakeRefused /\ UNCHANGED <<haveData, tip>>
  /\ mapBlocksInFlight' = Without(mapBlocksInFlight, {b})
  /\ nodeState' = Received(b)

\* "block" with an unknown parent: the node asks for the blocks up to this one, and, if
\* that did not help, up to its parent
BlockUnlinked(p) ==
  /\ HasReply(p, "block")
  /\ LET b == Head(replies[p]).block
         stop == IF b \in nodeState[p].vBlockRequested THEN Prev[b] ELSE b
     IN  /\ Prev[b] \notin mapBlockIndex
         /\ Ask(p, <<GetBlocks(stop)>>)
         /\ nodeState' = [nodeState EXCEPT ![p].vBlockRequested = @ \cup {stop}]
  /\ replies' = [replies EXCEPT ![p] = Tail(@)]
  /\ UNCHANGED <<blockVars, mapBlocksInFlight, peer, upsets>>

\* "block" that is new
BlockNew(p) ==
  /\ HasReply(p, "block")
  /\ LET b == Head(replies[p]).block
     IN  Prev[b] \in mapBlockIndex /\ b \notin mapBlockIndex /\ ProcessNewBlock(b)
  /\ replies' = [replies EXCEPT ![p] = Tail(@)]
  /\ UNCHANGED <<requests, peer, upsets>>

\* "block" whose header is known: "Already processed block, skipping", in flight or not
BlockKnown(p) ==
  /\ HasReply(p, "block")
  /\ LET b == Head(replies[p]).block
     IN  Prev[b] \in mapBlockIndex /\ b \in mapBlockIndex
  /\ replies' = [replies EXCEPT ![p] = Tail(@)]
  /\ UNCHANGED <<blockVars, mapBlocksInFlight, nodeState, requests, peer, upsets>>

\* submitblock: a block that comes from the operator, its header perhaps known already
SubmitBlock(b) ==
  /\ b \in Submitted /\ Prev[b] \in mapBlockIndex /\ b \notin haveData
  /\ upsets < MaxUpsets /\ upsets' = upsets + 1
  /\ ProcessNewBlock(b)
  /\ UNCHANGED <<requests, replies, peer>>

-----------------------------------------------------------------------------
(* SendMessages *)

\* One block on the way to the peer's best block, in FindNextBlocksToDownload.  w has the
\* last common block, the blocks to ask for, the peer waited for, and the staller.
FindStep(p, count, nWindowEnd, w, b) ==
  IF w.done THEN w
  ELSE IF b \in haveData THEN [w EXCEPT !.common = IF Linked(b, haveData) THEN b ELSE @]
  ELSE IF b \in DOMAIN mapBlocksInFlight THEN
    [w EXCEPT !.waiting = IF @ = None THEN mapBlocksInFlight[b] ELSE @]
  ELSE IF Height[b] > nWindowEnd THEN
    [w EXCEPT !.done = TRUE,
              !.staller = IF w.blocks = <<>> /\ w.waiting # p THEN w.waiting ELSE @]
  ELSE [w EXCEPT !.blocks = Append(@, b), !.done = Len(w.blocks) + 1 = count]

AfterSteps(p, count, nWindowEnd, w, path) ==
  LET after[j \in 0..Len(path)] ==
        IF j = 0 THEN w ELSE FindStep(p, count, nWindowEnd, after[j - 1], path[j])
  IN  after

\* Mutant: the guess for the last common block is kept
CommonWith_Guess(s, guess) == guess

\* "Go back enough" to a block the peer has
CommonWith(s, guess) == LastCommonAncestor(guess, s.best)

\* FindNextBlocksToDownload for the state s of peer p
FindNextBlocksToDownload(p, st, count) ==
  LET s == Available(st)
      guess == IF s.common # None THEN s.common
               ELSE Ancestor(tip, IF Height[s.best] < Height[tip] THEN Height[s.best] ELSE Height[tip])
      common == CommonWith(s, guess)
      nWindowEnd == Height[common] + BLOCK_DOWNLOAD_WINDOW
      nMaxHeight == IF Height[s.best] < nWindowEnd + 1 THEN Height[s.best] ELSE nWindowEnd + 1
      path == Path(Ancestor(s.best, nMaxHeight), Height[common])
      none == [common |-> s.common, blocks |-> <<>>, waiting |-> None, staller |-> None,
               done |-> FALSE]
      w == IF s.best = None \/ Height[s.best] < Height[tip] THEN none
           ELSE AfterSteps(p, count, nWindowEnd, [none EXCEPT !.common = common], path)[Len(path)]
  IN  [state |-> [s EXCEPT !.common = w.common], blocks |-> w.blocks, staller |-> w.staller]

\* MarkBlockAsInFlight, none of blocks being in flight: the list of the peer, and the map
MarkInFlight(s, blocks) == [s EXCEPT !.inFlight = @ \o blocks]

MarkBlockAsInFlight(p, blocks) ==
  [b \in DOMAIN mapBlocksInFlight \cup Range(blocks) |->
     IF b \in Range(blocks) THEN p ELSE mapBlocksInFlight[b]]

\* recent: the best header is less than six hours old.  late: the time of a staller, or of
\* the first block in flight, is over.
SendMessages(p, recent, late) ==
  /\ Active(p)
  /\ LET old == nodeState[p]
         start == ~old.fSyncStarted /\ (nSyncStarted = 0 \/ recent)
         s == [old EXCEPT !.fSyncStarted = @ \/ start,
                          !.fDisconnect = late /\ (old.stalling \/ old.inFlight # <<>>)]
         room == MAX_BLOCKS_IN_TRANSIT_PER_PEER - Len(s.inFlight)
         found == IF s.fDisconnect \/ room = 0
                    THEN [state |-> s, blocks |-> <<>>, staller |-> None]
                    ELSE FindNextBlocksToDownload(p, s, room)
         new == MarkInFlight(found.state, found.blocks)
         stalls(q) == q = found.staller /\ new.inFlight = <<>>
     IN  /\ nodeState' = [q \in Peer |-> IF q = p THEN new
                                        ELSE [nodeState[q] EXCEPT !.stalling = @ \/ stalls(q)]]
         /\ mapBlocksInFlight' = MarkBlockAsInFlight(p, found.blocks)
         /\ Ask(p, (IF start THEN <<GetBlocks(None)>> ELSE <<>>)
                   \o (IF found.blocks = <<>> THEN <<>>
                       ELSE <<[type |-> "getdata", blocks |-> found.blocks]>>))
  /\ UNCHANGED <<blockVars, replies, peer, upsets>>

-----------------------------------------------------------------------------
(* The other end *)

HasRequest(p, type) == p \in Connected /\ requests[p] # <<>> /\ Head(requests[p]).type = type

\* The last block of chain t in the locator of the asker's tip, which lists the last ten
\* blocks one by one: more than the chains of the instances have
FindForkInGlobalIndex(asker, t) == LastCommonAncestor(asker, t)

\* The blocks a "getblocks" is answered with: after the fork, before the stop block
Upto(b, fork, stop) ==
  IF stop \in Chain[b] /\ Height[stop] > Height[fork] THEN Path(Prev[stop], Height[fork])
  ELSE Path(b, Height[fork])

\* Mutant: the next batch is never triggered
ContinueAt_Never(path) == None

\* hashContinue: the last block of a batch that is full
ContinueAt(path) == IF Len(path) >= InvLimit THEN path[InvLimit] ELSE None

PeerGetBlocks(p) ==
  /\ HasRequest(p, "getblocks")
  /\ LET r == Head(requests[p])
     IN  \E path \in {Upto(peer[p].tip, FindForkInGlobalIndex(r.tip, peer[p].tip), r.stop)} :
           LET next == ContinueAt(path)
               new == Filter(SubSeq(path, 1, IF Len(path) < InvLimit THEN Len(path) ELSE InvLimit),
                             Block \ peer[p].known)
           IN  /\ replies' = [replies EXCEPT ![p] =
                                IF new = <<>> THEN @ ELSE Append(@, [type |-> "inv", blocks |-> new])]
               /\ peer' = [peer EXCEPT ![p].known = @ \cup Range(new),
                                       ![p].hashContinue = IF next = None THEN @ ELSE next]
  /\ requests' = [requests EXCEPT ![p] = Tail(@)]
  /\ UNCHANGED <<blockVars, mapBlocksInFlight, nodeState, upsets>>

\* The answer to a "getdata": the blocks, and after the last of a batch an "inv" of the tip, announced or not
Answer(p, b) ==
  <<[type |-> "block", block |-> b]>>
  \o (IF b = peer[p].hashContinue
        THEN <<[type |-> "inv", blocks |-> <<peer[p].tip>>]>> ELSE <<>>)

AfterAnswers(p, blocks) ==
  LET after[j \in 0..Len(blocks)] ==
        IF j = 0 THEN replies[p] ELSE after[j - 1] \o Answer(p, blocks[j])
  IN  after

PeerGetData(p) ==
  /\ HasRequest(p, "getdata")
  /\ LET blocks == Head(requests[p]).blocks
     IN  /\ replies' = [replies EXCEPT ![p] = AfterAnswers(p, blocks)[Len(blocks)]]
         /\ peer' = [peer EXCEPT ![p].hashContinue = IF @ \in Range(blocks) THEN None ELSE @]
  /\ requests' = [requests EXCEPT ![p] = Tail(@)]
  /\ UNCHANGED <<blockVars, mapBlocksInFlight, nodeState, upsets>>

\* The peer gets a better chain and announces its tip
PeerAdvances(p, b) ==
  /\ b \in Tips[p] /\ Height[b] > Height[peer[p].tip]
  /\ LET told == p \in Connected /\ b \notin peer[p].known
     IN  /\ replies' = [replies EXCEPT ![p] =
                          IF told THEN Append(@, [type |-> "inv", blocks |-> <<b>>]) ELSE @]
         /\ peer' = [peer EXCEPT ![p].tip = b,
                                 ![p].known = IF told THEN @ \cup {b} ELSE @]
  /\ UNCHANGED <<blockVars, mapBlocksInFlight, nodeState, requests, upsets>>

-----------------------------------------------------------------------------
Receive(p) == Inv(p) \/ BlockUnlinked(p) \/ BlockNew(p) \/ BlockKnown(p)

PeerAnswers(p) == PeerGetBlocks(p) \/ PeerGetData(p)

Next ==
  \/ \E p \in Peer :
       \/ Connect(p) \/ FinalizeNode(p) \/ Receive(p) \/ PeerAnswers(p)
       \/ \E recent, late \in BOOLEAN : SendMessages(p, recent, late)
       \/ \E b \in Block : PeerAdvances(p, b)
  \/ \E b \in Block : SubmitBlock(b)

Spec == Init /\ [][Next]_vars

\* The message threads of both ends run, and a connection that stays up delivers
Fairness == \A p \in Peer : WF_vars(Receive(p)) /\ WF_vars(PeerAnswers(p))

FairSpec == Spec /\ Fairness

-----------------------------------------------------------------------------
(* Properties *)

\* mapBlocksInFlight and the peers' vBlocksInFlight say the same: each block is in flight
\* from one connected peer, whatever connections were lost or blocks submitted meanwhile
\* (MarkBlockAsReceived erases through an iterator into the other list), and only a peer
\* that still owes a block is timed as a staller.  No peer is asked for more than
\* MAX_BLOCKS_IN_TRANSIT_PER_PEER at once.
InFlightConsistent ==
  /\ \A p \in Peer :
       /\ Range(nodeState[p].inFlight) = {b \in DOMAIN mapBlocksInFlight : mapBlocksInFlight[b] = p}
       /\ IsInjective(nodeState[p].inFlight)
       /\ Len(nodeState[p].inFlight) <= MAX_BLOCKS_IN_TRANSIT_PER_PEER
       /\ nodeState[p].stalling => nodeState[p].inFlight # <<>>
  /\ \A b \in DOMAIN mapBlocksInFlight : mapBlocksInFlight[b] \in Connected

\* pindexLastCommonBlock, "the last full block we both have": all blocks up to it are
\* here, and it is on a chain the peer has or had, although it starts as a guess
CommonIsHeld ==
  \A p \in Peer : LET c == nodeState[p].common IN
    c # None => Linked(c, haveData) /\ \E b \in Tips[p] : c \in Chain[b]

\* As long as no stake is refused, a peer whose sync has started brings the node to the
\* last block but one of the chain the peer had when it connected, however many "getblocks"
\* batches that takes, or is disconnected
SyncCompletes ==
  [](haveData = mapBlockIndex) =>
    \A p \in Peer :
      nodeState[p].fSyncStarted ~>
        \/ ~nodeState[p].fSyncStarted \/ nodeState[p].fDisconnect
        \/ Height[tip] >= Height[nodeState[p].goal] - 1

=============================================================================
