------------------------- MODULE MasternodePayments -------------------------
(***************************************************************************)
(* The votes of masternodes for who is paid in a block                     *)
(* (masternode-payments.cpp) on one node, itself a masternode: messages    *)
(* that declare a winner ("mnw"), the node's own votes (ProcessBlock), the *)
(* count of votes per height and payee, what FillBlockPayee pays and what  *)
(* IsBlockPayeeValid demands, the clean-up by another thread, and          *)
(* mnpayments.dat.                                                         *)
(*                                                                         *)
(* Who may vote for a height is decided by the masternodes' ranks          *)
(* (GetMasternodeRank in masternodeman.cpp), computed from the hash of a   *)
(* block RankDepth + 1 below that height (GetBlockHash in masternode.cpp,  *)
(* with its cache) over a list that changes, from which SPORK_8 (module    *)
(* Spork) takes the young masternodes.  The chain is connected and         *)
(* disconnected block by block (ChainActivation): a block is its height    *)
(* and a label that stands for its hash.                                   *)
(*                                                                         *)
(* The node is synced (MasternodeSync); budget blocks are not modelled.    *)
(* Messages and ProcessBlock run on one thread, the message handler, as    *)
(* they do on a masternode that does not make blocks itself.               *)
(***************************************************************************)
EXTENDS Spork, Sequences

CONSTANTS Masternode,
          Me,                 \* this node's place in Node
          Self,               \* activeMasternode.vin
          Payee, LevelOf,     \* payees, and the level of the masternode each belongs to
          Level,              \* the levels from begin to end
          Deprecated,         \* the level paid in the transition period
          Label, Main,        \* block hashes, and that of the first blocks
          Score,              \* CalculateScore: for each hash the masternodes' scores
          Child,              \* the labels of the blocks that may follow a block
          Young,              \* masternodes below MN_WINNER_MINIMUM_AGE
          Unstable,           \* masternodes that may leave the list or get another key
          Message,            \* the winners other nodes send
          Reward,             \* GetBlockValue
          SignaturesRequired, SignaturesTotal,
          Ahead,              \* ProcessBlock(GetHeight() + 10)
          MaxAhead,           \* "mnw" up to 20 blocks ahead
          Past,               \* and 1.25 * CountEnabled() blocks back
          Limit,              \* nLimit of CleanPaymentList
          RankDepth,          \* 100
          Start, Settled,     \* height at the start; blocks below are never disconnected
          MaxHeight, VoteHeight,  \* bounds
          Budgets             \* bound: how many events of each kind a behaviour has

Kind == {"vote", "reorg", "list", "spork", "tick", "stop"}

Winner == [vin : Masternode, nBlockHeight : VoteHeight, payee : Payee]

ASSUME PaymentsAssumption ==
  /\ VoteHeight \subseteq Nat /\ Message \subseteq Winner
  /\ {Ahead, MaxAhead, Past, Limit, RankDepth, Start, Settled} \subseteq Nat
  /\ {SignaturesRequired, SignaturesTotal} \subseteq Nat
  /\ Budgets \subseteq [Kind -> Nat]
  /\ IsFiniteSet(Masternode)
  /\ Score \in [Label \cup {Main} -> [Masternode -> Nat]]
  /\ \A x \in Label \cup {Main}, m, n \in Masternode : Score[x][m] = Score[x][n] => m = n
  /\ Me \in Node /\ Self \in Masternode
  /\ LevelOf \in [Payee -> Level \cup {Deprecated}]
  /\ Young \subseteq Masternode /\ Unstable \subseteq Masternode \ {Self}
  /\ 2 * SignaturesRequired > SignaturesTotal
  /\ Ahead <= MaxAhead /\ MaxAhead <= RankDepth + 1 /\ Past <= Limit
  /\ RankDepth + 1 < Settled - Past /\ Settled <= Start /\ Start <= MaxHeight

VARIABLES chain,                    \* chainActive: the labels of its blocks
          mapCacheBlockHashes,
          listed,                   \* vMasternodes
          stale,                    \* those of them whose key we know is an old one
          mapMasternodePayeeVotes,
          mapMasternodeBlocks,      \* height -> [nBlockHeight, votes of each payee]
          mapMasternodesLastVote,   \* (masternode, level) -> height
          nLastBlockHeight,
          adding,      \* winners the message handler is about to give to AddWinningMasternode
          uncounted,   \* the one it has entered and not yet counted
          own,         \* they are this node's, and ProcessBlock adds them
          relayed,     \* this node's votes that its peers have
          file,        \* mnpayments.dat
          highest,     \* history: the greatest height of the chain
          horizon,     \* history: a height above all those voted for before the last restart
          lists,       \* history: for each height, the lists the ranks of its voters came from
          left         \* what is left of the budget

tables == <<mapMasternodePayeeVotes, mapMasternodeBlocks>>
marks == <<mapMasternodesLastVote, nLastBlockHeight>>
work == <<adding, uncounted, own, relayed>>
list == <<listed, stale>>
history == <<horizon, lists>>
vars == <<sporkVars, chain, mapCacheBlockHashes, list, tables, marks, work, file, highest,
          history, left>>

Height == Len(chain)
HandlerFree == adding = {} /\ uncounted = {}

Spend(kind) == left[kind] > 0 /\ left' = [left EXCEPT ![kind] = @ - 1]

\* Nothing is read from a file that is missing or torn
NoFile == [state |-> "none", votes |-> {}, blocks |-> <<>>]
TornFile == [NoFile EXCEPT !.state = "torn"]

Init ==
  /\ SporkInit
  /\ chain = [i \in 1..Start |-> Main]
  /\ mapCacheBlockHashes = <<>>
  /\ listed = Masternode /\ stale = {}
  /\ mapMasternodePayeeVotes = {} /\ mapMasternodeBlocks = <<>>
  /\ mapMasternodesLastVote = [x \in Masternode \X (Level \cup {Deprecated}) |-> 0]
  /\ nLastBlockHeight = 0
  /\ adding = {} /\ uncounted = {} /\ own = FALSE /\ relayed = {}
  /\ file = NoFile
  /\ highest = Start /\ horizon = 0
  /\ lists = [h \in VoteHeight |-> {}]
  /\ left \in Budgets

-----------------------------------------------------------------------------
(* The rank of a masternode *)

\* Mutant: the hash is taken from the active chain each time
BlockHash_NoCache(k) == IF k <= Height + 1 THEN {chain[k - 1]} ELSE {}

\* GetBlockHash(k): the hash of block k - 1, or what it was when it was first asked for
BlockHash(k) ==
  CASE k \in DOMAIN mapCacheBlockHashes -> {mapCacheBlockHashes[k]}
    [] k \notin DOMAIN mapCacheBlockHashes /\ k <= Height + 1 -> {chain[k - 1]}
    [] OTHER -> {}

\* Every call leaves its result in the cache
CacheBlockHash(k) ==
  mapCacheBlockHashes' =
    [i \in DOMAIN mapCacheBlockHashes \cup (IF BlockHash(k) = {} THEN {} ELSE {k}) |->
       IF i \in DOMAIN mapCacheBlockHashes THEN mapCacheBlockHashes[i]
       ELSE CHOOSE x \in BlockHash(k) : TRUE]

\* The masternodes that are ranked at all
Ranked == IF IsSporkActive(Me) THEN listed \ Young ELSE listed

\* GetMasternodeRank: the place in the list sorted by score, the highest first, and -1 for a
\* masternode that is not ranked, and if the block is not known
Rank(m, h) ==
  IF BlockHash(h - RankDepth) = {} \/ m \notin Ranked THEN -1
  ELSE LET score == Score[CHOOSE x \in BlockHash(h - RankDepth) : TRUE]
       IN  Cardinality({n \in Ranked : score[n] >= score[m]})

\* A rank is computed for a message that is then refused
GetMasternodeRank(h) ==
  /\ Spend("vote")
  /\ BlockHash(h - RankDepth) # {} /\ h - RankDepth \notin DOMAIN mapCacheBlockHashes
  /\ CacheBlockHash(h - RankDepth)
  /\ UNCHANGED <<sporkVars, chain, list, tables, marks, work, file, highest, history>>

-----------------------------------------------------------------------------
(* Votes *)

\* CMasternodePaymentWinner::IsValid
IsValid(w) == w.vin \in listed /\ Rank(w.vin, w.nBlockHeight) <= SignaturesTotal

\* Mutant: a later vote for the same height is let through
CanVote_Again(m, h, l) == mapMasternodesLastVote[<<m, l>>] <= h

CanVote(m, h, l) == mapMasternodesLastVote[<<m, l>>] < h

\* The message "mnw".  The mark of CanVote is set before the signature is looked at.
ProcessMessageMasternodePayments(w) ==
  LET m == w.vin
      h == w.nBlockHeight
      l == LevelOf[w.payee]
  IN  /\ HandlerFree
      /\ Spend("vote")
      /\ w \notin mapMasternodePayeeVotes
      /\ m = Self => w \in relayed
      /\ h >= Height - Past /\ h <= Height + MaxAhead
      /\ IsValid(w)
      /\ CacheBlockHash(h - RankDepth)
      /\ CanVote(m, h, l)
      /\ mapMasternodesLastVote' = [mapMasternodesLastVote EXCEPT ![<<m, l>>] = h]
      /\ adding' = IF m \in stale THEN {} ELSE {w}
      /\ own' = FALSE
      /\ lists' = [lists EXCEPT ![h] = @ \cup {Ranked}]
      /\ UNCHANGED <<sporkVars, chain, list, tables, nLastBlockHeight, uncounted, relayed, file,
                     highest, horizon>>

MayVote(h) == h > nLastBlockHeight /\ Rank(Self, h) \in 1..SignaturesTotal

\* The choices of GetNextMasternodeInQueueForPayment: of each level one payee or none
PayeeChoices == {ps \in SUBSET {p \in Payee : LevelOf[p] \in Level} :
              \A p, q \in ps : LevelOf[p] = LevelOf[q] => p = q}

\* ProcessBlock(GetHeight() + 10) after a new block
ProcessBlock(h) ==
  /\ HandlerFree
  /\ Spend("vote")
  /\ h = Height + Ahead
  /\ MayVote(h)
  /\ CacheBlockHash(h - RankDepth)
  /\ \E ps \in PayeeChoices \ {{}} :
       adding' = {[vin |-> Self, nBlockHeight |-> h, payee |-> p] : p \in ps}
  /\ own' = TRUE
  /\ lists' = [lists EXCEPT ![h] = @ \cup {Ranked}]
  /\ UNCHANGED <<sporkVars, chain, list, tables, marks, uncounted, relayed, file, highest,
                 horizon>>

NoVotes == [p \in Payee |-> 0]

\* Mutant: an entry that is there already is made anew
NewEntry_Always(h) == [nBlockHeight |-> h, votes |-> NoVotes]

NewEntry(h) ==
  IF h \in DOMAIN mapMasternodeBlocks THEN mapMasternodeBlocks[h]
  ELSE [nBlockHeight |-> h, votes |-> NoVotes]

\* AddWinningMasternode up to the release of its locks
InsertWinner(w) ==
  LET h == w.nBlockHeight
      fails == BlockHash(h - RankDepth) = {} \/ w \in mapMasternodePayeeVotes
  IN  /\ uncounted = {}
      /\ adding' = adding \ {w}
      /\ CacheBlockHash(h - RankDepth)
      /\ \/ fails /\ UNCHANGED <<tables, uncounted>>
         \/ /\ ~fails
            /\ uncounted' = {w}
            /\ mapMasternodePayeeVotes' = mapMasternodePayeeVotes \cup {w}
            /\ mapMasternodeBlocks' = [i \in DOMAIN mapMasternodeBlocks \cup {h} |->
                                         IF i = h THEN NewEntry(h) ELSE mapMasternodeBlocks[i]]
      /\ UNCHANGED <<sporkVars, chain, list, marks, own, relayed, file, highest, history, left>>

\* CMasternodeBlockPayees::AddPayee
CountFor(entry, p) == [entry EXCEPT !.votes[p] = @ + 1]

\* AddPayee after the locks are released: operator[] makes an entry of height 0 if the
\* clean-up has taken the old one.  ProcessBlock relays its votes and notes the height after
\* the last of them; here with each, which only the handler itself could tell apart.
AddPayee(w) ==
  LET h == w.nBlockHeight
      entry == IF h \in DOMAIN mapMasternodeBlocks THEN mapMasternodeBlocks[h]
               ELSE [nBlockHeight |-> 0, votes |-> NoVotes]
  IN  /\ mapMasternodeBlocks' =
           [i \in DOMAIN mapMasternodeBlocks \cup {h} |->
              IF i = h THEN CountFor(entry, w.payee) ELSE mapMasternodeBlocks[i]]
      /\ uncounted' = {}
      /\ nLastBlockHeight' = IF own THEN h ELSE nLastBlockHeight
      /\ relayed' = IF own THEN relayed \cup {w} ELSE relayed
      /\ UNCHANGED <<sporkVars, chain, mapCacheBlockHashes, list, mapMasternodePayeeVotes,
                     mapMasternodesLastVote, adding, own, file, highest, history, left>>

-----------------------------------------------------------------------------
(* What is paid and what is demanded.  A coinbase or coinstake is the function from
   payees to amounts; the share of a level is the same fraction of the block's value on
   both sides, so that amounts are block values. *)

Votes(h, p) == IF h \in DOMAIN mapMasternodeBlocks THEN mapMasternodeBlocks[h].votes[p] ELSE 0

OfLevel(l) == {p \in Payee : LevelOf[p] = l}

Enforced(h) == {p \in Payee : Votes(h, p) >= SignaturesRequired}

\* CMasternodePayments::IsTransactionValid: of each level with an enforced payee one is paid
IsTransactionValid(paid, h) ==
  Enforced(h) # {} =>
    LET required == Reward[mapMasternodeBlocks[h].nBlockHeight]
    IN  \A p \in Enforced(h) : \E q \in Enforced(h) :
          LevelOf[q] = LevelOf[p] /\ paid[q] >= required

IsBlockPayeeValid(paid, h) == IsTransactionValid(paid, h) \/ ~IsSporkActive(Me)

\* Mutant: votes are not compared
GetBlockPayee_Any(h, l) == {p \in Payee : LevelOf[p] = l /\ Votes(h, p) > 0}

\* GetBlockPayee: one with the most votes
GetBlockPayee(h, l) ==
  {p \in Payee : /\ LevelOf[p] = l /\ Votes(h, p) > 0
                 /\ \A q \in Payee : LevelOf[q] = l => Votes(h, q) <= Votes(h, p)}

\* What FillBlockPayee may choose for level l: GetCurrentMasterNode decides if nobody has
\* a vote, and may find no masternode
LevelPayee(l) ==
  LET voted == GetBlockPayee(Height + 1, l)
  IN  IF voted # {} THEN {{p} : p \in voted} ELSE {{p} : p \in OfLevel(l)} \cup {{}}

\* A payee for each level, and if there is none one of the deprecated level
Filled ==
  LET some == {ps \in SUBSET UNION {OfLevel(l) : l \in Level} :
                 \A l \in Level : ps \cap OfLevel(l) \in LevelPayee(l)}
  IN  (some \ {{}}) \cup (IF {} \in some THEN LevelPayee(Deprecated) ELSE {})

FillBlockPayee == {[p \in Payee |-> IF p \in ps THEN Reward[Height] ELSE 0] : ps \in Filled}

-----------------------------------------------------------------------------
(* The chain.  A block that IsBlockPayeeValid accepts is connected. *)
Payments == [Payee -> {0, Reward[Height]}]

ConnectTip(x) ==
  /\ Height < MaxHeight
  /\ x \in Child[chain[Height]]
  /\ {paid \in Payments : IsBlockPayeeValid(paid, Height + 1)} # {}
  /\ chain' = Append(chain, x)
  /\ highest' = IF Height + 1 > highest THEN Height + 1 ELSE highest
  /\ UNCHANGED <<sporkVars, mapCacheBlockHashes, list, tables, marks, work, file, history,
                 left>>

DisconnectTip ==
  /\ Spend("reorg")
  /\ Height > Settled
  /\ chain' = SubSeq(chain, 1, Height - 1)
  /\ UNCHANGED <<sporkVars, mapCacheBlockHashes, list, tables, marks, work, file, highest,
                 history>>

(* The masternode list: a masternode gets a key that this node does not know yet, its
   announcement arrives, or it is taken out *)
ChangeKey(m) ==
  /\ Spend("list")
  /\ m \in (listed \cap Unstable) \ stale
  /\ stale' = stale \cup {m}
  /\ UNCHANGED <<sporkVars, chain, mapCacheBlockHashes, listed, tables, marks, work, file,
                 highest, history>>

UpdateMasternodeList(m) ==
  /\ m \notin listed \/ m \in stale
  /\ listed' = listed \cup {m} /\ stale' = stale \ {m}
  /\ UNCHANGED <<sporkVars, chain, mapCacheBlockHashes, tables, marks, work, file, highest,
                 history, left>>

CheckAndRemove(m) ==
  /\ Spend("list")
  /\ m \in listed \cap Unstable
  /\ listed' = listed \ {m} /\ stale' = stale \ {m}
  /\ UNCHANGED <<sporkVars, chain, mapCacheBlockHashes, tables, marks, work, file, highest,
                 history>>

-----------------------------------------------------------------------------
(* Clean-up and restart *)

Old(votes) == {w \in votes : Height - w.nBlockHeight > Limit}

CleanBlocks(votes, blocks) ==
  [h \in DOMAIN blocks \ {w.nBlockHeight : w \in Old(votes)} |-> blocks[h]]

\* CleanPaymentList, called by the thread of ThreadCheckObfuScationPool
CleanPaymentList ==
  /\ Old(mapMasternodePayeeVotes) # {}
  /\ mapMasternodePayeeVotes' = mapMasternodePayeeVotes \ Old(mapMasternodePayeeVotes)
  /\ mapMasternodeBlocks' = CleanBlocks(mapMasternodePayeeVotes, mapMasternodeBlocks)
  /\ UNCHANGED <<sporkVars, chain, mapCacheBlockHashes, list, marks, work, file, highest,
                 history, left>>

\* The node starts and reads f: marks, the hash cache and what was being added are gone
Load(f) ==
  /\ mapMasternodePayeeVotes' = f.votes \ Old(f.votes)
  /\ mapMasternodeBlocks' = CleanBlocks(f.votes, f.blocks)
  /\ mapMasternodesLastVote' = [x \in DOMAIN mapMasternodesLastVote |-> 0]
  /\ nLastBlockHeight' = 0
  /\ mapCacheBlockHashes' = <<>>
  /\ adding' = {} /\ uncounted' = {} /\ own' = FALSE
  /\ file' = f

\* DumpMasternodePayments at shutdown, while the message handler still runs, does not
\* replace a file it cannot read; a kill leaves the file as it is, or torn
FileAfterStop ==
  {file, TornFile} \cup
    (IF file = TornFile THEN {}
     ELSE {[state |-> "saved", votes |-> mapMasternodePayeeVotes, blocks |-> mapMasternodeBlocks]})

Restart ==
  /\ Spend("stop")
  /\ \E f \in FileAfterStop : Load(f)
  /\ LoadSporksFromDB(Me)
  /\ horizon' = highest + MaxAhead
  /\ UNCHANGED <<chain, list, relayed, highest, lists>>

-----------------------------------------------------------------------------
payments == <<chain, mapCacheBlockHashes, list, tables, marks, work, file, highest, history>>

ReceiveSpork(n) == HearSpork(n) /\ UNCHANGED <<payments, left>>

SignSpork(n, v) ==
  /\ Spend("spork")
  /\ UpdateSpork(n, v)
  /\ UNCHANGED payments

ClockTick == Spend("tick") /\ Tick /\ UNCHANGED payments

Next ==
  \/ \E n \in Node : ReceiveSpork(n) \/ \E v \in SporkValue : SignSpork(n, v)
  \/ ClockTick
  \/ \E w \in Message : ProcessMessageMasternodePayments(w)
  \/ \E h \in VoteHeight : ProcessBlock(h) \/ GetMasternodeRank(h)
  \/ \E w \in adding : InsertWinner(w)
  \/ \E w \in uncounted : AddPayee(w)
  \/ \E x \in Label : ConnectTip(x)
  \/ DisconnectTip
  \/ \E m \in Masternode : ChangeKey(m) \/ UpdateMasternodeList(m) \/ CheckAndRemove(m)
  \/ CleanPaymentList
  \/ Restart

Spec == Init /\ [][Next]_vars

\* A node hears of a newer spork that a peer has: it is relayed, and asked for at every start
FairSpec == Spec /\ \A n \in Node : WF_vars(ReceiveSpork(n))

-----------------------------------------------------------------------------
(* Properties *)

Voters(h, p) == {w.vin : w \in {v \in mapMasternodePayeeVotes : v.nBlockHeight = h /\ v.payee = p}}

\* Heights the clean-up has never been able to reach
Recent(h) == highest - h <= Limit

\* No masternode's vote is held for two payees of one level at one height: not when the
\* chain is reorganised, the list changes or a message comes twice, and not for this
\* node's own votes, which do not pass through CanVote (CanVote, ProcessBlock).  Heights
\* that could be voted for before a restart are excepted: the marks are not saved.
NoDoubleVote ==
  \A v, w \in mapMasternodePayeeVotes :
    v.vin = w.vin /\ v.nBlockHeight = w.nBlockHeight /\ LevelOf[v.payee] = LevelOf[w.payee]
      /\ v.nBlockHeight > horizon
    => v = w

\* A payee has as many votes as masternodes voted for it, but for a vote that is being
\* added; after a restart possibly fewer (a vote saved before it was counted stays
\* uncounted), never more (AddWinningMasternode, CleanPaymentList, mnpayments.dat).
VotesAreVoters ==
  \A h \in VoteHeight, p \in Payee : Recent(h) =>
    LET counted == {w \in mapMasternodePayeeVotes \ uncounted : w.nBlockHeight = h /\ w.payee = p}
    IN  /\ Votes(h, p) <= Cardinality(counted)
        /\ horizon = 0 => Votes(h, p) = Cardinality(counted)

\* At each height at most one payee of a level is demanded of blocks, across any
\* reorganisation, as long as the ranks of those who voted were computed from one list
\* and all of them had a rank: the cached hash keeps the ten that may vote the same
\* (GetBlockHash, IsValid, IsTransactionValid).
OnePayeeEnforced ==
  \A h \in VoteHeight :
    (/\ h > horizon /\ Recent(h)
     /\ \A a, b \in lists[h] : a = b
     /\ \A p \in Payee, a \in lists[h] : Voters(h, p) \subseteq a)
    => \A p, q \in Enforced(h) : LevelOf[p] = LevelOf[q] => p = q

\* What FillBlockPayee puts into a block satisfies IsTransactionValid in the same state,
\* unless the block's value rises at this height: it pays a share of the value of the
\* previous height, and the share of the new one is demanded.  Votes for a masternode of the
\* deprecated level are counted and demanded like all others, while FillBlockPayee pays that
\* level only when no other has a payee: a height with such a payee is excepted.  (With no
\* enforced payee IsTransactionValid accepts every block: that case is not evaluated.)
OwnBlockAccepted ==
  (/\ Recent(Height + 1) /\ Reward[Height + 1] <= Reward[Height]
   /\ Enforced(Height + 1) # {} /\ \A p \in Enforced(Height + 1) : LevelOf[p] \in Level)
  => \A paid \in FillBlockPayee : IsTransactionValid(paid, Height + 1)
=============================================================================
