--------------------------- MODULE CoinsViewCache ---------------------------
(***************************************************************************)
(* The layered coin views of coins.cpp and txdb.cpp:                       *)
(*                                                                         *)
(*     view  -->  pcoinsTip  -->  CCoinsViewDB (leveldb "chainstate")      *)
(*                                                                         *)
(* pcoinsTip lives as long as the process.  A view on top of it is opened  *)
(* for each block that is connected or disconnected (ConnectTip,           *)
(* DisconnectTip, main.cpp) and is flushed into pcoinsTip or thrown away.  *)
(* Every access happens under cs_main, and the thread that opened the view *)
(* keeps the lock until the view is gone: FlushStateToDisk never runs      *)
(* while a view is open.                                                   *)
(***************************************************************************)
EXTENDS Naturals

CONSTANTS
  Txid,       \* transaction ids
  Coins,      \* contents of a CCoins with at least one unspent output
  Pruned,     \* contents of a CCoins with none (IsPruned)
  Absent,     \* GetCoins returned false
  NoEntry,    \* cacheCoins.find(txid) == cacheCoins.end()
  NoModifier, \* hasModifier == false
  Block,      \* block hashes
  NullHash,   \* uint256(0)
  MaxWriteFailures  \* bound: batches leveldb may refuse in a behaviour

ASSUME CoinsAssumption ==
  /\ Pruned \notin Coins
  /\ Absent \notin Coins \cup {Pruned}
  /\ NoModifier \notin Txid
  /\ NullHash \notin Block
  /\ MaxWriteFailures \in Nat

VARIABLES
  db,         \* leveldb: the unspent coins on disk, key 'c'
  dbBest,     \* leveldb: the block they belong to, key 'B'
  tip,        \* cacheCoins of pcoinsTip
  tipBest,    \* hashBlock of pcoinsTip
  viewOpen,   \* a CCoinsViewCache on top of pcoinsTip exists
  view,       \* its cacheCoins
  modifier,   \* the txid its live CCoinsModifier points at
  failures    \* batches leveldb has refused

vars == <<db, dbBest, tip, tipBest, viewOpen, view, modifier, failures>>

Value == Coins \cup {Pruned}
Entry == [coins : Value, dirty : BOOLEAN, fresh : BOOLEAN]
Cache == [Txid -> Entry \cup {NoEntry}]

ASSUME EntryAssumption == NoEntry \notin Entry

EmptyCache == [t \in Txid |-> NoEntry]

-----------------------------------------------------------------------------
(* The member functions of CCoinsViewCache, as functions of a cache and of  *)
(* what the base answered.                                                  *)

\* FetchCoins: an entry read from the base is clean; it is fresh if pruned.
FetchCoins(cache, t, base) ==
  IF cache[t] # NoEntry \/ base = Absent
  THEN cache
  ELSE [cache EXCEPT ![t] = [coins |-> base, dirty |-> FALSE,
                             fresh |-> base = Pruned]]

\* GetCoins: the cached coins, or else what the base has (Absent: false).
GetCoins(cache, t, base) ==
  IF cache[t] # NoEntry THEN cache[t].coins ELSE base

\* Mutant: every new entry is taken to be FRESH.
ModifiedEntry_AlwaysFresh(cache, t, base) ==
  IF cache[t] # NoEntry
  THEN [cache[t] EXCEPT !.dirty = TRUE]
  ELSE [coins |-> IF base = Absent THEN Pruned ELSE base,
        dirty |-> TRUE, fresh |-> TRUE]

\* ModifyCoins: the entry the modifier is handed.
ModifiedEntry(cache, t, base) ==
  IF cache[t] # NoEntry
  THEN [cache[t] EXCEPT !.dirty = TRUE]
  ELSE [coins |-> IF base = Absent THEN Pruned ELSE base,
        dirty |-> TRUE,
        fresh |-> base \in {Absent, Pruned}]

\* Mutant: a pruned child deletes the parent's entry, FRESH or not.
BatchWriteEntry_DeletesPruned(us, child) ==
  IF child = NoEntry \/ ~child.dirty
  THEN us
  ELSE IF child.coins = Pruned
  THEN NoEntry
  ELSE [coins |-> child.coins, dirty |-> TRUE,
        fresh |-> us = NoEntry \/ us.fresh]

\* BatchWrite: what the parent's entry becomes when the child's is pushed.
BatchWriteEntry(us, child) ==
  IF child = NoEntry \/ ~child.dirty
  THEN us
  ELSE IF us = NoEntry
  THEN IF child.coins = Pruned
       THEN NoEntry
       ELSE [coins |-> child.coins, dirty |-> TRUE, fresh |-> TRUE]
  ELSE IF us.fresh /\ child.coins = Pruned
  THEN NoEntry
  ELSE [us EXCEPT !.coins = child.coins, !.dirty = TRUE]

\* CCoinsViewDB::BatchWrite: dirty entries are written, pruned ones erased.
DbWriteEntry(old, child) ==
  IF child = NoEntry \/ ~child.dirty
  THEN old
  ELSE IF child.coins = Pruned THEN Absent ELSE child.coins

-----------------------------------------------------------------------------
Init ==
  /\ db = [t \in Txid |-> Absent]
  /\ dbBest = NullHash
  /\ tip = EmptyCache
  /\ tipBest = NullHash
  /\ viewOpen = FALSE
  /\ view = EmptyCache
  /\ modifier = NoModifier
  /\ failures = 0

\* What pcoinsTip->GetCoins(t) returns; the call also fills its cache.
TipGetCoins(t) == GetCoins(tip, t, db[t])

\* pcoinsTip is read directly (mempool, RPC, AlreadyHave).
AccessTip(t) ==
  /\ tip' = FetchCoins(tip, t, db[t])
  /\ UNCHANGED <<db, dbBest, tipBest, viewOpen, view, modifier, failures>>

\* pcoinsTip->GetBestBlock(): the hash is looked up once and remembered.
GetBestBlock ==
  /\ tipBest' = IF tipBest = NullHash THEN dbBest ELSE tipBest
  /\ UNCHANGED <<db, dbBest, tip, viewOpen, view, modifier, failures>>

\* CCoinsViewCache view(pcoinsTip): ConnectTip, DisconnectTip, CreateNewBlock.
OpenView ==
  /\ ~viewOpen
  /\ viewOpen' = TRUE
  /\ view' = EmptyCache
  /\ UNCHANGED <<db, dbBest, tip, tipBest, modifier, failures>>

\* The view is read: a miss goes through pcoinsTip and fills both caches.
AccessView(t) ==
  /\ viewOpen
  /\ view' = FetchCoins(view, t, TipGetCoins(t))
  /\ tip' = IF view[t] = NoEntry THEN FetchCoins(tip, t, db[t]) ELSE tip
  /\ UNCHANGED <<db, dbBest, tipBest, viewOpen, modifier, failures>>

\* view.ModifyCoins(t) hands out the (only) modifier.
ModifyCoins(t) ==
  /\ viewOpen
  /\ modifier = NoModifier
  /\ view' = [view EXCEPT ![t] = ModifiedEntry(view, t, TipGetCoins(t))]
  /\ tip' = IF view[t] = NoEntry THEN FetchCoins(tip, t, db[t]) ELSE tip
  /\ modifier' = t
  /\ UNCHANGED <<db, dbBest, tipBest, viewOpen, failures>>

\* The holder has set the coins to c and drops the modifier: a fresh entry
\* that ended up pruned leaves the cache.
ReleaseModifier(c) ==
  /\ modifier # NoModifier
  /\ view' = [view EXCEPT ![modifier] =
                IF @.fresh /\ c = Pruned THEN NoEntry ELSE [@ EXCEPT !.coins = c]]
  /\ modifier' = NoModifier
  /\ UNCHANGED <<db, dbBest, tip, tipBest, viewOpen, failures>>

\* view.SetBestBlock(b) closes ConnectBlock and DisconnectBlock; the caller
\* then flushes the view into pcoinsTip and drops it.
FlushView(b) ==
  /\ viewOpen
  /\ modifier = NoModifier
  /\ tip' = [t \in Txid |-> BatchWriteEntry(tip[t], view[t])]
  /\ tipBest' = b
  /\ view' = EmptyCache
  /\ viewOpen' = FALSE
  /\ UNCHANGED <<db, dbBest, modifier, failures>>

\* The block was rejected (or only tested): the view dies unflushed.
DropView ==
  /\ viewOpen
  /\ modifier = NoModifier
  /\ view' = EmptyCache
  /\ viewOpen' = FALSE
  /\ UNCHANGED <<db, dbBest, tip, tipBest, modifier, failures>>

\* FlushStateToDisk: pcoinsTip->Flush(), one leveldb batch.
FlushTip ==
  /\ ~viewOpen
  /\ db' = [t \in Txid |-> DbWriteEntry(db[t], tip[t])]
  /\ dbBest' = IF tipBest # NullHash THEN tipBest ELSE dbBest
  /\ tip' = EmptyCache
  /\ UNCHANGED <<tipBest, viewOpen, view, modifier, failures>>

\* leveldb refuses the batch (HandleError throws).  The loop that built the
\* batch has emptied cacheCoins by then; hashBlock keeps its value.  The
\* caller asks for a shutdown, which ends in another FlushTip.
FlushTipFails ==
  /\ ~viewOpen
  /\ failures < MaxWriteFailures
  /\ failures' = failures + 1
  /\ tip' = EmptyCache
  /\ UNCHANGED <<db, dbBest, tipBest, viewOpen, view, modifier>>

\* The process dies and is started again: only leveldb survives.
Restart ==
  /\ tip' = EmptyCache
  /\ tipBest' = NullHash
  /\ view' = EmptyCache
  /\ viewOpen' = FALSE
  /\ modifier' = NoModifier
  /\ UNCHANGED <<db, dbBest, failures>>

Next ==
  \/ \E t \in Txid : AccessTip(t) \/ AccessView(t) \/ ModifyCoins(t)
  \/ \E c \in Value : ReleaseModifier(c)
  \/ \E b \in Block : FlushView(b)
  \/ GetBestBlock
  \/ OpenView
  \/ DropView
  \/ FlushTip
  \/ FlushTipFails
  \/ Restart

Spec == Init /\ [][Next]_vars

-----------------------------------------------------------------------------
(* What each layer stands for. *)

DbValue(t) == IF db[t] = Absent THEN Pruned ELSE db[t]
TipValue(t) == GetCoins(tip, t, DbValue(t))
ViewValue(t) == GetCoins(view, t, TipValue(t))
TipBestBlock == IF tipBest = NullHash THEN dbBest ELSE tipBest

-----------------------------------------------------------------------------
(* Properties. *)

\* Every variable keeps its type: in particular leveldb never holds a pruned
\* CCoins, and a live modifier points at an existing entry of an open view.
TypeOK ==
  /\ db \in [Txid -> Coins \cup {Absent}]
  /\ dbBest \in Block \cup {NullHash}
  /\ tip \in Cache
  /\ tipBest \in Block \cup {NullHash}
  /\ viewOpen \in BOOLEAN
  /\ view \in Cache
  /\ modifier \in Txid \cup {NoModifier}
  /\ failures \in 0..MaxWriteFailures
  /\ ~viewOpen => view = EmptyCache /\ modifier = NoModifier
  /\ modifier # NoModifier => view[modifier] # NoEntry

\* An entry that is not DIRTY equals what the layer below would answer: both
\* BatchWrite functions skip such entries (coins.cpp:170, txdb.cpp:61), so a
\* difference would be lost silently.
CleanEntriesMatchBase ==
  \A t \in Txid :
    /\ tip[t] # NoEntry /\ ~tip[t].dirty => tip[t].coins = DbValue(t)
    /\ view[t] # NoEntry /\ ~view[t].dirty => view[t].coins = TipValue(t)

\* A FRESH entry has nothing unspent below it: BatchWrite and ~CCoinsModifier
\* forget such an entry once it is pruned (coins.cpp:188, :280), which would
\* bring spent coins back to life if the layer below still had them.
FreshMeansPrunedBelow ==
  \A t \in Txid :
    /\ tip[t] # NoEntry /\ tip[t].fresh => DbValue(t) = Pruned
    /\ view[t] # NoEntry /\ view[t].fresh => TipValue(t) = Pruned

\* The assertion at coins.cpp:178 holds whenever the view is flushed: what the
\* view changed without being FRESH is still cached by pcoinsTip.
NonFreshChangesAreInTip ==
  \A t \in Txid :
    view[t] # NoEntry /\ ~view[t].fresh => tip[t] # NoEntry

\* No cache keeps an entry that is DIRTY, FRESH and pruned once the modifier
\* is gone: such an entry says nothing and would only use up the cache.
NoUselessEntries ==
  \A t \in Txid :
    /\ ~ (tip[t] # NoEntry /\ tip[t].fresh /\ tip[t].coins = Pruned)
    /\ modifier # t /\ view[t] # NoEntry /\ view[t].dirty /\ view[t].fresh
         => view[t].coins # Pruned

\* The DIRTY and FRESH flags of both caches keep their promises: all that
\* Flush, BatchWrite and ~CCoinsModifier skip or forget is known below.
FlagsOK ==
  /\ CleanEntriesMatchBase
  /\ FreshMeansPrunedBelow
  /\ NonFreshChangesAreInTip
  /\ NoUselessEntries

\* The three layers implement one map of unspent coins with atomic commits:
\* CoinStore, where a coin's value is the one found through all layers.
Store ==
  INSTANCE CoinStore WITH
    durable <- [coins |-> [t \in Txid |-> DbValue(t)], best |-> dbBest],
    current <- [coins |-> [t \in Txid |-> TipValue(t)], best |-> TipBestBlock],
    writing <- viewOpen,
    pending <- [t \in Txid |-> ViewValue(t)]

StoreSpec == Store!Spec
=============================================================================
