------------------------ MODULE CoinsViewCacheProofs ------------------------
(***************************************************************************)
(* Proofs about CoinsViewCache, for every set of transactions, contents    *)
(* and blocks.                                                             *)
(*                                                                         *)
(* The inductive invariant joins the type invariant with what the flag     *)
(* bits stand for.  None of its parts is inductive alone: a flush may      *)
(* forget a pruned entry only because FRESH means pruned below, and FRESH  *)
(* can be set again on a flush only because a change that is not FRESH is  *)
(* still cached by pcoinsTip.                                              *)
(***************************************************************************)
EXTENDS CoinsViewCache, TLAPS

\* What the flags promise about one transaction's entries.
EntryInv(t) ==
  /\ tip[t] # NoEntry =>
       /\ ~tip[t].dirty => tip[t].coins = DbValue(t)
       /\ tip[t].fresh => DbValue(t) = Pruned /\ tip[t].coins # Pruned
  /\ view[t] # NoEntry =>
       /\ ~view[t].dirty => view[t].coins = TipValue(t)
       /\ view[t].fresh => TipValue(t) = Pruned
       /\ ~view[t].fresh => tip[t] # NoEntry
       /\ modifier # t /\ view[t].dirty /\ view[t].fresh
            => view[t].coins # Pruned
  /\ modifier = t => view[t].dirty

IInv == TypeOK /\ \A t \in Txid : EntryInv(t)

\* Fetching from the base keeps a cache a cache.
LEMMA FetchType ==
  ASSUME NEW cache \in Cache, NEW t \in Txid, NEW base \in Value \cup {Absent}
  PROVE  FetchCoins(cache, t, base) \in Cache
  BY DEF FetchCoins, Cache, Entry, Value

LEMMA EmptyCacheType == EmptyCache \in Cache
  BY DEF EmptyCache, Cache

LEMMA TypeInit == Init => TypeOK
<1> SUFFICES ASSUME Init PROVE TypeOK
  OBVIOUS
<1>1. failures \in 0..MaxWriteFailures
  BY CoinsAssumption DEF Init
<1> QED BY <1>1, EmptyCacheType DEF Init, TypeOK

LEMMA TypeStep == TypeOK /\ [Next]_vars => TypeOK'
<1> SUFFICES ASSUME TypeOK, [Next]_vars PROVE TypeOK'
  OBVIOUS
<1> USE CoinsAssumption, EntryAssumption DEF TypeOK
<1>1. ASSUME NEW t \in Txid, AccessTip(t) PROVE TypeOK'
  <2>1. tip' \in Cache
    BY <1>1, FetchType DEF AccessTip, Value
  <2> QED BY <1>1, <2>1 DEF AccessTip
<1>2. ASSUME NEW t \in Txid, AccessView(t) PROVE TypeOK'
  <2>1. TipGetCoins(t) \in Value \cup {Absent}
    BY DEF TipGetCoins, GetCoins, Cache, Entry, Value
  <2>2. tip' \in Cache /\ view' \in Cache
    BY <1>2, <2>1, FetchType DEF AccessView, Value
  <2>3. modifier # NoModifier => view'[modifier] # NoEntry
    BY <1>2 DEF AccessView, FetchCoins
  <2> QED BY <1>2, <2>2, <2>3 DEF AccessView
<1>3. ASSUME NEW t \in Txid, ModifyCoins(t) PROVE TypeOK'
  <2>1. TipGetCoins(t) \in Value \cup {Absent}
    BY DEF TipGetCoins, GetCoins, Cache, Entry, Value
  <2>2. tip' \in Cache
    BY <1>3, FetchType DEF ModifyCoins, Value
  <2>3. ModifiedEntry(view, t, TipGetCoins(t)) \in Entry
    <3>1. CASE view[t] = NoEntry
      BY <2>1, <3>1 DEF ModifiedEntry, Entry, Value
    <3>2. CASE view[t] # NoEntry
      <4>1. view[t] \in Entry
        BY <3>2 DEF Cache
      <4> QED BY <3>2, <4>1 DEF ModifiedEntry, Entry
    <3> QED BY <3>1, <3>2
  <2>4. view' \in Cache /\ view'[t] # NoEntry
    BY <1>3, <2>3 DEF ModifyCoins, Cache
  <2> QED BY <1>3, <2>2, <2>4 DEF ModifyCoins
<1>4. ASSUME NEW c \in Value, ReleaseModifier(c) PROVE TypeOK'
  <2>1. view[modifier] \in Entry /\ modifier \in Txid
    BY <1>4 DEF ReleaseModifier, Cache
  <2>2. view' \in Cache
    BY <1>4, <2>1 DEF ReleaseModifier, Cache, Entry
  <2> QED BY <1>4, <2>2 DEF ReleaseModifier
<1>5. ASSUME NEW b \in Block, FlushView(b) PROVE TypeOK'
  <2>1. ASSUME NEW t \in Txid
        PROVE BatchWriteEntry(tip[t], view[t]) \in Entry \cup {NoEntry}
    BY DEF BatchWriteEntry, Cache, Entry, Value
  <2>2. tip' \in Cache /\ view' = EmptyCache /\ EmptyCache \in Cache
    BY <1>5, <2>1 DEF FlushView, Cache, EmptyCache
  <2> QED BY <1>5, <2>2 DEF FlushView
<1>6. ASSUME FlushTip PROVE TypeOK'
  <2>1. ASSUME NEW t \in Txid
        PROVE DbWriteEntry(db[t], tip[t]) \in Coins \cup {Absent}
    BY DEF DbWriteEntry, Cache, Entry, Value
  <2>2. db' \in [Txid -> Coins \cup {Absent}] /\ tip' \in Cache
    BY <1>6, <2>1 DEF FlushTip, Cache, EmptyCache
  <2> QED BY <1>6, <2>2 DEF FlushTip
<1>7. CASE GetBestBlock
  BY <1>7 DEF GetBestBlock
<1>8. CASE OpenView
  BY <1>8 DEF OpenView, EmptyCache, Cache
<1>9. CASE DropView
  BY <1>9 DEF DropView, EmptyCache, Cache
<1>10. CASE FlushTipFails
  BY <1>10 DEF FlushTipFails, EmptyCache, Cache
<1>11. CASE Restart
  BY <1>11 DEF Restart, EmptyCache, Cache
<1>12. CASE UNCHANGED vars
  BY <1>12 DEF vars
<1> QED
  BY <1>1, <1>2, <1>3, <1>4, <1>5, <1>6, <1>7, <1>8, <1>9, <1>10, <1>11,
     <1>12 DEF Next

\* Type correctness of every variable of the coin views, in every state the
\* operations of coins.cpp and txdb.cpp can reach.
THEOREM TypeCorrect == Spec => []TypeOK
  BY TypeInit, TypeStep, PTL DEF Spec

-----------------------------------------------------------------------------

\* The entry a fetch leaves behind, transaction by transaction.
LEMMA FetchEntry ==
  ASSUME NEW cache \in Cache, NEW t \in Txid, NEW s \in Txid,
         NEW base \in Value \cup {Absent}
  PROVE  FetchCoins(cache, t, base)[s] =
           IF s = t /\ cache[t] = NoEntry /\ base # Absent
           THEN [coins |-> base, dirty |-> FALSE, fresh |-> base = Pruned]
           ELSE cache[s]
  BY DEF FetchCoins, Cache

LEMMA FetchOther ==
  ASSUME NEW cache \in Cache, NEW t \in Txid, NEW s \in Txid, s # t,
         NEW base \in Value \cup {Absent}
  PROVE  FetchCoins(cache, t, base)[s] = cache[s]
  BY DEF FetchCoins, Cache

\* Filling pcoinsTip from leveldb changes no value, drops no entry and keeps
\* the promises of its flags.
LEMMA FetchTip ==
  ASSUME TypeOK, NEW t \in Txid, NEW s \in Txid, EntryInv(s),
         tip' = FetchCoins(tip, t, db[t]), UNCHANGED db
  PROVE  /\ TipValue(s)' = TipValue(s)
         /\ tip[s] # NoEntry => tip'[s] = tip[s]
         /\ tip'[s] # NoEntry =>
              /\ ~tip'[s].dirty => tip'[s].coins = DbValue(s)'
              /\ tip'[s].fresh => DbValue(s)' = Pruned /\ tip'[s].coins # Pruned
         /\ s = t /\ db[t] # Absent => tip'[t] # NoEntry
<1> USE CoinsAssumption, EntryAssumption
<1>1. db[t] \in Value \cup {Absent} /\ tip \in Cache
  BY DEF TypeOK, Value
<1>2. tip'[s] = IF s = t /\ tip[t] = NoEntry /\ db[t] # Absent
                THEN [coins |-> db[t], dirty |-> FALSE, fresh |-> db[t] = Pruned]
                ELSE tip[s]
  BY <1>1, FetchEntry
<1>3. db[t] # Pruned
  BY DEF TypeOK
<1>4. CASE s = t /\ tip[t] = NoEntry /\ db[t] # Absent
  <2>1. [coins |-> db[t], dirty |-> FALSE, fresh |-> FALSE] \in Entry
    BY <1>1, <1>4 DEF Entry
  <2>2. tip'[s] = [coins |-> db[t], dirty |-> FALSE, fresh |-> FALSE]
    <3>1. (db[t] = Pruned) = FALSE
      BY <1>3
    <3> QED BY <1>2, <1>4, <3>1, Zenon
  <2>4. tip'[s] # NoEntry /\ tip'[s].coins = db[t] /\ ~tip'[s].fresh
    <3>1. tip'[s] # NoEntry
      BY <2>1, <2>2
    <3>2. tip'[s].coins = db[t]
      BY <2>2
    <3>3. tip'[s].fresh = FALSE
      BY <2>2
    <3> QED BY <3>1, <3>2, <3>3
  <2>3. TipValue(s) = DbValue(s) /\ TipValue(s)' = db[t] /\ DbValue(s)' = db[t]
    BY <1>4, <2>4 DEF TipValue, DbValue, GetCoins
  <2> QED BY <1>4, <2>4, <2>3 DEF DbValue
<1>5. CASE ~ (s = t /\ tip[t] = NoEntry /\ db[t] # Absent)
  <2>1. tip'[s] = tip[s]
    BY <1>2, <1>5
  <2>2. DbValue(s)' = DbValue(s)
    BY DEF DbValue
  <2>3. TipValue(s)' = TipValue(s)
    BY <2>1, <2>2 DEF TipValue, GetCoins
  <2> QED BY <1>5, <2>1, <2>2, <2>3 DEF EntryInv
<1> QED BY <1>4, <1>5

\* A read of pcoinsTip that finds something finds its value, and leaves the
\* entry in its cache; one that finds nothing says the coin is pruned.
LEMMA TipGet ==
  ASSUME TypeOK, NEW t \in Txid
  PROVE  /\ TipGetCoins(t) \in Value \cup {Absent}
         /\ TipGetCoins(t) # Absent =>
              /\ TipGetCoins(t) = TipValue(t)
              /\ tip[t] # NoEntry \/ db[t] # Absent
         /\ TipGetCoins(t) = Absent => TipValue(t) = Pruned
<1> USE CoinsAssumption, EntryAssumption DEF TipGetCoins, TipValue, GetCoins, DbValue
<1>1. CASE tip[t] = NoEntry
  BY <1>1 DEF TypeOK, Value
<1>2. CASE tip[t] # NoEntry
  <2>1. tip[t].coins \in Value
    BY <1>2 DEF TypeOK, Cache, Entry
  <2>2. Absent \notin Value
    BY DEF Value
  <2> QED BY <1>2, <2>1, <2>2
<1> QED BY <1>1, <1>2

LEMMA AccessTipInv ==
  ASSUME IInv, NEW t \in Txid, AccessTip(t), NEW s \in Txid
  PROVE  EntryInv(s)'
<1>1. EntryInv(s) /\ TypeOK
  BY DEF IInv
<1>2. tip' = FetchCoins(tip, t, db[t]) /\ UNCHANGED <<db, view, modifier>>
  BY DEF AccessTip
<1> QED BY <1>1, <1>2, FetchTip DEF EntryInv

LEMMA AccessViewInv ==
  ASSUME IInv, NEW t \in Txid, AccessView(t), NEW s \in Txid
  PROVE  EntryInv(s)'
<1> USE CoinsAssumption, EntryAssumption
<1>1. EntryInv(s) /\ EntryInv(t) /\ TypeOK
  BY DEF IInv
<1>2. CASE view[t] # NoEntry
  <2>1. UNCHANGED <<db, tip, view, modifier>>
    BY <1>2 DEF AccessView, FetchCoins
  <2> QED BY <1>1, <2>1 DEF EntryInv, TipValue, DbValue, GetCoins
<1>3. CASE view[t] = NoEntry
  <2>1. /\ tip' = FetchCoins(tip, t, db[t])
        /\ view' = FetchCoins(view, t, TipGetCoins(t))
        /\ UNCHANGED <<db, modifier>>
    BY <1>3 DEF AccessView
  <2>2. view \in Cache
    BY <1>1 DEF TypeOK
  <2>3. view'[s] = IF s = t /\ TipGetCoins(t) # Absent
                   THEN [coins |-> TipGetCoins(t), dirty |-> FALSE,
                         fresh |-> TipGetCoins(t) = Pruned]
                   ELSE view[s]
    BY <1>1, <1>3, <2>1, <2>2, TipGet, FetchEntry
  <2>4. CASE ~ (s = t /\ TipGetCoins(t) # Absent)
    <3>1. view'[s] = view[s]
      BY <2>3, <2>4
    <3> QED BY <1>1, <2>1, <3>1, FetchTip DEF EntryInv
  <2>5. CASE s = t /\ TipGetCoins(t) # Absent
    <3>1. TipValue(t)' = TipValue(t) /\ tip'[t] # NoEntry
      BY <1>1, <2>1, <2>5, FetchTip, TipGet
    <3>2. /\ view'[t].coins = TipValue(t)
          /\ view'[t].fresh = (TipValue(t) = Pruned)
          /\ view'[t].dirty = FALSE
      BY <1>1, <2>3, <2>5, TipGet
    <3>3. modifier # t
      BY <1>1, <1>3 DEF TypeOK
    <3> QED BY <1>1, <2>1, <2>5, <3>1, <3>2, <3>3, FetchTip DEF EntryInv
  <2> QED BY <2>4, <2>5
<1> QED BY <1>2, <1>3

LEMMA ModifyCoinsInv ==
  ASSUME IInv, NEW t \in Txid, ModifyCoins(t), NEW s \in Txid
  PROVE  EntryInv(s)'
<1> USE CoinsAssumption, EntryAssumption
<1>1. EntryInv(s) /\ EntryInv(t) /\ TypeOK
  BY DEF IInv
<1>2. /\ view' = [view EXCEPT ![t] = ModifiedEntry(view, t, TipGetCoins(t))]
      /\ modifier = NoModifier /\ modifier' = t /\ UNCHANGED db
  BY DEF ModifyCoins
<1>3. view'[t] = ModifiedEntry(view, t, TipGetCoins(t)) /\ (s # t => view'[s] = view[s])
  BY <1>1, <1>2 DEF TypeOK, Cache
<1>4. CASE view[t] # NoEntry
  <2>1. tip' = tip
    BY <1>4 DEF ModifyCoins
  <2>2. view[t] \in Entry
    BY <1>1, <1>4 DEF TypeOK, Cache
  <2>3. view'[t] = [view[t] EXCEPT !.dirty = TRUE]
    BY <1>3, <1>4 DEF ModifiedEntry
  <2>4. view'[t].dirty = TRUE
    BY <2>2, <2>3 DEF Entry
  <2>5. view'[t].fresh = view[t].fresh
    BY <2>2, <2>3 DEF Entry
  <2>6. UNCHANGED <<TipValue(s), DbValue(s)>>
    BY <1>2, <2>1 DEF TipValue, DbValue, GetCoins
  <2>7. CASE s = t
    BY <1>1, <1>2, <1>4, <2>1, <2>4, <2>5, <2>6, <2>7 DEF EntryInv
  <2>8. CASE s # t
    BY <1>1, <1>2, <1>3, <2>1, <2>6, <2>8 DEF EntryInv
  <2> QED BY <2>7, <2>8
<1>5. CASE view[t] = NoEntry
  <2>1. tip' = FetchCoins(tip, t, db[t])
    BY <1>5 DEF ModifyCoins
  <2>2. CASE s # t
    <3>1. view'[s] = view[s] /\ modifier' # s
      BY <1>2, <1>3, <2>2
    <3>2. modifier # s
      BY <1>2
    <3> QED BY <1>1, <1>2, <2>1, <3>1, <3>2, FetchTip DEF EntryInv
  <2>3. CASE s = t
    <3>1. view'[t].dirty = TRUE
      BY <1>3, <1>5 DEF ModifiedEntry
    <3>2. view'[t].fresh = (TipGetCoins(t) \in {Absent, Pruned})
      BY <1>3, <1>5 DEF ModifiedEntry
    <3>3. TipGetCoins(t) \in {Absent, Pruned} => TipValue(t)' = Pruned
      BY <1>1, <1>2, <2>1, FetchTip, TipGet
    <3>4. TipGetCoins(t) # Absent => tip'[t] # NoEntry
      BY <1>1, <1>2, <2>1, FetchTip, TipGet
    <3> QED BY <1>1, <1>2, <2>1, <2>3, <3>1, <3>2, <3>3, <3>4, FetchTip DEF EntryInv
  <2> QED BY <2>2, <2>3
<1> QED BY <1>4, <1>5

LEMMA ReleaseModifierInv ==
  ASSUME IInv, NEW c \in Value, ReleaseModifier(c), NEW s \in Txid
  PROVE  EntryInv(s)'
<1> USE CoinsAssumption, EntryAssumption
<1>1. EntryInv(s) /\ TypeOK
  BY DEF IInv
<1>2. modifier # NoModifier /\ modifier' = NoModifier /\ UNCHANGED <<db, tip>>
  BY DEF ReleaseModifier
<1>3. UNCHANGED <<TipValue(s), DbValue(s)>>
  BY <1>2 DEF TipValue, DbValue, GetCoins
<1>4. CASE s # modifier
  <2>1. view'[s] = view[s]
    BY <1>1, <1>4 DEF ReleaseModifier, TypeOK, Cache
  <2> QED BY <1>1, <1>2, <1>3, <1>4, <2>1 DEF EntryInv
<1>5. CASE s = modifier
  <2>1. view[s] \in Entry /\ view[s].dirty
    BY <1>1, <1>2, <1>5 DEF TypeOK, Cache, EntryInv
  <2>2. view'[s] = IF view[s].fresh /\ c = Pruned
                   THEN NoEntry ELSE [view[s] EXCEPT !.coins = c]
    BY <1>1, <1>5 DEF ReleaseModifier, TypeOK, Cache
  <2>3. CASE view[s].fresh /\ c = Pruned
    BY <1>1, <1>2, <1>3, <2>2, <2>3 DEF EntryInv
  <2>4. CASE ~ (view[s].fresh /\ c = Pruned)
    <3>1. view'[s] = [view[s] EXCEPT !.coins = c]
      BY <2>2, <2>4
    <3>2. view'[s].coins = c
      BY <2>1, <3>1 DEF Entry
    <3>3. view'[s].dirty = view[s].dirty /\ view'[s].fresh = view[s].fresh
      BY <2>1, <3>1 DEF Entry
    <3>4. view[s] # NoEntry
      BY <2>1
    <3> QED BY <1>1, <1>2, <1>3, <2>1, <2>4, <3>2, <3>3, <3>4 DEF EntryInv
  <2> QED BY <2>3, <2>4
<1> QED BY <1>4, <1>5

\* Pushing the view into pcoinsTip makes every coin's value in pcoinsTip the
\* one the view had, and keeps the promises of pcoinsTip's flags.
LEMMA FlushViewEntry ==
  ASSUME IInv, NEW b \in Block, FlushView(b), NEW s \in Txid
  PROVE  /\ TipValue(s)' = ViewValue(s)
         /\ tip'[s] # NoEntry =>
              /\ ~tip'[s].dirty => tip'[s].coins = DbValue(s)'
              /\ tip'[s].fresh => DbValue(s)' = Pruned /\ tip'[s].coins # Pruned
<1> USE CoinsAssumption, EntryAssumption
<1>1. EntryInv(s) /\ TypeOK /\ modifier # s
  BY DEF IInv, FlushView
<1>2. UNCHANGED DbValue(s) /\ tip'[s] = BatchWriteEntry(tip[s], view[s])
  BY DEF FlushView, DbValue
<1>3. tip[s] \in Entry \cup {NoEntry} /\ view[s] \in Entry \cup {NoEntry}
  BY <1>1 DEF TypeOK, Cache
<1>4. CASE view[s] = NoEntry \/ ~view[s].dirty
  <2>1. tip'[s] = tip[s]
    BY <1>2, <1>4 DEF BatchWriteEntry
  <2>2. TipValue(s)' = TipValue(s)
    BY <1>2, <2>1 DEF TipValue, GetCoins
  <2>3. ViewValue(s) = TipValue(s)
    BY <1>1, <1>4 DEF EntryInv, ViewValue, GetCoins
  <2> QED BY <1>1, <1>2, <2>1, <2>2, <2>3 DEF EntryInv
<1>5. CASE view[s] # NoEntry /\ view[s].dirty /\ tip[s] = NoEntry
  <2>1. view[s].fresh /\ view[s].coins # Pruned /\ DbValue(s) = Pruned
    BY <1>1, <1>5 DEF EntryInv, TipValue, GetCoins
  <2>2. tip'[s] = [coins |-> view[s].coins, dirty |-> TRUE, fresh |-> TRUE]
    BY <1>2, <1>5, <2>1 DEF BatchWriteEntry
  <2>3. tip'[s] \in Entry
    BY <1>3, <1>5, <2>2 DEF Entry
  <2>4. tip'[s].coins = view[s].coins
    BY <2>2
  <2>5. tip'[s].dirty = TRUE
    BY <2>2
  <2> QED BY <1>2, <1>5, <2>1, <2>3, <2>4, <2>5 DEF TipValue, ViewValue, GetCoins
<1>6. CASE /\ view[s] # NoEntry /\ view[s].dirty /\ tip[s] # NoEntry
           /\ tip[s].fresh /\ view[s].coins = Pruned
  <2>1. tip'[s] = NoEntry
    BY <1>2, <1>6 DEF BatchWriteEntry
  <2>2. DbValue(s) = Pruned
    BY <1>1, <1>6 DEF EntryInv
  <2> QED BY <1>2, <1>6, <2>1, <2>2 DEF TipValue, ViewValue, GetCoins
<1>7. CASE /\ view[s] # NoEntry /\ view[s].dirty /\ tip[s] # NoEntry
           /\ ~ (tip[s].fresh /\ view[s].coins = Pruned)
  <2>1. tip'[s] = [tip[s] EXCEPT !.coins = view[s].coins, !.dirty = TRUE]
    BY <1>2, <1>7 DEF BatchWriteEntry
  <2>2. tip[s] \in Entry /\ view[s] \in Entry
    BY <1>3, <1>7
  <2>3. tip'[s] \in Entry /\ tip'[s].coins = view[s].coins
    BY <2>1, <2>2 DEF Entry
  <2>4. tip'[s].dirty = TRUE
    BY <2>1, <2>2 DEF Entry
  <2>5. tip'[s].fresh = tip[s].fresh
    BY <2>1, <2>2 DEF Entry
  <2>6. tip'[s].fresh => DbValue(s)' = Pruned /\ tip'[s].coins # Pruned
    BY <1>1, <1>2, <1>7, <2>3, <2>5 DEF EntryInv
  <2> QED BY <1>7, <2>3, <2>4, <2>6 DEF TipValue, ViewValue, GetCoins
<1> QED BY <1>4, <1>5, <1>6, <1>7

LEMMA InvStep == IInv /\ [Next]_vars => IInv'
<1> SUFFICES ASSUME IInv, [Next]_vars, NEW s \in Txid PROVE EntryInv(s)'
  BY TypeStep DEF IInv
<1> USE CoinsAssumption
<1>1. TypeOK /\ EntryInv(s)
  BY DEF IInv
<1>2. ASSUME NEW b \in Block, FlushView(b) PROVE EntryInv(s)'
  <2>1. view'[s] = NoEntry /\ modifier' # s
    BY <1>2 DEF FlushView, EmptyCache
  <2> QED BY <1>2, <2>1, FlushViewEntry DEF EntryInv
<1>3. CASE FlushTip \/ FlushTipFails \/ Restart
  <2>1. view'[s] = NoEntry /\ tip'[s] = NoEntry /\ modifier' # s
    BY <1>1, <1>3 DEF FlushTip, FlushTipFails, Restart, TypeOK, EmptyCache
  <2> QED BY <2>1 DEF EntryInv
<1>4. CASE OpenView \/ DropView
  <2>1. view'[s] = NoEntry /\ UNCHANGED <<tip, db>> /\ modifier' # s
    BY <1>1, <1>4 DEF OpenView, DropView, TypeOK, EmptyCache
  <2> QED BY <1>1, <2>1 DEF EntryInv, DbValue
<1>5. CASE GetBestBlock \/ UNCHANGED vars
  <2>1. UNCHANGED <<view, tip, db, modifier>>
    BY <1>5 DEF GetBestBlock, vars
  <2> QED BY <1>1, <2>1 DEF EntryInv, DbValue, TipValue, GetCoins
<1> QED
  BY <1>2, <1>3, <1>4, <1>5, AccessTipInv, AccessViewInv, ModifyCoinsInv,
     ReleaseModifierInv DEF Next

LEMMA InvInit == Init => IInv
<1> SUFFICES ASSUME Init, NEW s \in Txid PROVE EntryInv(s)
  BY TypeInit DEF IInv
<1> QED BY CoinsAssumption DEF Init, EntryInv, EmptyCache

\* The flag bits of both caches keep their promises in every reachable state:
\* what CCoinsViewCache::BatchWrite, CCoinsViewDB::BatchWrite and
\* ~CCoinsModifier skip or forget is never a difference to the layer below.
THEOREM FlagsSound == Spec => []FlagsOK
<1>1. IInv => FlagsOK
  BY DEF IInv, EntryInv, FlagsOK, CleanEntriesMatchBase, FreshMeansPrunedBelow,
         NonFreshChangesAreInTip, NoUselessEntries
<1> QED BY <1>1, InvInit, InvStep, PTL DEF Spec

-----------------------------------------------------------------------------
(* The layers implement CoinStore as long as leveldb refuses no batch. *)

\* What one step may do to the three values of a transaction.
LEMMA ReadKeepsValues ==
  ASSUME IInv, NEW t \in Txid, NEW s \in Txid,
         AccessTip(t) \/ AccessView(t) \/ ModifyCoins(t)
  PROVE  UNCHANGED <<DbValue(s), TipValue(s), ViewValue(s)>>
<1> USE CoinsAssumption, EntryAssumption
<1>1. EntryInv(s) /\ EntryInv(t) /\ TypeOK
  BY DEF IInv
<1>2. UNCHANGED DbValue(s)
  BY DEF AccessTip, AccessView, ModifyCoins, DbValue
<1>3. UNCHANGED TipValue(s)
  <2>1. tip' = tip \/ tip' = FetchCoins(tip, t, db[t])
    BY DEF AccessTip, AccessView, ModifyCoins
  <2>2. UNCHANGED db
    BY DEF AccessTip, AccessView, ModifyCoins
  <2> QED BY <1>1, <1>2, <2>1, <2>2, FetchTip DEF TipValue, GetCoins
<1>4. CASE view'[s] = view[s]
  BY <1>2, <1>3, <1>4 DEF ViewValue, GetCoins
<1>5. CASE view'[s] # view[s]
  <2>1. view \in Cache /\ TipGetCoins(t) \in Value \cup {Absent}
    BY <1>1, TipGet DEF TypeOK
  <2>2. s = t
    <3>1. CASE AccessTip(t)
      BY <1>5, <3>1 DEF AccessTip
    <3>2. CASE AccessView(t)
      <4>1. view' = FetchCoins(view, t, TipGetCoins(t))
        BY <3>2, Zenon DEF AccessView
      <4>2. ASSUME s # t PROVE view'[s] = view[s]
        <5>1. FetchCoins(view, t, TipGetCoins(t))[s] = view[s]
          BY <2>1, <4>2, FetchOther, Zenon
        <5> QED BY <4>1, <5>1, Zenon
      <4> QED BY <1>5, <4>2, Zenon
    <3>3. CASE ModifyCoins(t)
      BY <1>5, <2>1, <3>3 DEF ModifyCoins, Cache
    <3> QED BY <3>1, <3>2, <3>3
  <2>3. view'[t] # NoEntry /\ view'[t].coins = ViewValue(t)
    <3>1. CASE AccessView(t)
      <4>1. view[t] = NoEntry /\ TipGetCoins(t) # Absent
        BY <1>5, <2>2, <3>1 DEF AccessView, FetchCoins
      <4>2. view'[t] = [coins |-> TipGetCoins(t), dirty |-> FALSE,
                        fresh |-> TipGetCoins(t) = Pruned]
        <5>1. view' = FetchCoins(view, t, TipGetCoins(t))
          BY <3>1, Zenon DEF AccessView
        <5>2. FetchCoins(view, t, TipGetCoins(t))[t]
                = [coins |-> TipGetCoins(t), dirty |-> FALSE, fresh |-> TipGetCoins(t) = Pruned]
          BY <2>1, <4>1, FetchEntry, Zenon
        <5> QED BY <5>1, <5>2, Zenon
      <4>3. view'[t] \in Entry
        BY <2>1, <4>1, <4>2 DEF Entry
      <4>4. view'[t].coins = TipGetCoins(t)
        BY <4>2
      <4> QED BY <1>1, <4>1, <4>3, <4>4, TipGet DEF ViewValue, GetCoins
    <3>2. CASE ModifyCoins(t)
      <4>1. view'[t] = ModifiedEntry(view, t, TipGetCoins(t))
        BY <2>1, <3>2 DEF ModifyCoins, Cache
      <4>2. CASE view[t] # NoEntry
        <5>1. view[t] \in Entry
          BY <2>1, <4>2 DEF Cache
        <5>2. view'[t] = [view[t] EXCEPT !.dirty = TRUE]
          BY <4>1, <4>2 DEF ModifiedEntry
        <5>3. view'[t] \in Entry /\ view'[t].coins = view[t].coins
          BY <5>1, <5>2 DEF Entry
        <5> QED BY <4>2, <5>3 DEF ViewValue, GetCoins
      <4>3. CASE view[t] = NoEntry
        <5>1. view'[t] = [coins |-> TipValue(t), dirty |-> TRUE,
                          fresh |-> TipGetCoins(t) \in {Absent, Pruned}]
          BY <1>1, <4>1, <4>3, TipGet DEF ModifiedEntry
        <5>2. TipValue(t) \in Value
          BY <1>1 DEF TipValue, DbValue, GetCoins, TypeOK, Cache, Entry, Value
        <5>3. view'[t] \in Entry
          BY <5>1, <5>2 DEF Entry
        <5>4. view'[t].coins = TipValue(t)
          BY <5>1
        <5> QED BY <4>3, <5>3, <5>4 DEF ViewValue, GetCoins
      <4> QED BY <4>2, <4>3
    <3>3. CASE AccessTip(t)
      BY <1>5, <3>3 DEF AccessTip
    <3> QED BY <3>1, <3>2, <3>3
  <2> QED BY <1>2, <1>3, <2>2, <2>3 DEF ViewValue, GetCoins
<1> QED BY <1>2, <1>3, <1>4, <1>5

\* Setting the coins the modifier points at is one write of CoinStore.
LEMMA ReleaseWrites ==
  ASSUME IInv, NEW c \in Value, ReleaseModifier(c), NEW s \in Txid
  PROVE  /\ UNCHANGED <<DbValue(s), TipValue(s)>>
         /\ ViewValue(s)' = IF s = modifier THEN c ELSE ViewValue(s)
<1> USE CoinsAssumption, EntryAssumption
<1>1. EntryInv(s) /\ TypeOK
  BY DEF IInv
<1>2. modifier # NoModifier /\ UNCHANGED <<db, tip>>
  BY DEF ReleaseModifier
<1>3. UNCHANGED <<DbValue(s), TipValue(s)>>
  BY <1>2 DEF TipValue, DbValue, GetCoins
<1>4. CASE s # modifier
  <2>1. view'[s] = view[s]
    BY <1>1, <1>4 DEF ReleaseModifier, TypeOK, Cache
  <2> QED BY <1>3, <1>4, <2>1 DEF ViewValue, GetCoins
<1>5. CASE s = modifier
  <2>1. view[s] \in Entry
    BY <1>1, <1>2, <1>5 DEF TypeOK, Cache
  <2>2. view'[s] = IF view[s].fresh /\ c = Pruned
                   THEN NoEntry ELSE [view[s] EXCEPT !.coins = c]
    BY <1>1, <1>5 DEF ReleaseModifier, TypeOK, Cache
  <2>3. CASE view[s].fresh /\ c = Pruned
    <3>1. TipValue(s) = Pruned
      BY <1>1, <2>1, <2>3 DEF EntryInv
    <3> QED BY <1>3, <1>5, <2>2, <2>3, <3>1 DEF ViewValue, GetCoins
  <2>4. CASE ~ (view[s].fresh /\ c = Pruned)
    <3>1. view'[s] = [view[s] EXCEPT !.coins = c]
      BY <2>2, <2>4
    <3>2. view'[s] \in Entry /\ view'[s].coins = c
      BY <2>1, <3>1 DEF Entry
    <3> QED BY <1>3, <1>5, <3>2 DEF ViewValue, GetCoins
  <2> QED BY <2>3, <2>4
<1> QED BY <1>4, <1>5

\* One leveldb batch makes the disk equal to pcoinsTip.
LEMMA FlushTipSyncs ==
  ASSUME IInv, FlushTip, NEW s \in Txid
  PROVE  /\ DbValue(s)' = TipValue(s)
         /\ TipValue(s)' = TipValue(s)
         /\ ViewValue(s) = TipValue(s)
         /\ ViewValue(s)' = TipValue(s)
<1> USE CoinsAssumption, EntryAssumption
<1>1. EntryInv(s) /\ TypeOK
  BY DEF IInv
<1>2. db'[s] = DbWriteEntry(db[s], tip[s]) /\ tip'[s] = NoEntry
  BY DEF FlushTip, EmptyCache
<1>3. view[s] = NoEntry /\ view'[s] = NoEntry
  BY <1>1 DEF FlushTip, TypeOK, EmptyCache
<1>4. DbValue(s)' = TipValue(s)
  <2>1. CASE tip[s] = NoEntry \/ ~tip[s].dirty
    BY <1>1, <1>2, <2>1 DEF DbWriteEntry, DbValue, TipValue, GetCoins, EntryInv
  <2>2. CASE tip[s] # NoEntry /\ tip[s].dirty
    <3>1. tip[s].coins \in Value
      BY <1>1, <2>2 DEF TypeOK, Cache, Entry
    <3> QED BY <1>2, <2>2, <3>1 DEF DbWriteEntry, DbValue, TipValue, GetCoins, Value
  <2> QED BY <2>1, <2>2
<1> QED BY <1>2, <1>3, <1>4 DEF TipValue, ViewValue, GetCoins

LEMMA StoreInit == Init => Store!Init
<1> SUFFICES ASSUME Init PROVE Store!Init
  OBVIOUS
<1>1. \A t \in Txid : DbValue(t) = Pruned /\ TipValue(t) = Pruned /\ ViewValue(t) = Pruned
  BY DEF Init, EmptyCache, DbValue, TipValue, ViewValue, GetCoins
<1> QED BY <1>1 DEF Init, Store!Init, TipBestBlock

LEMMA StoreStep ==
  IInv /\ [Next]_vars => [Store!Next]_(Store!vars)
<1> SUFFICES ASSUME IInv, [Next]_vars
             PROVE  Store!Next \/ UNCHANGED Store!vars
  BY DEF Store!vars
<1> USE CoinsAssumption DEF Store!vars
<1>1. TypeOK
  BY DEF IInv
<1>2. ASSUME NEW t \in Txid, AccessTip(t) \/ AccessView(t) \/ ModifyCoins(t)
      PROVE  UNCHANGED Store!vars
  <2>1. \A s \in Txid : UNCHANGED <<DbValue(s), TipValue(s), ViewValue(s)>>
    BY <1>2, ReadKeepsValues
  <2>2. UNCHANGED <<dbBest, TipBestBlock, viewOpen>>
    BY <1>2 DEF AccessTip, AccessView, ModifyCoins, TipBestBlock
  <2> QED BY <2>1, <2>2
<1>3. ASSUME NEW c \in Value, ReleaseModifier(c) PROVE Store!Next
  <2>1. /\ \A s \in Txid : UNCHANGED <<DbValue(s), TipValue(s)>>
        /\ \A s \in Txid : ViewValue(s)' = IF s = modifier THEN c ELSE ViewValue(s)
    BY <1>3, ReleaseWrites
  <2>2. UNCHANGED <<dbBest, TipBestBlock, viewOpen>>
    BY <1>3 DEF ReleaseModifier, TipBestBlock
  <2>3. modifier \in Txid /\ viewOpen
    BY <1>1, <1>3 DEF ReleaseModifier, TypeOK
  <2>4. Store!Write(modifier, c)
    BY <2>1, <2>2, <2>3 DEF Store!Write
  <2>5. c \in Store!Value
    BY DEF Value, Store!Value
  <2> QED BY <2>3, <2>4, <2>5 DEF Store!Next
<1>4. ASSUME NEW b \in Block, FlushView(b) PROVE Store!Next
  <2>1. \A s \in Txid : TipValue(s)' = ViewValue(s) /\ UNCHANGED DbValue(s)
    BY <1>4, FlushViewEntry DEF FlushView, DbValue
  <2>2. \A s \in Txid : ViewValue(s)' = TipValue(s)'
    BY <1>4 DEF FlushView, EmptyCache, ViewValue, GetCoins
  <2>3. TipBestBlock' = b /\ UNCHANGED dbBest /\ viewOpen /\ viewOpen' = FALSE
    BY <1>4 DEF FlushView, TipBestBlock
  <2>4. Store!Commit(b)
    BY <2>1, <2>2, <2>3 DEF Store!Commit
  <2> QED BY <2>4 DEF Store!Next
<1>5. CASE FlushTip
  <2>1. \A s \in Txid : /\ DbValue(s)' = TipValue(s)
                        /\ TipValue(s)' = TipValue(s)
                        /\ ViewValue(s)' = ViewValue(s)
    BY <1>5, FlushTipSyncs
  <2>2. UNCHANGED <<TipBestBlock, viewOpen>> /\ dbBest' = TipBestBlock /\ ~viewOpen
    BY <1>5 DEF FlushTip, TipBestBlock
  <2>3. Store!Sync
    BY <2>1, <2>2 DEF Store!Sync
  <2> QED BY <2>3 DEF Store!Next
<1>6. CASE Restart
  <2>1. \A s \in Txid : /\ UNCHANGED DbValue(s)
                        /\ TipValue(s)' = DbValue(s)
                        /\ ViewValue(s)' = DbValue(s)
    BY <1>6 DEF Restart, EmptyCache, DbValue, TipValue, ViewValue, GetCoins
  <2>2. UNCHANGED dbBest /\ TipBestBlock' = dbBest /\ viewOpen' = FALSE
    BY <1>6 DEF Restart, TipBestBlock
  <2>3. Store!Crash
    BY <2>1, <2>2 DEF Store!Crash
  <2> QED BY <2>3 DEF Store!Next
<1>7. CASE OpenView \/ DropView
  <2>1. \A s \in Txid : UNCHANGED <<DbValue(s), TipValue(s)>> /\ ViewValue(s)' = TipValue(s)
    BY <1>7 DEF OpenView, DropView, EmptyCache, DbValue, TipValue, ViewValue, GetCoins
  <2>2. UNCHANGED <<dbBest, TipBestBlock>>
    BY <1>7 DEF OpenView, DropView, TipBestBlock
  <2>3. CASE OpenView
    <3>1. \A s \in Txid : ViewValue(s) = TipValue(s)
      BY <1>1, <2>3 DEF OpenView, TypeOK, EmptyCache, ViewValue, GetCoins
    <3>2. Store!Begin
      BY <2>1, <2>2, <2>3, <3>1 DEF OpenView, Store!Begin
    <3> QED BY <3>2 DEF Store!Next
  <2>4. CASE DropView
    <3>1. Store!Abort
      BY <2>1, <2>2, <2>4 DEF DropView, Store!Abort
    <3> QED BY <3>1 DEF Store!Next
  <2> QED BY <1>7, <2>3, <2>4
<1>8. CASE GetBestBlock \/ UNCHANGED vars
  <2>1. \A s \in Txid : UNCHANGED <<DbValue(s), TipValue(s), ViewValue(s)>>
    BY <1>8 DEF GetBestBlock, vars, DbValue, TipValue, ViewValue, GetCoins
  <2>2. UNCHANGED <<dbBest, TipBestBlock, viewOpen>>
    BY <1>8 DEF GetBestBlock, vars, TipBestBlock
  <2> QED BY <2>1, <2>2
<1>9. CASE FlushTipFails
  <2>1. \A s \in Txid : /\ UNCHANGED DbValue(s)
                        /\ TipValue(s)' = DbValue(s)
                        /\ ViewValue(s)' = DbValue(s)
    BY <1>1, <1>9 DEF FlushTipFails, TypeOK, EmptyCache, DbValue, TipValue, ViewValue, GetCoins
  <2>2. UNCHANGED <<dbBest, TipBestBlock, viewOpen>> /\ ~viewOpen
    BY <1>9 DEF FlushTipFails, TipBestBlock
  <2>3. Store!SyncFails
    BY <2>1, <2>2 DEF Store!SyncFails
  <2> QED BY <2>3 DEF Store!Next
<1> QED BY <1>2, <1>3, <1>4, <1>5, <1>6, <1>7, <1>8, <1>9 DEF Next

\* The coin views implement CoinStore: the node's coins change only by whole
\* committed blocks, a crash finds the coins and the best block of one earlier
\* synced state, and a refused batch loses what was not synced all at once.
THEOREM ImplementsStore == Spec => StoreSpec
<1>1. IInv /\ [Next]_vars => [Store!Next]_(Store!vars)
  BY StoreStep
<1> QED BY <1>1, InvInit, InvStep, StoreInit, PTL DEF Spec, StoreSpec, Store!Spec
=============================================================================
