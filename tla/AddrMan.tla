------------------------------- MODULE AddrMan -------------------------------
(***************************************************************************)
(* The table of known network addresses (addrman.cpp, addrman.h): every    *)
(* address has an id, a place in vRandom, and is either in one or more     *)
(* "new" buckets or in one "tried" bucket.  Every public operation runs    *)
(* under the lock cs and is one action.  The table is saved in peers.dat   *)
(* and rebuilt from it at the next start.                                  *)
(*                                                                         *)
(* The buckets a key selects are constant functions, since nKey is saved   *)
(* too.  IsTerrible, the age of an address and the random tests of Add_    *)
(* and GetAddr_ are free choices; Attempt_, Connected_ and Select_, which  *)
(* only touch or read the statistics behind them, are left out.  Addresses *)
(* differ in their IP.  vRandom is counted from 1.                         *)
(***************************************************************************)
EXTENDS Integers, Sequences, FiniteSets, SequencesExt

CONSTANTS Addr, Source,
          NewBucketOf,   \* GetNewBucket: address -> source -> bucket
          NewPosition,   \* GetBucketPosition: address -> new bucket -> position
          TriedSlot,     \* GetTriedBucket and its position: address -> slot
          NewBucketCount, BucketSize,
          PerAddress,    \* ADDRMAN_NEW_BUCKETS_PER_ADDRESS
          GetAddrPct,    \* ADDRMAN_GETADDR_MAX_PCT
          MaxId          \* bound on nIdCount for TLC

NewBucket == 0..(NewBucketCount - 1)
Position == 0..(BucketSize - 1)
TriedSlots == {TriedSlot[a] : a \in Addr}
None == -1

ASSUME AddrManAssumption ==
  /\ NewBucketCount \in Nat \ {0} /\ BucketSize \in Nat \ {0}
  /\ NewBucketOf \in [Addr -> [Source -> NewBucket]]
  /\ NewPosition \in [Addr -> [NewBucket -> Position]]
  /\ PerAddress \in Nat \ {0} /\ GetAddrPct \in 0..100 /\ MaxId \in Nat

VARIABLE addrman  \* the fields of CAddrMan

-----------------------------------------------------------------------------
(* The private operations, on the fields am *)

Clear == [mapInfo |-> <<>>, mapAddr |-> <<>>, vRandom |-> <<>>,
          vvNew |-> [s \in NewBucket \X Position |-> None],
          vvTried |-> [s \in TriedSlots |-> None],
          nNew |-> 0, nTried |-> 0, nIdCount |-> 0]

NewSlot(a, bucket) == <<bucket, NewPosition[a][bucket]>>

\* CAddrInfo; success: nLastSuccess is set
Info(a, src, success, pos) ==
  [addr |-> a, source |-> src, success |-> success, nRefCount |-> 0, fInTried |-> FALSE,
   nRandomPos |-> pos]

\* The map with one more or one less key
With(f, k, v) == [x \in DOMAIN f \cup {k} |-> IF x = k THEN v ELSE f[x]]
Without(f, k) == [x \in DOMAIN f \ {k} |-> f[x]]

Create(am, info) ==
  [am EXCEPT !.mapInfo = With(@, am.nIdCount, [info EXCEPT !.nRandomPos = Len(am.vRandom) + 1]),
             !.mapAddr = With(@, info.addr, am.nIdCount),
             !.vRandom = Append(@, am.nIdCount),
             !.nIdCount = @ + 1]

SwapRandom(am, p, q) ==
  LET i == am.vRandom[p]
      j == am.vRandom[q]
  IN  IF p = q THEN am
      ELSE [am EXCEPT !.mapInfo[i].nRandomPos = q, !.mapInfo[j].nRandomPos = p,
                      !.vRandom[p] = j, !.vRandom[q] = i]

Delete(am, id) ==
  LET last == SwapRandom(am, am.mapInfo[id].nRandomPos, Len(am.vRandom))
  IN  [last EXCEPT !.vRandom = Front(@), !.mapAddr = Without(@, am.mapInfo[id].addr),
                   !.mapInfo = Without(@, id), !.nNew = @ - 1]

ClearNew(am, slot) ==
  LET id == am.vvNew[slot]
      less == [am EXCEPT !.mapInfo[id].nRefCount = @ - 1, !.vvNew[slot] = None]
  IN  IF id = None THEN am
      ELSE IF less.mapInfo[id].nRefCount = 0 THEN Delete(less, id) ELSE less

\* Mutant: the entry moved back to a new bucket is not counted as new
Evict_NotCounted(am, slot) ==
  LET id == am.vvTried[slot]
      info == am.mapInfo[id]
      uslot == NewSlot(info.addr, NewBucketOf[info.addr][info.source])
      cleared == ClearNew([am EXCEPT !.mapInfo[id].fInTried = FALSE, !.vvTried[slot] = None,
                                     !.nTried = @ - 1], uslot)
  IN  IF id = None THEN am
      ELSE [cleared EXCEPT !.mapInfo[id].nRefCount = 1, !.vvNew[uslot] = id]

\* Mutant: the entry in a tried slot is dropped if its place in the new bucket is taken
Evict_Drops(am, slot) ==
  LET id == am.vvTried[slot]
      info == am.mapInfo[id]
      uslot == NewSlot(info.addr, NewBucketOf[info.addr][info.source])
      out == [am EXCEPT !.mapInfo[id].fInTried = FALSE, !.vvTried[slot] = None,
                        !.nTried = @ - 1, !.nNew = @ + 1]
  IN  IF id = None THEN am
      ELSE IF am.vvNew[uslot] # None THEN Delete(out, id)
      ELSE [out EXCEPT !.mapInfo[id].nRefCount = 1, !.vvNew[uslot] = id]

\* The entry in a tried slot goes back to the new bucket of its first source
Evict(am, slot) ==
  LET id == am.vvTried[slot]
      info == am.mapInfo[id]
      uslot == NewSlot(info.addr, NewBucketOf[info.addr][info.source])
      cleared == ClearNew([am EXCEPT !.mapInfo[id].fInTried = FALSE, !.vvTried[slot] = None,
                                     !.nTried = @ - 1], uslot)
  IN  IF id = None THEN am
      ELSE [cleared EXCEPT !.mapInfo[id].nRefCount = 1, !.vvNew[uslot] = id, !.nNew = @ + 1]

SlotsOf(am, id) == {NewSlot(am.mapInfo[id].addr, b) : b \in NewBucket}
                     \cap {s \in DOMAIN am.vvNew : am.vvNew[s] = id}

MakeTried(am, id) ==
  LET slot == TriedSlot[am.mapInfo[id].addr]
      mine == SlotsOf(am, id)
      out == [am EXCEPT !.vvNew = [s \in DOMAIN @ |-> IF s \in mine THEN None ELSE @[s]],
                        !.mapInfo[id].nRefCount = @ - Cardinality(mine),
                        !.nNew = @ - 1]
  IN  [Evict(out, slot) EXCEPT !.vvTried[slot] = id, !.nTried = @ + 1,
                               !.mapInfo[id].fInTried = TRUE]

\* The end of Add_: the address goes into the bucket that the source selects, unless an
\* entry that is worth more is there; an entry without any bucket is deleted
Place(am, id, src, terrible) ==
  LET a == am.mapInfo[id].addr
      slot == NewSlot(a, NewBucketOf[a][src])
      there == am.vvNew[slot]
      refs == am.mapInfo[id].nRefCount
      fInsert == there = None \/ terrible \/ (am.mapInfo[there].nRefCount > 1 /\ refs = 0)
  IN  IF there = id THEN am
      ELSE IF fInsert THEN [ClearNew(am, slot) EXCEPT !.mapInfo[id].nRefCount = @ + 1,
                                                      !.vvNew[slot] = id]
      ELSE IF refs = 0 THEN Delete(am, id) ELSE am

-----------------------------------------------------------------------------
(* The public operations *)

Init == addrman = Clear

\* Add of an address that is not known
AddNew(a, src, terrible) ==
  /\ a \notin DOMAIN addrman.mapAddr
  /\ addrman.nIdCount <= MaxId
  /\ LET am == Create(addrman, Info(a, src, FALSE, 0))
     IN  addrman' = Place([am EXCEPT !.nNew = @ + 1], addrman.nIdCount, src, terrible)

\* Add of a known address with a newer time, when the random test succeeds
AddKnown(a, src, terrible) ==
  /\ a \in DOMAIN addrman.mapAddr
  /\ LET id == addrman.mapAddr[a]
     IN  /\ ~addrman.mapInfo[id].fInTried
         /\ addrman.mapInfo[id].nRefCount # PerAddress
         /\ addrman' = Place(addrman, id, src, terrible)

\* A connection to a succeeded
Good(a) ==
  /\ a \in DOMAIN addrman.mapAddr
  /\ LET id == addrman.mapAddr[a]
         am == [addrman EXCEPT !.mapInfo[id].success = TRUE]
         found == \E s \in SlotsOf(am, id) : TRUE
     IN  addrman' = IF am.mapInfo[id].fInTried \/ ~found THEN am ELSE MakeTried(am, id)

\* GetAddr swaps random entries to the front until it has found its percentage of them,
\* not counting the terrible ones
GetAddr(picks) ==
  LET size == Len(addrman.vRandom)
  IN  /\ Len(picks) \in ((GetAddrPct * size) \div 100)..size
      /\ GetAddrPct * size >= 100
      /\ \A n \in DOMAIN picks : picks[n] \in n..size
      /\ addrman' = FoldLeft(LAMBDA am, n : SwapRandom(am, n, picks[n]),
                             addrman, [n \in DOMAIN picks |-> n])

-----------------------------------------------------------------------------
(* peers.dat *)

Ids(am) == SetToSortSeq(DOMAIN am.mapInfo, <)

\* Mutant: the entries of the tried table are counted too
Index_All(am, id) == Cardinality({i \in DOMAIN am.mapInfo : i < id})

\* mapUnkIds: how many entries with a new bucket come before an id
Index(am, id) == Cardinality({i \in DOMAIN am.mapInfo : i < id /\ am.mapInfo[i].nRefCount # 0})

Serialize(am) ==
  LET new == SelectSeq(Ids(am), LAMBDA i : am.mapInfo[i].nRefCount # 0)
      tried == SelectSeq(Ids(am), LAMBDA i : am.mapInfo[i].fInTried)
      slots(b) == SelectSeq([p \in 1..BucketSize |-> am.vvNew[<<b, p - 1>>]],
                            LAMBDA i : i # None)
      entry(i) == LET x == am.mapInfo[i] IN Info(x.addr, x.source, x.success, 0)
  IN  [new |-> [n \in DOMAIN new |-> entry(new[n])],
       tried |-> [n \in DOMAIN tried |-> entry(tried[n])],
       buckets |-> [b \in NewBucket |->
                      [n \in DOMAIN slots(b) |-> Index(am, slots(b)[n])]]]

\* An entry of the tried table, lost if another one is in its slot
LoadTried(am, info) ==
  LET slot == TriedSlot[info.addr]
  IN  IF am.vvTried[slot] # None THEN am
      ELSE [Create(am, [info EXCEPT !.fInTried = TRUE]) EXCEPT
              !.vvTried[slot] = am.nIdCount, !.nTried = @ + 1]

\* An entry of bucket b
LoadPosition(am, b, n) ==
  LET slot == NewSlot(am.mapInfo[n].addr, b)
  IN  IF n >= am.nNew \/ am.vvNew[slot] # None \/ am.mapInfo[n].nRefCount >= PerAddress THEN am
      ELSE [am EXCEPT !.mapInfo[n].nRefCount = @ + 1, !.vvNew[slot] = n]

\* The same program wrote the file: the version and the number of buckets are right
Unserialize(file) ==
  LET new == [FoldLeft(Create, Clear, file.new) EXCEPT !.nNew = Len(file.new)]
      tried == FoldLeft(LoadTried, new, file.tried)
      places == FlattenSeq([b \in 1..NewBucketCount |->
                  [n \in DOMAIN file.buckets[b - 1] |-> <<b - 1, file.buckets[b - 1][n]>>]])
      placed == FoldLeft(LAMBDA am, x : LoadPosition(am, x[1], x[2]), tried, places)
      lost == SelectSeq(Ids(placed), LAMBDA i : /\ ~placed.mapInfo[i].fInTried
                                                /\ placed.mapInfo[i].nRefCount = 0)
  IN  FoldLeft(Delete, placed, lost)

\* DumpAddresses, and the node starts again with that file
Restart == addrman' = Unserialize(Serialize(addrman))

-----------------------------------------------------------------------------
Next ==
  \/ \E a \in Addr, src \in Source, terrible \in BOOLEAN :
       AddNew(a, src, terrible) \/ AddKnown(a, src, terrible)
  \/ \E a \in Addr : Good(a)
  \/ \E picks \in SeqOf(1..Len(addrman.vRandom), Len(addrman.vRandom)) : GetAddr(picks)
  \/ Restart

Spec == Init /\ [][Next]_addrman

-----------------------------------------------------------------------------
(* Properties *)

\* Check_, the consistency check of debug builds, always succeeds: the two tables, the
\* reference counts, the counters, mapAddr and vRandom tell the same story.  Select_ relies
\* on it to end: it draws slots until one is taken, as long as nTried or nNew is positive.
Check ==
  LET am == addrman
      triedIds == {i \in DOMAIN am.mapInfo : am.mapInfo[i].fInTried}
      newIds == DOMAIN am.mapInfo \ triedIds
  IN  /\ Len(am.vRandom) = am.nTried + am.nNew
      /\ Cardinality(triedIds) = am.nTried /\ Cardinality(newIds) = am.nNew
      /\ \A i \in DOMAIN am.mapInfo :
           LET info == am.mapInfo[i] IN
             /\ info.addr \in DOMAIN am.mapAddr /\ am.mapAddr[info.addr] = i
             /\ info.nRandomPos \in DOMAIN am.vRandom /\ am.vRandom[info.nRandomPos] = i
             /\ i < am.nIdCount
      /\ \A i \in triedIds : am.mapInfo[i].success /\ am.mapInfo[i].nRefCount = 0
                            /\ am.vvTried[TriedSlot[am.mapInfo[i].addr]] = i
      /\ \A i \in newIds : /\ am.mapInfo[i].nRefCount \in 1..PerAddress
                           /\ am.mapInfo[i].nRefCount = Cardinality(SlotsOf(am, i))
      /\ \A s \in DOMAIN am.vvTried : am.vvTried[s] \in triedIds \cup {None}
      /\ \A s \in DOMAIN am.vvNew :
           \/ am.vvNew[s] = None
           \/ am.vvNew[s] \in newIds /\ s \in SlotsOf(am, am.vvNew[s])

\* What the tables say, without the ids
Entry(am, id) == IF id = None THEN <<>>
                 ELSE LET x == am.mapInfo[id] IN <<x.addr, x.source, x.success, x.nRefCount>>
Tables(am) == [new |-> [s \in DOMAIN am.vvNew |-> Entry(am, am.vvNew[s])],
               tried |-> [s \in DOMAIN am.vvTried |-> Entry(am, am.vvTried[s])]]

\* A node that is started again has the tables it had when peers.dat was written, though the
\* ids, vRandom and the reference counts are not in the file and the indexes in the file
\* are not the ids.
RestartKeepsTables == Tables(Unserialize(Serialize(addrman))) = Tables(addrman)

\* No step forgets an address that was once connected to and is in the tried table: one
\* that has to make room is moved back to a new bucket.
TriedStaysKnown ==
  [][\A s \in DOMAIN addrman.vvTried :
       addrman.vvTried[s] # None =>
         addrman.mapInfo[addrman.vvTried[s]].addr \in DOMAIN addrman'.mapAddr]_addrman
=============================================================================
