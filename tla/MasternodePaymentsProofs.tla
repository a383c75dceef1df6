----------------------- MODULE MasternodePaymentsProofs -----------------------
(***************************************************************************)
(* Proofs about the votes for who is paid, for any masternodes, scores,    *)
(* levels, heights, messages, branches and bounds.                         *)
(*                                                                         *)
(* NoDoubleVote (IInv).  A vote of another masternode is unique because    *)
(* the mark that CanVote sets is at least as high as every vote held       *)
(* (Marked), the ones on their way into the tables included.  A vote of    *)
(* this node does not pass CanVote; it is unique because nLastBlockHeight  *)
(* is at least as high as every vote counted (OwnPast), and what comes     *)
(* back from peers was counted before it was relayed (OwnWork).  A restart *)
(* forgets both marks; the heights voted for so far are then all below     *)
(* horizon (Bounded).                                                      *)
(*                                                                         *)
(* VotesAreVoters and OwnBlockAccepted (CountInv).  The tables, and the    *)
(* file a restart will read, count only votes they hold, and the entry of  *)
(* a height that the clean-up has not reached carries that height.         *)
(*                                                                         *)
(* OnePayeeEnforced (RankInv, with the other two).  All voters of a height *)
(* were ranked by the one hash in the cache, so that they are among the    *)
(* first SignaturesTotal, and two majorities of those meet.                *)
(***************************************************************************)
EXTENDS MasternodePayments, FiniteSetTheorems, TLAPS

Held == mapMasternodePayeeVotes \cup adding \cup uncounted

PaymentsTypeOK ==
  /\ mapMasternodePayeeVotes \subseteq Winner /\ adding \subseteq Winner
  /\ uncounted \subseteq Winner /\ relayed \subseteq Winner /\ file.votes \subseteq Winner
  /\ mapMasternodesLastVote \in [Masternode \X (Level \cup {Deprecated}) -> Nat]
  /\ nLastBlockHeight \in Nat /\ highest \in Nat /\ horizon \in Nat
  /\ own \in BOOLEAN
  /\ chain \in Seq(Label \cup {Main}) /\ Len(chain) <= highest

\* Nothing was voted for too far ahead
Bounded ==
  \A v \in Held \cup relayed \cup file.votes : v.nBlockHeight <= highest + MaxAhead

\* CanVote has noted what is held of others
Marked ==
  \A v \in Held : v.vin # Self /\ v.nBlockHeight > horizon
    => mapMasternodesLastVote[<<v.vin, LevelOf[v.payee]>>] >= v.nBlockHeight

\* What is being added is this node's, and not older than what it noted, or other nodes'
OwnWork ==
  /\ \A v \in adding \cup uncounted :
       IF own THEN v.vin = Self /\ v.nBlockHeight >= nLastBlockHeight
       ELSE v.vin = Self => v \in relayed
  /\ own => \A v, w \in adding \cup uncounted : v.nBlockHeight = w.nBlockHeight
  /\ \A v, w \in uncounted : v = w

\* ProcessBlock has noted what is held and relayed of its own
OwnPast ==
  /\ \A v \in relayed : v.vin = Self /\ (v.nBlockHeight > horizon => v.nBlockHeight <= nLastBlockHeight)
  /\ \A v \in mapMasternodePayeeVotes :
       v.vin = Self /\ v.nBlockHeight > horizon
         => v.nBlockHeight <= nLastBlockHeight \/ v \in uncounted

SameVote(v, w) ==
  v.vin = w.vin /\ v.nBlockHeight = w.nBlockHeight /\ LevelOf[v.payee] = LevelOf[w.payee]

Unique ==
  \A v, w \in Held \cup relayed : SameVote(v, w) /\ v.nBlockHeight > horizon => v = w

IInv == PaymentsTypeOK /\ Bounded /\ Marked /\ OwnWork /\ OwnPast /\ Unique

-----------------------------------------------------------------------------
\* The variables IInv is about
kept == <<mapMasternodePayeeVotes, adding, uncounted, relayed, file, mapMasternodesLastVote,
          nLastBlockHeight, highest, horizon, own, chain>>

\* The first state has no votes
LEMMA InitIInv == Init => IInv
<1> SUFFICES ASSUME Init PROVE IInv
  BY Zenon
<1>1. chain \in Seq(Label \cup {Main}) /\ Len(chain) = Start
  BY PaymentsAssumption DEF Init
<1>2. Held = {} /\ relayed = {} /\ file.votes = {} /\ adding = {} /\ uncounted = {}
      /\ mapMasternodePayeeVotes = {}
  BY Zenon DEF Init, Held, NoFile
<1>3. PaymentsTypeOK
  <2>1. mapMasternodesLastVote \in [Masternode \X (Level \cup {Deprecated}) -> Nat]
    BY Zenon DEF Init
  <2>2. nLastBlockHeight \in Nat /\ highest \in Nat /\ horizon \in Nat /\ Len(chain) <= highest
    BY <1>1, PaymentsAssumption DEF Init
  <2>3. own \in BOOLEAN
    BY Zenon DEF Init
  <2> QED
    BY <1>1, <1>2, <2>1, <2>2, <2>3, Zenon DEF PaymentsTypeOK
<1> QED
  BY <1>2, <1>3, Zenon DEF IInv, Bounded, Marked, OwnWork, OwnPast, Unique

\* Sporks, the clock, the list of masternodes and the hash cache do not matter
LEMMA FrameIInv == IInv /\ UNCHANGED kept => IInv'
BY DEF IInv, kept, PaymentsTypeOK, Bounded, Marked, OwnWork, OwnPast, Unique, Held, SameVote

\* A winner has the fields of a vote, and its level is one that is marked
LEMMA WinnerFields ==
  ASSUME NEW w \in Winner
  PROVE  /\ w.vin \in Masternode /\ w.nBlockHeight \in Nat /\ w.payee \in Payee
         /\ <<w.vin, LevelOf[w.payee]>> \in Masternode \X (Level \cup {Deprecated})
BY PaymentsAssumption, Zenon DEF Winner

\* "mnw": the mark makes the new vote the only one of its masternode, height and level
LEMMA MessageIInv ==
  ASSUME IInv, NEW w \in Message, ProcessMessageMasternodePayments(w)
  PROVE  IInv'
<1> DEFINE at == <<w.vin, LevelOf[w.payee]>>
<1>1. w \in Winner
  BY PaymentsAssumption, Zenon
<1>2. /\ w.vin \in Masternode /\ w.nBlockHeight \in Nat
      /\ at \in Masternode \X (Level \cup {Deprecated})
  BY <1>1, WinnerFields, Zenon
<1>3. /\ adding = {} /\ uncounted = {} /\ own' = FALSE
      /\ w.vin = Self => w \in relayed
      /\ w.nBlockHeight <= Len(chain) + MaxAhead
      /\ mapMasternodesLastVote[at] < w.nBlockHeight
      /\ mapMasternodesLastVote' = [mapMasternodesLastVote EXCEPT ![at] = w.nBlockHeight]
      /\ adding' \subseteq {w}
      /\ UNCHANGED <<mapMasternodePayeeVotes, uncounted, relayed, file, nLastBlockHeight,
                     highest, horizon, chain>>
  BY Zenon DEF ProcessMessageMasternodePayments, HandlerFree, CanVote, Height, tables
<1> HIDE DEF at
<1>4. PaymentsTypeOK'
  BY <1>1, <1>2, <1>3, Zenon DEF IInv, PaymentsTypeOK
<1>5. Bounded'
  <2>1. Len(chain) <= highest /\ Len(chain) \in Nat /\ highest \in Nat /\ MaxAhead \in Nat
    BY PaymentsAssumption DEF IInv, PaymentsTypeOK
  <2>2. w.nBlockHeight <= highest + MaxAhead
    BY <2>1, <1>2, <1>3
  <2> QED
    BY <2>2, <1>3, Zenon DEF IInv, Bounded, Held
<1>6. \A v \in mapMasternodePayeeVotes : v.vin # Self /\ v.nBlockHeight > horizon
        => mapMasternodesLastVote[<<v.vin, LevelOf[v.payee]>>] >= v.nBlockHeight
  BY Zenon DEF IInv, Marked, Held
<1>7. Marked'
  <2> SUFFICES ASSUME NEW v \in Held', v.vin # Self, v.nBlockHeight > horizon
               PROVE  mapMasternodesLastVote'[<<v.vin, LevelOf[v.payee]>>] >= v.nBlockHeight
    BY <1>3, Zenon DEF Marked
  <2>1. v \in Winner
    BY <1>4, Zenon DEF PaymentsTypeOK, Held
  <2>2. /\ v.nBlockHeight \in Nat
        /\ <<v.vin, LevelOf[v.payee]>> \in Masternode \X (Level \cup {Deprecated})
    BY <2>1, WinnerFields, Zenon
  <2>3. mapMasternodesLastVote \in [Masternode \X (Level \cup {Deprecated}) -> Nat]
    BY Zenon DEF IInv, PaymentsTypeOK
  <2>4. CASE v = w
    BY <2>4, <1>2, <1>3, <2>3 DEF at
  <2>5. CASE v \in mapMasternodePayeeVotes
    <3>1. mapMasternodesLastVote[<<v.vin, LevelOf[v.payee]>>] >= v.nBlockHeight
      BY <2>5, <1>6, Zenon
    <3>2. CASE <<v.vin, LevelOf[v.payee]>> = at
      BY <3>1, <3>2, <1>2, <1>3, <2>2, <2>3
    <3>3. CASE <<v.vin, LevelOf[v.payee]>> # at
      BY <3>1, <3>3, <1>2, <1>3, <2>2, <2>3, Zenon
    <3> QED
      BY <3>2, <3>3, Zenon
  <2> QED
    BY <2>4, <2>5, <1>3, Zenon DEF Held
<1>8. OwnWork'
  BY <1>3, Zenon DEF OwnWork
<1>9. OwnPast'
  BY <1>3, Zenon DEF IInv, OwnPast
<1>10. \A v \in mapMasternodePayeeVotes \cup relayed :
         SameVote(v, w) /\ v.nBlockHeight > horizon => v = w
  <2> SUFFICES ASSUME NEW v \in mapMasternodePayeeVotes \cup relayed, SameVote(v, w),
                      v.nBlockHeight > horizon
               PROVE  v = w
    BY Zenon
  <2>1. CASE w.vin = Self
    BY <2>1, <1>3, Zenon DEF IInv, Unique, Held
  <2>2. CASE w.vin # Self
    <3>1. v \in mapMasternodePayeeVotes
      BY <2>2, Zenon DEF IInv, OwnPast, SameVote
    <3>2. mapMasternodesLastVote[at] >= w.nBlockHeight
      BY <2>2, <3>1, <1>6, Zenon DEF SameVote, at
    <3>3. mapMasternodesLastVote[at] \in Nat
      BY <1>2, Zenon DEF IInv, PaymentsTypeOK
    <3> QED
      BY <3>2, <3>3, <1>2, <1>3
  <2> QED
    BY <2>1, <2>2, Zenon
<1>11. Unique'
  <2> SUFFICES ASSUME NEW v \in (Held \cup relayed)', NEW u \in (Held \cup relayed)',
                      SameVote(v, u), v.nBlockHeight > horizon
               PROVE  v = u
    BY <1>3, Zenon DEF Unique, SameVote
  <2>1. v \in Held \cup relayed \cup {w} /\ u \in Held \cup relayed \cup {w}
    BY <1>3, Zenon DEF Held
  <2>2. Held = mapMasternodePayeeVotes
    BY <1>3, Zenon DEF Held
  <2>3. SameVote(u, v) /\ u.nBlockHeight > horizon
    BY Zenon DEF SameVote
  <2> QED
    BY <2>1, <2>2, <2>3, <1>10, Zenon DEF IInv, Unique
<1> QED
  BY <1>4, <1>5, <1>7, <1>8, <1>9, <1>11, Zenon DEF IInv

\* ProcessBlock: the height is above all this node has voted for, and there is one payee of
\* each level
LEMMA ProcessBlockIInv ==
  ASSUME IInv, NEW h \in VoteHeight, ProcessBlock(h)
  PROVE  IInv'
<1>1. PICK ps \in PayeeChoices :
        adding' = {[vin |-> Self, nBlockHeight |-> h, payee |-> p] : p \in ps}
  BY Zenon DEF ProcessBlock
<1>2. /\ adding = {} /\ uncounted = {} /\ own' = TRUE
      /\ h = Len(chain) + Ahead /\ h > nLastBlockHeight
      /\ UNCHANGED <<mapMasternodePayeeVotes, uncounted, relayed, file, nLastBlockHeight,
                     mapMasternodesLastVote, highest, horizon, chain>>
  BY Zenon DEF ProcessBlock, HandlerFree, MayVote, Height, tables, marks
<1>3. h \in Nat /\ nLastBlockHeight \in Nat /\ Self \in Masternode
  BY PaymentsAssumption, Zenon DEF IInv, PaymentsTypeOK
<1>4. \A v \in adding' : v \in Winner /\ v.vin = Self /\ v.nBlockHeight = h
  BY <1>1, <1>3 DEF PayeeChoices, Winner
<1>5. \A v, w \in adding' : LevelOf[v.payee] = LevelOf[w.payee] => v = w
  BY <1>1 DEF PayeeChoices
<1>6. PaymentsTypeOK'
  BY <1>2, <1>4, Zenon DEF IInv, PaymentsTypeOK
<1>7. Bounded'
  <2>1. /\ Len(chain) <= highest /\ Len(chain) \in Nat /\ highest \in Nat
        /\ Ahead \in Nat /\ MaxAhead \in Nat /\ Ahead <= MaxAhead
    BY PaymentsAssumption DEF IInv, PaymentsTypeOK
  <2>2. h <= highest + MaxAhead
    BY <2>1, <1>2
  <2> QED
    BY <2>2, <1>2, <1>4, Zenon DEF IInv, Bounded, Held
<1>8. Marked'
  BY <1>2, <1>4, Zenon DEF IInv, Marked, Held
<1>9. OwnWork'
  <2>1. \A v \in adding' : v.vin = Self /\ v.nBlockHeight >= nLastBlockHeight
    BY <1>2, <1>3, <1>4
  <2> QED
    BY <2>1, <1>2, <1>4, Zenon DEF OwnWork
<1>10. OwnPast'
  BY <1>2, Zenon DEF IInv, OwnPast
<1>11. \A v \in mapMasternodePayeeVotes \cup relayed :
         v.vin = Self /\ v.nBlockHeight > horizon => v.nBlockHeight # h
  <2> SUFFICES ASSUME NEW v \in mapMasternodePayeeVotes \cup relayed,
                      v.vin = Self, v.nBlockHeight > horizon
               PROVE  v.nBlockHeight # h
    BY Zenon
  <2>1. v.nBlockHeight <= nLastBlockHeight
    BY <1>2, Zenon DEF IInv, OwnPast
  <2> QED
    BY <2>1, <1>2, <1>3
<1>12. Unique'
  <2> SUFFICES ASSUME NEW v \in (Held \cup relayed)', NEW u \in (Held \cup relayed)',
                      SameVote(v, u), v.nBlockHeight > horizon
               PROVE  v = u
    BY <1>2, Zenon DEF Unique, SameVote
  <2>1. /\ v \in mapMasternodePayeeVotes \cup relayed \cup adding'
        /\ u \in mapMasternodePayeeVotes \cup relayed \cup adding'
    BY <1>2, Zenon DEF Held
  <2>2. CASE v \in adding' /\ u \in adding'
    BY <2>2, <1>5, Zenon DEF SameVote
  <2>3. CASE v \in mapMasternodePayeeVotes \cup relayed /\ u \in adding'
    BY <2>3, <1>4, <1>11, Zenon DEF SameVote
  <2>4. CASE v \in adding' /\ u \in mapMasternodePayeeVotes \cup relayed
    BY <2>4, <1>4, <1>11, Zenon DEF SameVote
  <2>5. CASE v \in mapMasternodePayeeVotes \cup relayed /\ u \in mapMasternodePayeeVotes \cup relayed
    BY <2>5, Zenon DEF IInv, Unique, Held
  <2> QED
    BY <2>1, <2>2, <2>3, <2>4, <2>5, Zenon
<1> QED
  BY <1>6, <1>7, <1>8, <1>9, <1>10, <1>12, Zenon DEF IInv

\* AddWinningMasternode moves a vote from one set of Held to another
LEMMA InsertIInv ==
  ASSUME IInv, NEW w \in adding, InsertWinner(w)
  PROVE  IInv'
<1>1. /\ uncounted = {} /\ adding' \subseteq adding
      /\ uncounted' \subseteq {w}
      /\ \/ mapMasternodePayeeVotes' = mapMasternodePayeeVotes
         \/ mapMasternodePayeeVotes' = mapMasternodePayeeVotes \cup {w} /\ uncounted' = {w}
      /\ UNCHANGED <<relayed, file, own, nLastBlockHeight, mapMasternodesLastVote, highest,
                     horizon, chain>>
  <2>1. /\ uncounted = {} /\ adding' = adding \ {w}
        /\ \/ UNCHANGED <<mapMasternodePayeeVotes, uncounted>>
           \/ mapMasternodePayeeVotes' = mapMasternodePayeeVotes \cup {w} /\ uncounted' = {w}
    BY Zenon DEF InsertWinner, tables
  <2>2. UNCHANGED <<relayed, file, own, nLastBlockHeight, mapMasternodesLastVote, highest,
                    horizon, chain>>
    BY Zenon DEF InsertWinner, marks, history
  <2> QED
    BY <2>1, <2>2, Zenon
<1>2. Held' \subseteq Held
  BY <1>1, Zenon DEF Held
<1>3. PaymentsTypeOK'
  BY <1>1, Zenon DEF IInv, PaymentsTypeOK
<1>4. Bounded'
  BY <1>1, <1>2, Zenon DEF IInv, Bounded
<1>5. Marked'
  BY <1>1, <1>2, Zenon DEF IInv, Marked
<1>6. OwnWork'
  BY <1>1, Zenon DEF IInv, OwnWork
<1>7. OwnPast'
  BY <1>1, Zenon DEF IInv, OwnPast
<1>8. Unique'
  BY <1>1, <1>2, Zenon DEF IInv, Unique, SameVote
<1> QED
  BY <1>3, <1>4, <1>5, <1>6, <1>7, <1>8, Zenon DEF IInv

\* AddPayee: a vote of this node is noted and relayed in the step that counts it
LEMMA AddPayeeIInv ==
  ASSUME IInv, NEW w \in uncounted, AddPayee(w)
  PROVE  IInv'
<1>1. /\ uncounted' = {} /\ uncounted = {w}
      /\ nLastBlockHeight' = IF own THEN w.nBlockHeight ELSE nLastBlockHeight
      /\ relayed' = IF own THEN relayed \cup {w} ELSE relayed
      /\ UNCHANGED <<mapMasternodePayeeVotes, adding, file, own, mapMasternodesLastVote, highest,
                     horizon, chain>>
  <2>1. uncounted = {w}
    BY Zenon DEF IInv, OwnWork
  <2>2. /\ uncounted' = {}
        /\ nLastBlockHeight' = IF own THEN w.nBlockHeight ELSE nLastBlockHeight
        /\ relayed' = IF own THEN relayed \cup {w} ELSE relayed
    BY Zenon DEF AddPayee
  <2>3. UNCHANGED <<mapMasternodePayeeVotes, adding, file, own, mapMasternodesLastVote, highest,
                    horizon, chain>>
    BY Zenon DEF AddPayee, history
  <2> QED
    BY <2>1, <2>2, <2>3, Zenon
<1>2. w \in Winner /\ w.nBlockHeight \in Nat
  BY WinnerFields, Zenon DEF IInv, PaymentsTypeOK
<1>3. Held' \subseteq Held /\ w \in Held
  BY <1>1, Zenon DEF Held
<1>4. nLastBlockHeight \in Nat /\ own \in BOOLEAN /\ horizon \in Nat
  BY Zenon DEF IInv, PaymentsTypeOK
<1>5. nLastBlockHeight' \in Nat /\ nLastBlockHeight <= nLastBlockHeight'
  BY <1>1, <1>2, <1>4 DEF IInv, OwnWork
<1>6. PaymentsTypeOK'
  BY <1>1, <1>2, <1>5, Zenon DEF IInv, PaymentsTypeOK
<1>7. Bounded'
  BY <1>1, <1>3, Zenon DEF IInv, Bounded
<1>8. Marked'
  BY <1>1, <1>3, Zenon DEF IInv, Marked
<1>9. OwnWork'
  <2>1. CASE own
    <3>1. \A v \in adding : v.vin = Self /\ v.nBlockHeight = w.nBlockHeight
      BY <2>1, Zenon DEF IInv, OwnWork
    <3> QED
      BY <3>1, <2>1, <1>1, <1>2 DEF IInv, OwnWork
  <2>2. CASE ~own
    BY <2>2, <1>1, Zenon DEF IInv, OwnWork
  <2> QED
    BY <2>1, <2>2, Zenon
<1>10. OwnPast'
  <2>1. IF own THEN w.vin = Self ELSE w.vin = Self => w \in relayed
    BY Zenon DEF IInv, OwnWork
  <2>2. ASSUME NEW v \in relayed'
        PROVE  v.vin = Self /\ (v.nBlockHeight > horizon => v.nBlockHeight <= nLastBlockHeight')
    <3>1. v.nBlockHeight \in Nat
      BY <1>6, WinnerFields, Zenon DEF PaymentsTypeOK
    <3>2. CASE v \in relayed
      BY <3>1, <3>2, <1>4, <1>5 DEF IInv, OwnPast
    <3>3. CASE own /\ v = w
      BY <3>3, <2>1, <1>1, <1>2
    <3> QED
      BY <3>2, <3>3, <1>1, <1>4, Zenon
  <2>3. ASSUME NEW v \in mapMasternodePayeeVotes, v.vin = Self, v.nBlockHeight > horizon
        PROVE  v.nBlockHeight <= nLastBlockHeight'
    <3>1. v.nBlockHeight \in Nat
      BY WinnerFields, Zenon DEF IInv, PaymentsTypeOK
    <3>2. CASE v = w /\ own
      BY <3>2, <1>1, <1>2
    <3>3. CASE v = w /\ ~own
      BY <3>1, <3>3, <2>1, <2>3, <1>4, <1>5 DEF IInv, OwnPast
    <3>4. CASE v # w
      BY <3>1, <3>4, <2>3, <1>1, <1>4, <1>5 DEF IInv, OwnPast
    <3> QED
      BY <3>2, <3>3, <3>4, Zenon
  <2> QED
    BY <2>2, <2>3, <1>1, Zenon DEF OwnPast
<1>11. Unique'
  BY <1>1, <1>3 DEF IInv, Unique, SameVote
<1> QED
  BY <1>6, <1>7, <1>8, <1>9, <1>10, <1>11, Zenon DEF IInv

\* A step that only moves the tip, and never lowers the greatest height
LEMMA TipIInv ==
  ASSUME IInv, chain' \in Seq(Label \cup {Main}), highest' \in Nat, highest <= highest',
         Len(chain') <= highest',
         UNCHANGED <<mapMasternodePayeeVotes, adding, uncounted, relayed, file,
                     mapMasternodesLastVote, nLastBlockHeight, horizon, own>>
  PROVE  IInv'
<1>1. PaymentsTypeOK'
  BY Zenon DEF IInv, PaymentsTypeOK
<1>2. Bounded'
  <2> SUFFICES ASSUME NEW v \in Held \cup relayed \cup file.votes
               PROVE  v.nBlockHeight <= highest' + MaxAhead
    BY Zenon DEF Bounded, Held
  <2>1. v.nBlockHeight \in Nat
    BY WinnerFields, Zenon DEF IInv, PaymentsTypeOK, Held
  <2>2. v.nBlockHeight <= highest + MaxAhead
    BY Zenon DEF IInv, Bounded
  <2>3. highest \in Nat /\ MaxAhead \in Nat
    <3>1. highest \in Nat
      BY Zenon DEF IInv, PaymentsTypeOK
    <3> QED
      BY <3>1, PaymentsAssumption, Zenon
  <2> QED
    BY <2>1, <2>2, <2>3
<1>3. Marked'
  BY Zenon DEF IInv, Marked, Held
<1>4. OwnWork' /\ OwnPast'
  BY Zenon DEF IInv, OwnWork, OwnPast
<1>5. Unique'
  BY DEF IInv, Unique, Held, SameVote
<1> QED
  BY <1>1, <1>2, <1>3, <1>4, <1>5, Zenon DEF IInv

\* ConnectTip and DisconnectTip
LEMMA ConnectIInv ==
  ASSUME IInv, NEW x \in Label, ConnectTip(x)
  PROVE  IInv'
<1>1. /\ chain' = Append(chain, x)
      /\ highest' = IF Len(chain) + 1 > highest THEN Len(chain) + 1 ELSE highest
      /\ UNCHANGED <<mapMasternodePayeeVotes, adding, uncounted, relayed, file,
                     mapMasternodesLastVote, nLastBlockHeight, horizon, own>>
  BY Zenon DEF ConnectTip, Height, tables, marks, work, history
<1>2. chain \in Seq(Label \cup {Main}) /\ highest \in Nat
  BY Zenon DEF IInv, PaymentsTypeOK
<1>3. chain' \in Seq(Label \cup {Main}) /\ Len(chain') = Len(chain) + 1 /\ Len(chain) \in Nat
  BY <1>1, <1>2
<1>4. highest' \in Nat /\ highest <= highest' /\ Len(chain') <= highest'
  BY <1>1, <1>2, <1>3
<1> QED
  BY <1>1, <1>3, <1>4, TipIInv, Zenon

LEMMA DisconnectIInv ==
  ASSUME IInv, DisconnectTip
  PROVE  IInv'
<1>1. /\ chain' = SubSeq(chain, 1, Len(chain) - 1) /\ Len(chain) > Settled
      /\ UNCHANGED <<mapMasternodePayeeVotes, adding, uncounted, relayed, file,
                     mapMasternodesLastVote, nLastBlockHeight, horizon, own, highest>>
  BY Zenon DEF DisconnectTip, Height, tables, marks, work, history
<1>2. chain \in Seq(Label \cup {Main}) /\ highest \in Nat /\ Len(chain) <= highest
  BY Zenon DEF IInv, PaymentsTypeOK
<1>3. Settled \in Nat
  BY PaymentsAssumption, Zenon
<1>4. chain' \in Seq(Label \cup {Main}) /\ Len(chain') = Len(chain) - 1 /\ Len(chain) \in Nat
  <2>1. Len(chain) \in Nat /\ Len(chain) - 1 \in Nat /\ 1 <= Len(chain)
    BY <1>1, <1>2, <1>3
  <2>2. \A i \in 1..(Len(chain) - 1) : chain[i] \in Label \cup {Main}
    BY <1>2, <2>1
  <2>3. chain' = [i \in 1..(Len(chain) - 1) |-> chain[i]]
    BY <1>1, <1>2, <2>1
  <2> QED
    BY <2>1, <2>2, <2>3
<1>5. highest' \in Nat /\ highest <= highest' /\ Len(chain') <= highest'
  BY <1>1, <1>2, <1>4
<1> QED
  BY <1>1, <1>4, <1>5, TipIInv, Zenon

\* CleanPaymentList only forgets votes
LEMMA CleanIInv ==
  ASSUME IInv, CleanPaymentList
  PROVE  IInv'
<1>1. /\ mapMasternodePayeeVotes' \subseteq mapMasternodePayeeVotes
      /\ UNCHANGED <<adding, uncounted, relayed, file, mapMasternodesLastVote, nLastBlockHeight,
                     highest, horizon, own, chain>>
  BY Zenon DEF CleanPaymentList, marks, work, history
<1>2. Held' \subseteq Held
  BY <1>1, Zenon DEF Held
<1>3. PaymentsTypeOK' /\ Bounded' /\ Marked'
  BY <1>1, <1>2, Zenon DEF IInv, PaymentsTypeOK, Bounded, Marked
<1>4. OwnWork' /\ OwnPast' /\ Unique'
  BY <1>1, <1>2, Zenon DEF IInv, OwnWork, OwnPast, Unique, SameVote
<1> QED
  BY <1>3, <1>4, Zenon DEF IInv

\* Restart: every vote that is left is at or below the new horizon
LEMMA RestartIInv ==
  ASSUME IInv, Restart
  PROVE  IInv'
<1>1. PICK f \in FileAfterStop : Load(f)
  BY Zenon DEF Restart
<1>2. horizon' = highest + MaxAhead /\ UNCHANGED <<chain, relayed, highest>>
  BY Zenon DEF Restart
<1>3. /\ mapMasternodePayeeVotes' \subseteq f.votes
      /\ mapMasternodesLastVote' = [y \in DOMAIN mapMasternodesLastVote |-> 0]
      /\ nLastBlockHeight' = 0 /\ adding' = {} /\ uncounted' = {} /\ own' = FALSE /\ file' = f
  BY <1>1, Zenon DEF Load
<1>4. f.votes \subseteq file.votes \cup mapMasternodePayeeVotes
  BY DEF FileAfterStop, TornFile, NoFile
<1>5. highest \in Nat /\ MaxAhead \in Nat
  BY PaymentsAssumption, Zenon DEF IInv, PaymentsTypeOK
<1>6. PaymentsTypeOK'
  <2>1. mapMasternodesLastVote' \in [Masternode \X (Level \cup {Deprecated}) -> Nat]
    BY <1>3, Zenon DEF IInv, PaymentsTypeOK
  <2>2. own' \in BOOLEAN
    BY <1>3, Zenon
  <2>3. horizon' \in Nat /\ nLastBlockHeight' \in Nat
    BY <1>2, <1>3, <1>5
  <2> QED
    BY <2>1, <2>2, <2>3, <1>2, <1>3, <1>4, Zenon DEF IInv, PaymentsTypeOK
<1>7. \A v \in (Held \cup relayed \cup file.votes)' :
        v.nBlockHeight \in Nat /\ v.nBlockHeight <= highest + MaxAhead
  <2>1. (Held \cup relayed \cup file.votes)' \subseteq Held \cup relayed \cup file.votes
    BY <1>2, <1>3, <1>4, Zenon DEF Held
  <2> QED
    BY <2>1, WinnerFields, Zenon DEF IInv, Bounded, PaymentsTypeOK, Held
<1>8. Bounded'
  BY <1>2, <1>7, Zenon DEF Bounded
<1>9. \A v \in (Held \cup relayed)' : ~(v.nBlockHeight > horizon')
  BY <1>2, <1>5, <1>7
<1>10. Marked' /\ Unique'
  BY <1>9, Zenon DEF Marked, Unique
<1>11. OwnWork'
  BY <1>3, Zenon DEF OwnWork
<1>12. OwnPast'
  BY <1>2, <1>9, Zenon DEF IInv, OwnPast, Held
<1> QED
  BY <1>6, <1>8, <1>10, <1>11, <1>12, Zenon DEF IInv

-----------------------------------------------------------------------------
\* Every step preserves IInv
LEMMA NextIInv == IInv /\ [Next]_vars => IInv'
<1> SUFFICES ASSUME IInv, [Next]_vars PROVE IInv'
  BY Zenon
<1>1. CASE \E n \in Node : ReceiveSpork(n) \/ \E v \in SporkValue : SignSpork(n, v)
  BY <1>1, FrameIInv, Zenon DEF ReceiveSpork, SignSpork, payments, tables, marks, work, history, kept
<1>2. CASE ClockTick
  BY <1>2, FrameIInv, Zenon DEF ClockTick, payments, tables, marks, work, history, kept
<1>3. CASE \E w \in Message : ProcessMessageMasternodePayments(w)
  BY <1>3, MessageIInv, Zenon
<1>4. CASE \E h \in VoteHeight : ProcessBlock(h)
  BY <1>4, ProcessBlockIInv, Zenon
<1>5. CASE \E h \in VoteHeight : GetMasternodeRank(h)
  BY <1>5, FrameIInv, Zenon DEF GetMasternodeRank, tables, marks, work, history, kept
<1>6. CASE \E w \in adding : InsertWinner(w)
  BY <1>6, InsertIInv, Zenon
<1>7. CASE \E w \in uncounted : AddPayee(w)
  BY <1>7, AddPayeeIInv, Zenon
<1>8. CASE \E x \in Label : ConnectTip(x)
  BY <1>8, ConnectIInv, Zenon
<1>9. CASE DisconnectTip
  BY <1>9, DisconnectIInv, Zenon
<1>10. CASE \E m \in Masternode : ChangeKey(m) \/ UpdateMasternodeList(m) \/ CheckAndRemove(m)
  BY <1>10, FrameIInv, Zenon
     DEF ChangeKey, UpdateMasternodeList, CheckAndRemove, tables, marks, work, history, kept
<1>11. CASE CleanPaymentList
  BY <1>11, CleanIInv, Zenon
<1>12. CASE Restart
  BY <1>12, RestartIInv, Zenon
<1>13. CASE UNCHANGED vars
  BY <1>13, FrameIInv, Zenon DEF vars, tables, marks, work, history, kept
<1> QED
  BY <1>1, <1>2, <1>3, <1>4, <1>5, <1>6, <1>7, <1>8, <1>9, <1>10, <1>11, <1>12, <1>13, Zenon DEF Next

\* For any masternodes, levels, heights, branches and messages, no masternode's vote is held
\* for two payees of one level and height that lies above what was voted for before the last
\* restart: CanVote does this for the votes of others, nLastBlockHeight for the node's own.
THEOREM VotesNotDoubled == Spec => []NoDoubleVote
<1>1. IInv => NoDoubleVote
  BY Zenon DEF IInv, Unique, SameVote, Held, NoDoubleVote
<1> QED
  BY <1>1, InitIInv, NextIInv, PTL DEF Spec

-----------------------------------------------------------------------------
(* The votes counted in mapMasternodeBlocks are votes held in mapMasternodePayeeVotes.  The
   same is kept of the file, for what a restart reads. *)

Entry == [nBlockHeight : Nat, votes : [Payee -> Nat]]

\* The votes that table b counts for p, and the votes for p among vs
CountIn(b, h, p) == IF h \in DOMAIN b THEN b[h].votes[p] ELSE 0
VotesFor(vs, h, p) == {w \in vs : w.nBlockHeight = h /\ w.payee = p}

\* Height h is one the clean-up could not reach while the chain was at most top blocks long
Within(h, top) == top - h <= Limit

\* A table b counts no more than the votes vs, and its entries are for their own heights
BlocksOK(b, vs, top) ==
  /\ DOMAIN b \subseteq VoteHeight
  /\ \A h \in DOMAIN b : b[h] \in Entry /\ (Within(h, top) => b[h].nBlockHeight = h)
  /\ \A h \in VoteHeight, p \in Payee :
       Within(h, top) => CountIn(b, h, p) <= Cardinality(VotesFor(vs, h, p))

\* It counts all of them
Exact(b, vs, top) ==
  \A h \in VoteHeight, p \in Payee :
    Within(h, top) => CountIn(b, h, p) = Cardinality(VotesFor(vs, h, p))

Counted == mapMasternodePayeeVotes \ uncounted

CountInv ==
  /\ IsFiniteSet(mapMasternodePayeeVotes) /\ IsFiniteSet(file.votes)
  /\ BlocksOK(mapMasternodeBlocks, Counted, highest)
  /\ BlocksOK(file.blocks, file.votes, highest)
  /\ horizon = 0 => Exact(mapMasternodeBlocks, Counted, highest)
  /\ \A w \in uncounted : Within(w.nBlockHeight, highest)
       => w \in mapMasternodePayeeVotes /\ w.nBlockHeight \in DOMAIN mapMasternodeBlocks
  /\ Start <= highest

-----------------------------------------------------------------------------
(* Whoever voted for a height was among the first SignaturesTotal of a list, ranked by the
   one hash that is in the cache for that height. *)

\* The place of m when the masternodes of list l are sorted by their scores for hash x
RankIn(m, l, x) == Cardinality({n \in l : Score[x][n] >= Score[x][m]})

MayHaveVoted(v) ==
  LET k == v.nBlockHeight - RankDepth
  IN  /\ k >= 2 /\ k \in DOMAIN mapCacheBlockHashes
      /\ \E l \in lists[v.nBlockHeight] :
           v.vin \in l => RankIn(v.vin, l, mapCacheBlockHashes[k]) <= SignaturesTotal

RankInv ==
  /\ listed \subseteq Masternode
  /\ lists \in [VoteHeight -> SUBSET SUBSET Masternode]
  /\ Settled <= Len(chain)
  /\ DOMAIN mapCacheBlockHashes \subseteq Int
  /\ \A k \in DOMAIN mapCacheBlockHashes : k >= 2 => mapCacheBlockHashes[k] \in Label \cup {Main}
  /\ \A v \in Held : v.nBlockHeight > horizon => MayHaveVoted(v)

-----------------------------------------------------------------------------
\* Where the constants lie
LEMMA Numbers ==
  /\ MaxAhead \in Nat /\ Ahead \in Nat /\ Past \in Nat /\ Limit \in Nat /\ RankDepth \in Nat
  /\ Start \in Nat /\ Settled \in Nat /\ SignaturesRequired \in Nat /\ SignaturesTotal \in Nat
  /\ Ahead <= MaxAhead /\ MaxAhead <= RankDepth + 1 /\ Past <= Limit
  /\ RankDepth + 1 < Settled - Past /\ Settled <= Start /\ 1 <= Start
  /\ 2 * SignaturesRequired > SignaturesTotal
BY PaymentsAssumption

\* A longer chain leaves fewer heights that the clean-up could not reach
LEMMA WithinShrinks ==
  ASSUME NEW h \in Nat, NEW s \in Nat, NEW t \in Nat, s <= t, Within(h, t)
  PROVE  Within(h, s)
BY Numbers DEF Within

LEMMA BlocksGrow ==
  ASSUME NEW b, NEW vs, NEW s \in Nat, NEW t \in Nat, s <= t, BlocksOK(b, vs, s)
  PROVE  BlocksOK(b, vs, t)
<1>1. \A h \in VoteHeight : Within(h, t) => Within(h, s)
  BY WithinShrinks, PaymentsAssumption, Zenon
<1> QED
  BY <1>1, Zenon DEF BlocksOK

LEMMA ExactGrow ==
  ASSUME NEW b, NEW vs, NEW s \in Nat, NEW t \in Nat, s <= t, Exact(b, vs, s)
  PROVE  Exact(b, vs, t)
<1>1. \A h \in VoteHeight : Within(h, t) => Within(h, s)
  BY WithinShrinks, PaymentsAssumption, Zenon
<1> QED
  BY <1>1, Zenon DEF Exact

\* A count is a number
LEMMA CountNat ==
  ASSUME NEW b, NEW vs, NEW top, BlocksOK(b, vs, top), NEW h, NEW p \in Payee
  PROVE  CountIn(b, h, p) \in Nat
BY Zenon DEF BlocksOK, CountIn, Entry

\* What the invariant says of the votes and the counts that are used
LEMMA CountParts ==
  ASSUME CountInv
  PROVE  /\ IsFiniteSet(mapMasternodePayeeVotes)
         /\ DOMAIN mapMasternodeBlocks \subseteq VoteHeight
         /\ \A h, p : p \in Payee => CountIn(mapMasternodeBlocks, h, p) \in Nat
         /\ \A h \in DOMAIN mapMasternodeBlocks :
              Within(h, highest) => mapMasternodeBlocks[h].nBlockHeight = h
         /\ \A h \in VoteHeight, p \in Payee : Within(h, highest) =>
              CountIn(mapMasternodeBlocks, h, p) <= Cardinality(VotesFor(Counted, h, p))
<1>1. IsFiniteSet(mapMasternodePayeeVotes) /\ BlocksOK(mapMasternodeBlocks, Counted, highest)
  BY Zenon DEF CountInv
<1>2. \A h, p : p \in Payee => CountIn(mapMasternodeBlocks, h, p) \in Nat
  BY <1>1, CountNat, Zenon
<1> QED
  BY <1>1, <1>2, Zenon DEF BlocksOK

\* Finitely many votes are counted by a number, and more votes by a greater one
LEMMA ForFinite ==
  ASSUME NEW vs, IsFiniteSet(vs), NEW h, NEW p
  PROVE  IsFiniteSet(VotesFor(vs, h, p)) /\ Cardinality(VotesFor(vs, h, p)) \in Nat
<1>1. VotesFor(vs, h, p) \in SUBSET vs
  BY Zenon DEF VotesFor
<1> QED
  BY <1>1, FS_Subset, FS_CardinalityType, Zenon

LEMMA ForGrows ==
  ASSUME NEW vs, NEW ws, IsFiniteSet(ws), vs \subseteq ws, NEW h, NEW p
  PROVE  /\ Cardinality(VotesFor(vs, h, p)) \in Nat
         /\ Cardinality(VotesFor(vs, h, p)) <= Cardinality(VotesFor(ws, h, p))
<1>1. VotesFor(vs, h, p) \in SUBSET VotesFor(ws, h, p)
  BY Zenon DEF VotesFor
<1>2. IsFiniteSet(VotesFor(ws, h, p))
  BY ForFinite, Zenon
<1>3. IsFiniteSet(VotesFor(vs, h, p))
  BY <1>1, <1>2, FS_Subset, Zenon
<1> QED
  BY <1>1, <1>2, <1>3, FS_Subset, FS_CardinalityType, Zenon

LEMMA BlocksOfMore ==
  ASSUME NEW b, NEW vs, NEW ws, NEW top, IsFiniteSet(ws), vs \subseteq ws, BlocksOK(b, vs, top)
  PROVE  BlocksOK(b, ws, top)
<1>1. ASSUME NEW h \in VoteHeight, NEW p \in Payee, Within(h, top)
      PROVE  CountIn(b, h, p) <= Cardinality(VotesFor(ws, h, p))
  <2>1. CountIn(b, h, p) <= Cardinality(VotesFor(vs, h, p))
    BY <1>1, Zenon DEF BlocksOK
  <2>2. CountIn(b, h, p) \in Nat
    BY CountNat, Zenon
  <2>3. Cardinality(VotesFor(ws, h, p)) \in Nat
    BY ForFinite, Zenon
  <2> QED
    BY <2>1, <2>2, <2>3, ForGrows
<1> QED
  BY <1>1, Zenon DEF BlocksOK

\* With no entries and no votes there is nothing to compare
LEMMA EmptyTable ==
  ASSUME NEW top
  PROVE  BlocksOK(<<>>, {}, top) /\ Exact(<<>>, {}, top) /\ IsFiniteSet({})
<1>1. IsFiniteSet({}) /\ Cardinality({}) = 0
  BY FS_EmptySet, Zenon
<1>2. DOMAIN (<<>>) = {}
  OBVIOUS
<1>3. \A h, p : CountIn(<<>>, h, p) = 0
  BY <1>2, Zenon DEF CountIn
<1>4. \A h, p : VotesFor({}, h, p) = {}
  BY Zenon DEF VotesFor
<1>5. \A h, p : CountIn(<<>>, h, p) = Cardinality(VotesFor({}, h, p))
                  /\ CountIn(<<>>, h, p) <= Cardinality(VotesFor({}, h, p))
  BY <1>1, <1>3, <1>4
<1>6. \A h \in DOMAIN (<<>>) : FALSE
  BY <1>2, Zenon
<1> QED
  BY <1>1, <1>2, <1>5, <1>6, Zenon DEF BlocksOK, Exact

\* The clean-up leaves the entries and the votes of a height within reach of no chain so far
LEMMA CleanKeeps ==
  ASSUME NEW b, NEW vs, NEW ws \in SUBSET Winner, NEW top \in Nat, Height \in Nat, Height <= top
  PROVE  /\ BlocksOK(b, vs, top) => BlocksOK(CleanBlocks(ws, b), vs \ Old(ws), top)
         /\ Exact(b, vs, top) => Exact(CleanBlocks(ws, b), vs \ Old(ws), top)
         /\ \A w \in ws : Within(w.nBlockHeight, top) => w \notin Old(ws)
         /\ \A h \in VoteHeight : Within(h, top) /\ h \in DOMAIN b => h \in DOMAIN CleanBlocks(ws, b)
<1> DEFINE c == CleanBlocks(ws, b)
<1>1. ASSUME NEW w \in Old(ws)
      PROVE  ~Within(w.nBlockHeight, top)
  <2>1. w \in ws /\ Height - w.nBlockHeight > Limit /\ w.nBlockHeight \in Nat
    BY WinnerFields, Zenon DEF Old
  <2> QED
    BY <2>1, Numbers DEF Within
<1>2. /\ DOMAIN c = DOMAIN b \ {w.nBlockHeight : w \in Old(ws)}
      /\ \A h \in DOMAIN c : c[h] = b[h]
  BY Zenon DEF CleanBlocks
<1>3. \A h : Within(h, top) => (h \in DOMAIN c <=> h \in DOMAIN b)
  BY <1>1, <1>2, Zenon
<1> HIDE DEF c
<1>4. ASSUME NEW h, NEW p, Within(h, top)
      PROVE  /\ CountIn(c, h, p) = CountIn(b, h, p)
             /\ VotesFor(vs \ Old(ws), h, p) = VotesFor(vs, h, p)
  BY <1>1, <1>2, <1>3, <1>4, Zenon DEF CountIn, VotesFor
<1>5. BlocksOK(b, vs, top) => BlocksOK(c, vs \ Old(ws), top)
  BY <1>2, <1>4, Zenon DEF BlocksOK
<1>6. Exact(b, vs, top) => Exact(c, vs \ Old(ws), top)
  BY <1>4, Zenon DEF Exact
<1> QED
  BY <1>1, <1>3, <1>5, <1>6, Zenon DEF c

\* The variables CountInv is about
counts == <<mapMasternodePayeeVotes, mapMasternodeBlocks, uncounted, file, highest, horizon>>

\* The first state has no entries
LEMMA InitCount == Init => CountInv
<1> SUFFICES ASSUME Init PROVE CountInv
  BY Zenon
<1>1. /\ mapMasternodePayeeVotes = {} /\ uncounted = {} /\ file.votes = {}
      /\ mapMasternodeBlocks = <<>> /\ file.blocks = <<>> /\ highest = Start
  BY Zenon DEF Init, NoFile
<1>2. Counted = {}
  BY <1>1, Zenon DEF Counted
<1> QED
  BY <1>1, <1>2, EmptyTable, Numbers DEF CountInv

LEMMA FrameCount == CountInv /\ UNCHANGED counts => CountInv'
BY Zenon DEF CountInv, counts, Counted

\* AddWinningMasternode enters a vote that is not counted yet
LEMMA InsertCount ==
  ASSUME IInv, CountInv, NEW w \in adding, InsertWinner(w)
  PROVE  CountInv'
<1> DEFINE h == w.nBlockHeight
           b == mapMasternodeBlocks
<1>1. /\ uncounted = {}
      /\ \/ UNCHANGED <<mapMasternodePayeeVotes, mapMasternodeBlocks, uncounted>>
         \/ /\ w \notin mapMasternodePayeeVotes
            /\ mapMasternodePayeeVotes' = mapMasternodePayeeVotes \cup {w}
            /\ uncounted' = {w}
            /\ b' = [i \in DOMAIN b \cup {h} |-> IF i = h THEN NewEntry(h) ELSE b[i]]
  BY Zenon DEF InsertWinner, tables
<1>2. UNCHANGED <<file, highest, horizon>>
  BY Zenon DEF InsertWinner, history
<1>3. CASE UNCHANGED <<mapMasternodePayeeVotes, mapMasternodeBlocks, uncounted>>
  BY <1>2, <1>3, FrameCount, Zenon DEF counts
<1>4. ASSUME w \notin mapMasternodePayeeVotes,
             mapMasternodePayeeVotes' = mapMasternodePayeeVotes \cup {w}, uncounted' = {w},
             b' = [i \in DOMAIN b \cup {h} |-> IF i = h THEN NewEntry(h) ELSE b[i]]
      PROVE  CountInv'
  <2>1. w \in Winner /\ h \in VoteHeight /\ h \in Nat
    BY PaymentsAssumption, Zenon DEF IInv, PaymentsTypeOK, Winner
  <2>2. Counted' = Counted
    BY <1>1, <1>4 DEF Counted
  <2>3. NoVotes \in [Payee -> Nat] /\ \A p \in Payee : NoVotes[p] = 0
    BY Zenon DEF NoVotes
  <2>4. /\ DOMAIN b' = DOMAIN b \cup {h}
        /\ \A i \in DOMAIN b : b'[i] = b[i]
        /\ h \notin DOMAIN b => b'[h] = [nBlockHeight |-> h, votes |-> NoVotes]
    BY <1>4, Zenon DEF NewEntry
  <2>c. /\ BlocksOK(b, Counted, highest) /\ BlocksOK(file.blocks, file.votes, highest)
        /\ horizon = 0 => Exact(b, Counted, highest)
        /\ IsFiniteSet(mapMasternodePayeeVotes) /\ IsFiniteSet(file.votes) /\ Start <= highest
    BY Zenon DEF CountInv
  <2> HIDE DEF b
  <2>5. \A i \in VoteHeight, p \in Payee : CountIn(b', i, p) = CountIn(b, i, p)
    BY <2>3, <2>4 DEF CountIn
  <2>6. ASSUME NEW i \in DOMAIN b'
        PROVE  b'[i] \in Entry /\ (Within(i, highest) => b'[i].nBlockHeight = i)
    <3>1. CASE i \in DOMAIN b
      <4>1. b[i] \in Entry /\ (Within(i, highest) => b[i].nBlockHeight = i)
        BY <3>1, <2>c, Zenon DEF BlocksOK
      <4> QED
        BY <4>1, <3>1, <2>4, Zenon
    <3>2. CASE i \notin DOMAIN b
      <4>1. i = h /\ b'[i] = [nBlockHeight |-> h, votes |-> NoVotes]
        BY <3>2, <2>4, Zenon
      <4>2. [nBlockHeight |-> h, votes |-> NoVotes] \in Entry
        BY <2>1, <2>3, Zenon DEF Entry
      <4> QED
        BY <4>1, <4>2
    <3> QED
      BY <3>1, <3>2, Zenon
  <2>7. BlocksOK(b', Counted', highest')
    <3>1. highest' = highest
      BY <1>2, Zenon
    <3>2. DOMAIN b \subseteq VoteHeight
      BY <2>c, Zenon DEF BlocksOK
    <3>3. DOMAIN b' \subseteq VoteHeight
      BY <3>2, <2>1, <2>4, Zenon
    <3>4. \A i \in VoteHeight, p \in Payee :
            Within(i, highest) => CountIn(b, i, p) <= Cardinality(VotesFor(Counted, i, p))
      BY <2>c, Zenon DEF BlocksOK
    <3>5. \A i \in VoteHeight, p \in Payee :
            Within(i, highest) => CountIn(b', i, p) <= Cardinality(VotesFor(Counted, i, p))
      BY <3>4, <2>5, Zenon
    <3>6. BlocksOK(b', Counted, highest)
      BY <3>3, <3>5, <2>6, Zenon DEF BlocksOK
    <3> QED
      BY <3>1, <3>6, <2>2, Zenon
  <2>8. horizon' = 0 => Exact(b', Counted', highest')
    <3>1. horizon = 0 => Exact(b', Counted, highest)
      BY <2>c, <2>5, Zenon DEF Exact
    <3> QED
      BY <3>1, <1>2, <2>2, Zenon
  <2>9. IsFiniteSet(mapMasternodePayeeVotes')
    BY <1>4, <2>c, FS_AddElement, Zenon
  <2>10. \A v \in uncounted' : v \in mapMasternodePayeeVotes' /\ v.nBlockHeight \in DOMAIN b'
    BY <1>4, <2>4, Zenon
  <2>11. /\ BlocksOK(file'.blocks, file'.votes, highest') /\ IsFiniteSet(file'.votes)
         /\ Start <= highest'
    BY <1>2, <2>c, Zenon
  <2>12. b' = mapMasternodeBlocks'
    BY Zenon DEF b
  <2> QED
    BY <2>7, <2>8, <2>9, <2>10, <2>11, <2>12, Zenon DEF CountInv
<1> QED
  BY <1>1, <1>3, <1>4, Zenon

\* AddPayee counts the vote that was entered
LEMMA AddPayeeCount ==
  ASSUME IInv, CountInv, NEW w \in uncounted, AddPayee(w)
  PROVE  CountInv'
<1> DEFINE h == w.nBlockHeight
           b == mapMasternodeBlocks
           entry == IF h \in DOMAIN b THEN b[h] ELSE [nBlockHeight |-> 0, votes |-> NoVotes]
<1>1. /\ uncounted = {w} /\ uncounted' = {}
      /\ b' = [i \in DOMAIN b \cup {h} |-> IF i = h THEN CountFor(entry, w.payee) ELSE b[i]]
  <2>1. uncounted = {w}
    BY Zenon DEF IInv, OwnWork
  <2> QED
    BY <2>1, Zenon DEF AddPayee
<1>2. UNCHANGED <<mapMasternodePayeeVotes, file, highest, horizon>>
  BY Zenon DEF AddPayee, history
<1>3. w \in Winner /\ h \in VoteHeight /\ h \in Nat /\ w.payee \in Payee
  BY PaymentsAssumption, Zenon DEF IInv, PaymentsTypeOK, Winner
<1>4. NoVotes \in [Payee -> Nat] /\ \A p \in Payee : NoVotes[p] = 0
  BY Zenon DEF NoVotes
<1>5. \A i \in DOMAIN b : b[i] \in Entry /\ (Within(i, highest) => b[i].nBlockHeight = i)
  BY Zenon DEF CountInv, BlocksOK
<1>6. entry \in Entry /\ \A p \in Payee : entry.votes[p] = CountIn(b, h, p)
  BY <1>4, <1>5, Zenon DEF Entry, CountIn
<1>7. Within(h, highest) => entry.nBlockHeight = h
  BY <1>5, Zenon DEF CountInv
<1>8. /\ DOMAIN b' = DOMAIN b \cup {h} /\ b'[h] = CountFor(entry, w.payee)
      /\ \A i \in DOMAIN b : i # h => b'[i] = b[i]
  BY <1>1, Zenon
<1> HIDE DEF b, entry
<1>9. /\ CountFor(entry, w.payee) \in Entry
      /\ CountFor(entry, w.payee).nBlockHeight = entry.nBlockHeight
      /\ \A p \in Payee : CountFor(entry, w.payee).votes[p] =
                            IF p = w.payee THEN entry.votes[p] + 1 ELSE entry.votes[p]
  BY <1>3, <1>6 DEF CountFor, Entry
<1>10. \A i \in VoteHeight, p \in Payee :
         CountIn(b', i, p) = IF i = h /\ p = w.payee THEN CountIn(b, i, p) + 1 ELSE CountIn(b, i, p)
  BY <1>6, <1>8, <1>9 DEF CountIn
<1>11. ASSUME NEW i \in VoteHeight, NEW p \in Payee, Within(i, highest)
       PROVE  /\ CountIn(b, i, p) \in Nat
              /\ Cardinality(VotesFor(Counted, i, p)) \in Nat
              /\ Cardinality(VotesFor(Counted', i, p)) =
                   IF i = h /\ p = w.payee THEN Cardinality(VotesFor(Counted, i, p)) + 1
                   ELSE Cardinality(VotesFor(Counted, i, p))
  <2>1. IsFiniteSet(Counted)
    <3>1. Counted \in SUBSET mapMasternodePayeeVotes
      BY Zenon DEF Counted
    <3> QED
      BY <3>1, FS_Subset, Zenon DEF CountInv
  <2>2. IsFiniteSet(VotesFor(Counted, i, p)) /\ Cardinality(VotesFor(Counted, i, p)) \in Nat
    BY <2>1, ForFinite, Zenon
  <2>3. CountIn(b, i, p) \in Nat
    BY CountNat, Zenon DEF CountInv, b
  <2>4. CASE i = h /\ p = w.payee
    <3>1. w \in mapMasternodePayeeVotes
      BY <2>4, <1>11, Zenon DEF CountInv
    <3>2. w \notin VotesFor(Counted, i, p)
      BY <1>1, Zenon DEF Counted, VotesFor
    <3>3. VotesFor(Counted', i, p) = VotesFor(Counted, i, p) \cup {w}
      BY <2>4, <3>1, <1>1, <1>2, Zenon DEF Counted, VotesFor
    <3>4. Cardinality(VotesFor(Counted', i, p)) = Cardinality(VotesFor(Counted, i, p)) + 1
      BY <2>2, <3>2, <3>3, FS_AddElement, Zenon
    <3> QED
      BY <2>2, <2>3, <2>4, <3>4, Zenon
  <2>5. CASE ~(i = h /\ p = w.payee)
    <3>1. VotesFor(Counted', i, p) = VotesFor(Counted, i, p)
      BY <2>5, <1>1, <1>2, Zenon DEF Counted, VotesFor
    <3> QED
      BY <2>2, <2>3, <2>5, <3>1, Zenon
  <2> QED
    BY <2>4, <2>5, Zenon
<1>12. BlocksOK(b', Counted', highest')
  <2>1. \A i \in DOMAIN b' : b'[i] \in Entry /\ (Within(i, highest) => b'[i].nBlockHeight = i)
    BY <1>5, <1>7, <1>8, <1>9, Zenon
  <2>2. DOMAIN b' \subseteq VoteHeight
    BY <1>3, <1>8, Zenon DEF CountInv, BlocksOK, b
  <2>3. ASSUME NEW i \in VoteHeight, NEW p \in Payee, Within(i, highest)
        PROVE  CountIn(b', i, p) <= Cardinality(VotesFor(Counted', i, p))
    <3>1. CountIn(b, i, p) <= Cardinality(VotesFor(Counted, i, p))
      BY <2>3, Zenon DEF CountInv, BlocksOK, b
    <3> QED
      BY <3>1, <2>3, <1>10, <1>11
  <2> QED
    BY <2>1, <2>2, <2>3, <1>2, Zenon DEF BlocksOK
<1>13. horizon' = 0 => Exact(b', Counted', highest')
  <2> SUFFICES ASSUME horizon = 0, NEW i \in VoteHeight, NEW p \in Payee, Within(i, highest)
               PROVE  CountIn(b', i, p) = Cardinality(VotesFor(Counted', i, p))
    BY <1>2, Zenon DEF Exact
  <2>1. CountIn(b, i, p) = Cardinality(VotesFor(Counted, i, p))
    BY Zenon DEF CountInv, Exact, b
  <2> QED
    BY <2>1, <1>10, <1>11, Zenon
<1> QED
  BY <1>1, <1>2, <1>12, <1>13, Zenon DEF CountInv, b

\* A new tip: the chain may become longer than it ever was
LEMMA TipCount ==
  ASSUME IInv, CountInv, highest' \in Nat, highest <= highest',
         UNCHANGED <<mapMasternodePayeeVotes, mapMasternodeBlocks, uncounted, file, horizon>>
  PROVE  CountInv'
<1>1. highest \in Nat /\ uncounted \subseteq Winner /\ Start \in Nat
  BY Numbers, Zenon DEF IInv, PaymentsTypeOK
<1>2. BlocksOK(mapMasternodeBlocks, Counted, highest') /\ BlocksOK(file.blocks, file.votes, highest')
  BY <1>1, BlocksGrow, Zenon DEF CountInv
<1>3. horizon = 0 => Exact(mapMasternodeBlocks, Counted, highest')
  BY <1>1, ExactGrow, Zenon DEF CountInv
<1>4. ASSUME NEW w \in uncounted, Within(w.nBlockHeight, highest')
      PROVE  w \in mapMasternodePayeeVotes /\ w.nBlockHeight \in DOMAIN mapMasternodeBlocks
  <2>1. w.nBlockHeight \in Nat
    BY <1>1, WinnerFields, Zenon
  <2>2. Within(w.nBlockHeight, highest)
    BY <2>1, <1>1, <1>4, WithinShrinks, Zenon
  <2> QED
    BY <2>2, Zenon DEF CountInv
<1>5. Start <= highest'
  BY <1>1 DEF CountInv
<1>6. Counted' = Counted
  BY Zenon DEF Counted
<1> QED
  BY <1>2, <1>3, <1>4, <1>5, <1>6, Zenon DEF CountInv

LEMMA ConnectCount ==
  ASSUME IInv, CountInv, NEW x \in Label, ConnectTip(x)
  PROVE  CountInv'
<1>1. /\ highest' = IF Len(chain) + 1 > highest THEN Len(chain) + 1 ELSE highest
      /\ UNCHANGED <<mapMasternodePayeeVotes, mapMasternodeBlocks, uncounted, file, horizon>>
  BY Zenon DEF ConnectTip, Height, tables, work, history
<1>2. highest \in Nat /\ Len(chain) \in Nat
  BY DEF IInv, PaymentsTypeOK
<1> QED
  BY <1>1, <1>2, TipCount

\* CleanPaymentList takes the votes of a height together with its entry
LEMMA CleanCount ==
  ASSUME IInv, CountInv, CleanPaymentList
  PROVE  CountInv'
<1> DEFINE vs == mapMasternodePayeeVotes
           b == mapMasternodeBlocks
<1>1. /\ vs' = vs \ Old(vs) /\ b' = CleanBlocks(vs, b)
      /\ UNCHANGED <<uncounted, file, highest, horizon>>
  BY Zenon DEF CleanPaymentList, work, history
<1>2. vs \in SUBSET Winner /\ highest \in Nat /\ Height \in Nat /\ Height <= highest
      /\ uncounted \subseteq Winner
  BY DEF IInv, PaymentsTypeOK, Height
<1>3. Counted' = Counted \ Old(vs)
  BY <1>1, Zenon DEF Counted
<1> HIDE DEF vs, b
<1>4. BlocksOK(b', Counted', highest')
  BY <1>1, <1>2, <1>3, CleanKeeps, Zenon DEF CountInv, b
<1>5. horizon' = 0 => Exact(b', Counted', highest')
  BY <1>1, <1>2, <1>3, CleanKeeps, Zenon DEF CountInv, b
<1>6. ASSUME NEW w \in uncounted, Within(w.nBlockHeight, highest)
      PROVE  w \in vs' /\ w.nBlockHeight \in DOMAIN b'
  <2>1. w \in vs /\ w.nBlockHeight \in DOMAIN b
    BY <1>6, Zenon DEF CountInv, vs, b
  <2>2. w.nBlockHeight \in VoteHeight
    BY <1>2, Zenon DEF Winner
  <2>3. w \notin Old(vs)
    BY <2>1, <1>2, <1>6, CleanKeeps, Zenon
  <2>4. w.nBlockHeight \in DOMAIN b'
    BY <2>1, <2>2, <1>1, <1>2, <1>6, CleanKeeps, Zenon
  <2> QED
    BY <2>1, <2>3, <2>4, <1>1, Zenon
<1>7. IsFiniteSet(vs')
  BY <1>1, FS_Subset, Zenon DEF CountInv, vs
<1> QED
  BY <1>1, <1>4, <1>5, <1>6, <1>7, Zenon DEF CountInv, vs, b

\* Restart: a file holds every vote that its table counts
LEMMA RestartCount ==
  ASSUME IInv, CountInv, Restart
  PROVE  CountInv'
<1>1. PICK f \in FileAfterStop : Load(f)
  BY Zenon DEF Restart
<1>2. horizon' = highest + MaxAhead /\ UNCHANGED <<chain, highest>>
  BY Zenon DEF Restart
<1>3. /\ mapMasternodePayeeVotes' = f.votes \ Old(f.votes)
      /\ mapMasternodeBlocks' = CleanBlocks(f.votes, f.blocks)
      /\ uncounted' = {} /\ file' = f
  BY <1>1, Zenon DEF Load
<1>4. highest \in Nat /\ Height \in Nat /\ Height <= highest /\ 1 <= highest
  <2>1. highest \in Nat /\ Height \in Nat /\ Height <= highest
    BY DEF IInv, PaymentsTypeOK, Height
  <2> QED
    BY <2>1, Numbers DEF CountInv
<1>5. f.votes \in SUBSET Winner /\ IsFiniteSet(f.votes) /\ BlocksOK(f.blocks, f.votes, highest)
  <2>1. CASE f = file
    BY <2>1, Zenon DEF IInv, PaymentsTypeOK, CountInv
  <2>2. CASE f = TornFile
    <3>1. f.votes = {} /\ f.blocks = <<>>
      BY <2>2, Zenon DEF TornFile, NoFile
    <3> QED
      BY <3>1, EmptyTable, Zenon
  <2>3. CASE f.votes = mapMasternodePayeeVotes /\ f.blocks = mapMasternodeBlocks
    <3>1. Counted \subseteq mapMasternodePayeeVotes
      BY Zenon DEF Counted
    <3>2. BlocksOK(mapMasternodeBlocks, mapMasternodePayeeVotes, highest)
      BY <3>1, BlocksOfMore, Zenon DEF CountInv
    <3> QED
      BY <2>3, <3>2, Zenon DEF IInv, PaymentsTypeOK, CountInv
  <2> QED
    BY <2>1, <2>2, <2>3 DEF FileAfterStop
<1>6. Counted' = f.votes \ Old(f.votes)
  BY <1>3, Zenon DEF Counted
<1>7. BlocksOK(mapMasternodeBlocks', Counted', highest')
  BY <1>2, <1>3, <1>4, <1>5, <1>6, CleanKeeps, Zenon
<1>8. IsFiniteSet(mapMasternodePayeeVotes')
  BY <1>3, <1>5, FS_Subset, Zenon
<1>9. horizon' # 0
  BY <1>2, <1>4, Numbers
<1> QED
  BY <1>2, <1>3, <1>5, <1>7, <1>8, <1>9, Zenon DEF CountInv

\* Every step preserves CountInv
LEMMA NextCount == IInv /\ CountInv /\ [Next]_vars => CountInv'
<1> SUFFICES ASSUME IInv, CountInv, [Next]_vars PROVE CountInv'
  BY Zenon
<1>1. CASE \E n \in Node : ReceiveSpork(n) \/ \E v \in SporkValue : SignSpork(n, v)
  BY <1>1, FrameCount, Zenon DEF ReceiveSpork, SignSpork, payments, tables, work, history, counts
<1>2. CASE ClockTick
  BY <1>2, FrameCount, Zenon DEF ClockTick, payments, tables, work, history, counts
<1>3. CASE \E w \in Message : ProcessMessageMasternodePayments(w)
  BY <1>3, FrameCount, Zenon DEF ProcessMessageMasternodePayments, tables, counts
<1>4. CASE \E h \in VoteHeight : ProcessBlock(h)
  BY <1>4, FrameCount, Zenon DEF ProcessBlock, tables, counts
<1>5. CASE \E h \in VoteHeight : GetMasternodeRank(h)
  BY <1>5, FrameCount, Zenon DEF GetMasternodeRank, tables, work, history, counts
<1>6. CASE \E w \in adding : InsertWinner(w)
  BY <1>6, InsertCount, Zenon
<1>7. CASE \E w \in uncounted : AddPayee(w)
  BY <1>7, AddPayeeCount, Zenon
<1>8. CASE \E x \in Label : ConnectTip(x)
  BY <1>8, ConnectCount, Zenon
<1>9. CASE DisconnectTip
  BY <1>9, FrameCount, Zenon DEF DisconnectTip, tables, work, history, counts
<1>10. CASE \E m \in Masternode : ChangeKey(m) \/ UpdateMasternodeList(m) \/ CheckAndRemove(m)
  BY <1>10, FrameCount, Zenon
     DEF ChangeKey, UpdateMasternodeList, CheckAndRemove, tables, work, history, counts
<1>11. CASE CleanPaymentList
  BY <1>11, CleanCount, Zenon
<1>12. CASE Restart
  BY <1>12, RestartCount, Zenon
<1>13. CASE UNCHANGED vars
  BY <1>13, FrameCount, Zenon DEF vars, tables, work, history, counts
<1> QED
  BY <1>1, <1>2, <1>3, <1>4, <1>5, <1>6, <1>7, <1>8, <1>9, <1>10, <1>11, <1>12, <1>13, Zenon DEF Next

\* For any masternodes, payees, heights and bounds, a payee has as many votes as masternodes
\* voted for it, but for a vote that is being added, and after a restart never more: whatever
\* the clean-up takes between the two halves of AddWinningMasternode, and at whatever point
\* mnpayments.dat was written.
THEOREM CountsAreVotes == Spec => []VotesAreVoters
<1>1. CountInv => VotesAreVoters
  BY Zenon DEF CountInv, BlocksOK, Exact, Counted, VotesFor, CountIn, Within, VotesAreVoters, Recent, Votes
<1> QED
  BY <1>1, InitIInv, NextIInv, InitCount, NextCount, PTL DEF Spec

-----------------------------------------------------------------------------
(* What FillBlockPayee pays is what IsTransactionValid demands *)

\* A set of natural numbers that is not empty has a least element, and with a bound also a
\* greatest one
LEMMA Least ==
  ASSUME NEW T \in SUBSET Nat, T # {}
  PROVE  \E x \in T : \A y \in T : x <= y
<1>1. \E R : IsWellFoundedOn(R, Nat) /\ \A x, y \in Nat : <<y, x>> \in R <=> y < x
  <2>1. \A x, y \in Nat : <<y, x>> \in OpToRel(<, Nat) <=> y < x
    BY Zenon DEF OpToRel
  <2> QED
    BY <2>1, NatLessThanWellFounded, Zenon
<1>2. PICK R : IsWellFoundedOn(R, Nat) /\ \A x, y \in Nat : <<y, x>> \in R <=> y < x
  BY <1>1, Zenon
<1>3. PICK x \in T : \A y \in T : ~(<<y, x>> \in R)
  BY <1>2, WFMin, Zenon
<1>4. ASSUME NEW y \in T PROVE x <= y
  <2>1. x \in Nat /\ y \in Nat
    BY Zenon
  <2>2. ~(y < x)
    BY <2>1, <1>2, <1>3, Zenon
  <2> QED
    BY <2>1, <2>2
<1> QED
  BY <1>4, Zenon

LEMMA Greatest ==
  ASSUME NEW T \in SUBSET Nat, T # {}, NEW n \in Nat, \A x \in T : x <= n
  PROVE  \E x \in T : \A y \in T : y <= x
<1> DEFINE U == {z \in Nat : \E x \in T : x + z = n}
<1>1. \A x \in T : n - x \in U
  OBVIOUS
<1>2. U \in SUBSET Nat /\ U # {}
  BY <1>1, Zenon
<1>3. \A z \in U : \E x \in T : x + z = n
  BY Zenon
<1> HIDE DEF U
<1>4. PICK z \in U : \A y \in U : z <= y
  BY <1>2, Least, Zenon
<1>5. PICK x \in T : x + z = n
  BY <1>3, Zenon
<1>6. \A y \in T : y <= x
  BY <1>1, <1>2, <1>4, <1>5
<1> QED
  BY <1>6, Zenon

\* GetBlockPayee finds a payee at a height and level for which somebody voted
LEMMA SomePayee ==
  ASSUME CountInv, NEW h \in VoteHeight, Recent(h), NEW p \in Payee, Votes(h, p) > 0
  PROVE  GetBlockPayee(h, LevelOf[p]) # {}
<1> DEFINE n == Cardinality(mapMasternodePayeeVotes)
           T == {Votes(h, q) : q \in OfLevel(LevelOf[p])}
<1>1. \A q \in Payee : Votes(h, q) = CountIn(mapMasternodeBlocks, h, q)
  BY Zenon DEF Votes, CountIn
<1>2. n \in Nat
  BY FS_CardinalityType, Zenon DEF CountInv
<1>3. ASSUME NEW q \in Payee
      PROVE  Votes(h, q) \in Nat /\ Votes(h, q) <= n
  <2>1. Votes(h, q) \in Nat
    BY <1>1, CountParts, Zenon
  <2>2. Votes(h, q) <= Cardinality(VotesFor(Counted, h, q))
    BY <1>1, CountParts, Zenon DEF Recent, Within
  <2>3. VotesFor(Counted, h, q) \in SUBSET mapMasternodePayeeVotes
    BY Zenon DEF VotesFor, Counted
  <2>4. IsFiniteSet(VotesFor(Counted, h, q)) /\ Cardinality(VotesFor(Counted, h, q)) <= n
    BY <2>3, FS_Subset, CountParts, Zenon
  <2>5. Cardinality(VotesFor(Counted, h, q)) \in Nat
    BY <2>4, FS_CardinalityType, Zenon
  <2> QED
    BY <2>1, <2>2, <2>4, <2>5, <1>2
<1>4. T \in SUBSET Nat /\ Votes(h, p) \in T /\ \A x \in T : x <= n
  BY <1>3, Zenon DEF OfLevel
<1>5. \A x \in T : \E q \in OfLevel(LevelOf[p]) : x = Votes(h, q)
  BY Zenon
<1>6. \A q \in OfLevel(LevelOf[p]) : Votes(h, q) \in T
  BY Zenon
<1> HIDE DEF T, n
<1>7. PICK x \in T : \A y \in T : y <= x
  BY <1>2, <1>4, Greatest, Zenon
<1>8. PICK q \in OfLevel(LevelOf[p]) : x = Votes(h, q)
  BY <1>5, Zenon
<1>9. Votes(h, q) > 0
  BY <1>3, <1>4, <1>7, <1>8 DEF OfLevel
<1>10. q \in GetBlockPayee(h, LevelOf[p])
  BY <1>6, <1>7, <1>8, <1>9, Zenon DEF GetBlockPayee, OfLevel
<1> QED
  BY <1>10, Zenon

\* The block FillBlockPayee makes pays, at each level, a payee with the most votes
LEMMA OwnBlock == IInv /\ CountInv => OwnBlockAccepted
<1> DEFINE h == Height + 1
<1> SUFFICES ASSUME IInv, CountInv, Recent(h), Reward[h] <= Reward[Height],
                    \A p \in Enforced(h) : LevelOf[p] \in Level,
                    NEW paid \in FillBlockPayee, NEW p \in Enforced(h)
             PROVE  \E q \in Enforced(h) :
                      /\ LevelOf[q] = LevelOf[p]
                      /\ paid[q] >= Reward[mapMasternodeBlocks[h].nBlockHeight]
  BY Zenon DEF OwnBlockAccepted, IsTransactionValid
<1> HIDE DEF h
<1>1. p \in Payee /\ Votes(h, p) >= SignaturesRequired /\ LevelOf[p] \in Level
  BY Zenon DEF Enforced
<1>2. h \in DOMAIN mapMasternodeBlocks /\ Votes(h, p) > 0
  <2>1. SignaturesRequired \in Nat /\ SignaturesRequired > 0
    BY Numbers
  <2>2. Votes(h, p) \in Nat
    BY <1>1, CountParts, Zenon DEF CountIn, Votes
  <2>3. Votes(h, p) # 0
    BY <1>1, <2>1, <2>2
  <2> QED
    BY <2>2, <2>3 DEF Votes
<1>3. h \in VoteHeight /\ mapMasternodeBlocks[h].nBlockHeight = h
  BY <1>2, CountParts, Zenon DEF Recent, Within
<1>4. GetBlockPayee(h, LevelOf[p]) # {}
  BY <1>1, <1>2, <1>3, SomePayee, Zenon
<1>5. LevelPayee(LevelOf[p]) = {{q} : q \in GetBlockPayee(h, LevelOf[p])}
  BY <1>4, Zenon DEF LevelPayee, h
<1>6. PICK ps \in Filled : paid = [q \in Payee |-> IF q \in ps THEN Reward[Height] ELSE 0]
  BY Zenon DEF FillBlockPayee
<1>7. ps \cap OfLevel(LevelOf[p]) \in LevelPayee(LevelOf[p])
  <2> DEFINE some == {rs \in SUBSET UNION {OfLevel(l) : l \in Level} :
                        \A l \in Level : rs \cap OfLevel(l) \in LevelPayee(l)}
  <2>1. \A rs \in some : rs \cap OfLevel(LevelOf[p]) \in LevelPayee(LevelOf[p])
    BY <1>1, Zenon
  <2>2. {} \notin LevelPayee(LevelOf[p])
    BY <1>5, Zenon
  <2>3. ps \in (some \ {{}}) \cup (IF {} \in some THEN LevelPayee(Deprecated) ELSE {})
    BY <1>6, Zenon DEF Filled
  <2> HIDE DEF some
  <2>4. {} \notin some
    BY <2>1, <2>2, Zenon
  <2> QED
    BY <2>1, <2>3, <2>4, Zenon
<1>8. PICK q \in GetBlockPayee(h, LevelOf[p]) : ps \cap OfLevel(LevelOf[p]) = {q}
  BY <1>5, <1>7, Zenon
<1>9. q \in Payee /\ LevelOf[q] = LevelOf[p] /\ Votes(h, p) <= Votes(h, q) /\ q \in ps
  BY <1>1, <1>8, Zenon DEF GetBlockPayee
<1>10. q \in Enforced(h)
  <2>1. Votes(h, p) \in Nat /\ Votes(h, q) \in Nat
    BY <1>1, <1>9, CountParts, Zenon DEF CountIn, Votes
  <2> QED
    BY <2>1, <1>1, <1>9, Numbers DEF Enforced
<1>11. paid[q] = Reward[Height]
  BY <1>6, <1>9, Zenon
<1> QED
  BY <1>3, <1>9, <1>10, <1>11, Zenon

\* For any payees, levels, votes and rewards, the block this node makes is one it accepts:
\* FillBlockPayee pays at each level a payee with the most votes, and IsTransactionValid
\* demands one with enough.  It needs that the entry of a height the clean-up has not reached
\* carries that height, which AddPayee could lose (CountInv).
THEOREM OwnBlocksAccepted == Spec => []OwnBlockAccepted
BY OwnBlock, InitIInv, NextIInv, InitCount, NextCount, PTL DEF Spec

-----------------------------------------------------------------------------
(* Who voted had a rank *)

\* The hash cache only grows, and what it gets is the hash of a block
LEMMA CacheGrows ==
  ASSUME IInv, RankInv, NEW k \in Int, CacheBlockHash(k)
  PROVE  /\ DOMAIN mapCacheBlockHashes' \subseteq Int
         /\ \A i \in DOMAIN mapCacheBlockHashes' :
              i >= 2 => mapCacheBlockHashes'[i] \in Label \cup {Main}
         /\ DOMAIN mapCacheBlockHashes \subseteq DOMAIN mapCacheBlockHashes'
         /\ \A i \in DOMAIN mapCacheBlockHashes : mapCacheBlockHashes'[i] = mapCacheBlockHashes[i]
         /\ k <= Height + 1 =>
              /\ k \in DOMAIN mapCacheBlockHashes' /\ BlockHash(k) = {mapCacheBlockHashes'[k]}
<1> DEFINE c == mapCacheBlockHashes
           x == CHOOSE y \in BlockHash(k) : TRUE
           new == IF BlockHash(k) = {} THEN {} ELSE {k}
<1>1. /\ DOMAIN c' = DOMAIN c \cup new
      /\ \A i \in DOMAIN c' : c'[i] = IF i \in DOMAIN c THEN c[i] ELSE x
  BY Zenon DEF CacheBlockHash
<1>2. chain \in Seq(Label \cup {Main}) /\ Height = Len(chain) /\ Height \in Nat
  BY DEF IInv, PaymentsTypeOK, Height
<1>3. DOMAIN c \subseteq Int /\ \A i \in DOMAIN c : i >= 2 => c[i] \in Label \cup {Main}
  BY Zenon DEF RankInv
<1>4. CASE k \in DOMAIN c
  <2>1. BlockHash(k) = {c[k]}
    BY <1>4, Zenon DEF BlockHash
  <2> QED
    BY <1>1, <1>3, <1>4, <2>1, Zenon
<1>5. CASE k \notin DOMAIN c /\ k <= Height + 1
  <2>1. BlockHash(k) = {chain[k - 1]}
    BY <1>5, Zenon DEF BlockHash
  <2>2. x = chain[k - 1] /\ new = {k}
    BY <2>1, Zenon
  <2>3. k >= 2 => x \in Label \cup {Main}
    <3> SUFFICES ASSUME k >= 2 PROVE chain[k - 1] \in Label \cup {Main}
      BY <2>2, Zenon
    <3>1. k - 1 \in 1..Len(chain)
      BY <1>2, <1>5
    <3> QED
      BY <3>1, <1>2
  <2> QED
    BY <1>1, <1>3, <1>5, <2>1, <2>2, <2>3, Zenon
<1>6. CASE k \notin DOMAIN c /\ ~(k <= Height + 1)
  <2>1. BlockHash(k) = {}
    BY <1>6, Zenon DEF BlockHash
  <2> QED
    BY <1>1, <1>3, <1>6, <2>1, Zenon
<1> QED
  BY <1>4, <1>5, <1>6, Zenon

\* The list that ranks are computed over
LEMMA RankedListed == RankInv => Ranked \subseteq Masternode
BY Zenon DEF RankInv, Ranked

\* A vote was entitled to its height at the time, and stays so
LEMMA VotedKept ==
  ASSUME DOMAIN mapCacheBlockHashes \subseteq DOMAIN mapCacheBlockHashes',
         \A i \in DOMAIN mapCacheBlockHashes : mapCacheBlockHashes'[i] = mapCacheBlockHashes[i],
         \A h \in VoteHeight : lists[h] \subseteq lists'[h],
         NEW v \in Winner, MayHaveVoted(v)
  PROVE  MayHaveVoted(v)'
<1>1. v.nBlockHeight \in VoteHeight
  BY Zenon DEF Winner
<1> QED
  BY <1>1, Zenon DEF MayHaveVoted

\* A step that only adds to the cache and to the history of lists, and whose new votes were
\* entitled to their heights
LEMMA RankStep ==
  ASSUME RankInv, PaymentsTypeOK, listed' \subseteq Masternode, Settled <= Len(chain'),
         lists' \in [VoteHeight -> SUBSET SUBSET Masternode],
         \A h \in VoteHeight : lists[h] \subseteq lists'[h],
         DOMAIN mapCacheBlockHashes' \subseteq Int,
         \A i \in DOMAIN mapCacheBlockHashes' :
           i >= 2 => mapCacheBlockHashes'[i] \in Label \cup {Main},
         DOMAIN mapCacheBlockHashes \subseteq DOMAIN mapCacheBlockHashes',
         \A i \in DOMAIN mapCacheBlockHashes : mapCacheBlockHashes'[i] = mapCacheBlockHashes[i],
         horizon' = horizon,
         \A v \in Held' : v \in Held \/ MayHaveVoted(v)'
  PROVE  RankInv'
<1>1. ASSUME NEW v \in Held', v.nBlockHeight > horizon
      PROVE  MayHaveVoted(v)'
  <2>1. CASE v \in Held
    <3>1. v \in Winner /\ MayHaveVoted(v)
      BY <2>1, <1>1, Zenon DEF RankInv, PaymentsTypeOK, Held
    <3> QED
      BY <3>1, VotedKept, Zenon
  <2> QED
    BY <2>1, Zenon
<1> QED
  BY <1>1, Zenon DEF RankInv

\* The cache, the lists and the votes stay as they are
LEMMA RankFrame ==
  ASSUME IInv, RankInv, listed' \subseteq Masternode, Settled <= Len(chain'),
         Held' \subseteq Held, UNCHANGED <<mapCacheBlockHashes, lists, horizon>>
  PROVE  RankInv'
BY RankStep, Zenon DEF RankInv, IInv

\* IsValid, and MayVote: the rank is one of the first SignaturesTotal
LEMMA Entitled ==
  ASSUME IInv, RankInv, NEW v \in Winner, NEW h \in VoteHeight, v.nBlockHeight = h,
         h >= Height - Past, h <= Height + MaxAhead,
         Rank(v.vin, h) <= SignaturesTotal, CacheBlockHash(h - RankDepth),
         lists' = [lists EXCEPT ![h] = @ \cup {Ranked}]
  PROVE  MayHaveVoted(v)'
<1> DEFINE k == h - RankDepth
<1>1. h \in Nat /\ Height \in Nat /\ Settled <= Height /\ k \in Int
  <2>1. h \in Nat
    BY PaymentsAssumption, Zenon
  <2>2. Height \in Nat /\ Settled <= Height
    BY DEF IInv, PaymentsTypeOK, RankInv, Height
  <2> QED
    BY <2>1, <2>2, Numbers
<1>2. k >= 2 /\ k <= Height + 1
  BY <1>1, Numbers
<1>3. k \in DOMAIN mapCacheBlockHashes' /\ BlockHash(k) = {mapCacheBlockHashes'[k]}
  BY <1>1, <1>2, CacheGrows, Zenon
<1>4. Ranked \in lists'[h]
  BY Zenon DEF RankInv
<1>5. v.vin \in Ranked => RankIn(v.vin, Ranked, mapCacheBlockHashes'[k]) <= SignaturesTotal
  <2> SUFFICES ASSUME v.vin \in Ranked
               PROVE  RankIn(v.vin, Ranked, mapCacheBlockHashes'[k]) <= SignaturesTotal
    BY Zenon
  <2>1. (CHOOSE x \in BlockHash(k) : TRUE) = mapCacheBlockHashes'[k]
    BY <1>3, Zenon
  <2>2. Rank(v.vin, h) = RankIn(v.vin, Ranked, mapCacheBlockHashes'[k])
    BY <2>1, <1>3, Zenon DEF Rank, RankIn
  <2> QED
    BY <2>2, Zenon
<1> QED
  BY <1>2, <1>3, <1>4, <1>5, Zenon DEF MayHaveVoted

LEMMA InitRank == Init => RankInv
<1> SUFFICES ASSUME Init PROVE RankInv
  BY Zenon
<1>1. Held = {} /\ listed = Masternode
  BY Zenon DEF Init, Held
<1>2. Settled <= Len(chain)
  BY Numbers DEF Init
<1>3. DOMAIN mapCacheBlockHashes = {}
  BY DEF Init
<1>4. lists \in [VoteHeight -> SUBSET SUBSET Masternode]
  BY Zenon DEF Init
<1> QED
  BY <1>1, <1>2, <1>3, <1>4, Zenon DEF RankInv

\* "mnw"
LEMMA MessageRank ==
  ASSUME IInv, RankInv, NEW w \in Message, ProcessMessageMasternodePayments(w)
  PROVE  RankInv'
<1> DEFINE h == w.nBlockHeight
<1>1. w \in Winner /\ h \in VoteHeight /\ h - RankDepth \in Int
  <2>1. w \in Winner /\ h \in VoteHeight /\ h \in Nat
    BY PaymentsAssumption, Zenon DEF Winner
  <2> QED
    BY <2>1, Numbers
<1>2. /\ h >= Height - Past /\ h <= Height + MaxAhead /\ Rank(w.vin, h) <= SignaturesTotal
      /\ CacheBlockHash(h - RankDepth) /\ lists' = [lists EXCEPT ![h] = @ \cup {Ranked}]
  BY Zenon DEF ProcessMessageMasternodePayments, IsValid
<1>3. /\ adding' \subseteq {w}
      /\ UNCHANGED <<chain, listed, mapMasternodePayeeVotes, uncounted, horizon>>
  BY Zenon DEF ProcessMessageMasternodePayments, list, tables
<1>4. MayHaveVoted(w)'
  BY <1>1, <1>2, Entitled, Zenon
<1>5. \A v \in Held' : v \in Held \/ MayHaveVoted(v)'
  BY <1>3, <1>4, Zenon DEF Held
<1>6. /\ lists' \in [VoteHeight -> SUBSET SUBSET Masternode]
      /\ \A i \in VoteHeight : lists[i] \subseteq lists'[i]
  BY <1>1, <1>2, RankedListed, Zenon DEF RankInv
<1>7. listed' \subseteq Masternode /\ Settled <= Len(chain')
  BY <1>3, Zenon DEF RankInv
<1> QED
  BY <1>1, <1>2, <1>3, <1>5, <1>6, <1>7, CacheGrows, RankStep, Zenon DEF IInv

\* ProcessBlock
LEMMA ProcessBlockRank ==
  ASSUME IInv, RankInv, NEW h \in VoteHeight, ProcessBlock(h)
  PROVE  RankInv'
<1>1. h \in Nat /\ h - RankDepth \in Int /\ Height \in Nat
  <2>1. h \in Nat
    BY PaymentsAssumption, Zenon
  <2>2. chain \in Seq(Label \cup {Main})
    BY Zenon DEF IInv, PaymentsTypeOK
  <2>3. RankDepth \in Nat
    BY Numbers, Zenon
  <2> QED
    BY <2>1, <2>2, <2>3 DEF Height
<1>2. h = Height + Ahead /\ Rank(Self, h) \in 1..SignaturesTotal
  BY Zenon DEF ProcessBlock, MayVote
<1>3. CacheBlockHash(h - RankDepth) /\ lists' = [lists EXCEPT ![h] = @ \cup {Ranked}]
  BY Zenon DEF ProcessBlock
<1>4. h >= Height - Past /\ h <= Height + MaxAhead /\ Rank(Self, h) <= SignaturesTotal
  BY <1>1, <1>2, Numbers
<1>5. UNCHANGED <<chain, listed, mapMasternodePayeeVotes, uncounted, horizon>>
  BY Zenon DEF ProcessBlock, list, tables
<1>6. \A v \in adding' : v \in Winner /\ v.vin = Self /\ v.nBlockHeight = h
  <2>1. PICK ps \in PayeeChoices :
          adding' = {[vin |-> Self, nBlockHeight |-> h, payee |-> p] : p \in ps}
    BY Zenon DEF ProcessBlock
  <2>2. ps \subseteq Payee
    BY Zenon DEF PayeeChoices
  <2>3. Self \in Masternode
    BY PaymentsAssumption, Zenon
  <2>4. \A p \in ps : [vin |-> Self, nBlockHeight |-> h, payee |-> p] \in Winner
    BY <2>2, <2>3, Zenon DEF Winner
  <2> QED
    BY <2>1, <2>4
<1>7. \A v \in adding' : MayHaveVoted(v)'
  BY <1>3, <1>4, <1>6, Entitled, Zenon
<1>8. \A v \in Held' : v \in Held \/ MayHaveVoted(v)'
  BY <1>5, <1>7, Zenon DEF Held
<1>9. /\ lists' \in [VoteHeight -> SUBSET SUBSET Masternode]
      /\ \A i \in VoteHeight : lists[i] \subseteq lists'[i]
  BY <1>3, RankedListed, Zenon DEF RankInv
<1>10. listed' \subseteq Masternode /\ Settled <= Len(chain')
  BY <1>5, Zenon DEF RankInv
<1> QED
  BY <1>1, <1>3, <1>5, <1>8, <1>9, <1>10, CacheGrows, RankStep, Zenon DEF IInv

\* A hash that is asked for without a vote, or again
LEMMA HashRank ==
  ASSUME IInv, RankInv, NEW k \in Int, CacheBlockHash(k), Held' \subseteq Held,
         UNCHANGED <<chain, listed, lists, horizon>>
  PROVE  RankInv'
<1>1. listed' \subseteq Masternode /\ Settled <= Len(chain')
  BY Zenon DEF RankInv
<1>2. /\ lists' \in [VoteHeight -> SUBSET SUBSET Masternode]
      /\ \A i \in VoteHeight : lists[i] \subseteq lists'[i]
  BY Zenon DEF RankInv
<1>3. \A v \in Held' : v \in Held \/ MayHaveVoted(v)'
  BY Zenon
<1> QED
  BY <1>1, <1>2, <1>3, CacheGrows, RankStep, Zenon DEF IInv

LEMMA InsertRank ==
  ASSUME IInv, RankInv, NEW w \in adding, InsertWinner(w)
  PROVE  RankInv'
<1>1. w.nBlockHeight - RankDepth \in Int
  <2>1. w.nBlockHeight \in Nat
    BY WinnerFields, Zenon DEF IInv, PaymentsTypeOK
  <2> QED
    BY <2>1, Numbers
<1>2. CacheBlockHash(w.nBlockHeight - RankDepth)
  BY Zenon DEF InsertWinner
<1>3. UNCHANGED <<chain, listed, lists, horizon>>
  BY Zenon DEF InsertWinner, list, history
<1>4. /\ uncounted = {} /\ adding' = adding \ {w}
      /\ \/ UNCHANGED <<mapMasternodePayeeVotes, uncounted>>
         \/ mapMasternodePayeeVotes' = mapMasternodePayeeVotes \cup {w} /\ uncounted' = {w}
  BY Zenon DEF InsertWinner, tables
<1>5. Held' \subseteq Held
  BY <1>4, Zenon DEF Held
<1> QED
  BY <1>1, <1>2, <1>3, <1>5, HashRank, Zenon

\* The tip moves above the blocks that are settled
LEMMA TipRank ==
  ASSUME IInv, RankInv,
         (\E x \in Label : ConnectTip(x)) \/ DisconnectTip
  PROVE  RankInv'
<1>1. UNCHANGED <<mapMasternodePayeeVotes, adding, uncounted, listed, mapCacheBlockHashes, lists,
                  horizon>>
  BY Zenon DEF ConnectTip, DisconnectTip, tables, work, list, history
<1>2. chain \in Seq(Label \cup {Main}) /\ Settled <= Len(chain) /\ Settled \in Nat
  BY Numbers, Zenon DEF IInv, PaymentsTypeOK, RankInv
<1>3. Settled <= Len(chain')
  <2>1. CASE \E x \in Label : ConnectTip(x)
    BY <2>1, <1>2 DEF ConnectTip
  <2>2. CASE DisconnectTip
    <3>1. chain' = SubSeq(chain, 1, Len(chain) - 1) /\ Len(chain) > Settled
      BY <2>2, Zenon DEF DisconnectTip, Height
    <3>2. Len(chain) \in Nat /\ Len(chain) - 1 \in Nat
      BY <3>1, <1>2
    <3>3. chain' = [i \in 1..(Len(chain) - 1) |-> chain[i]]
      BY <3>1, <3>2, <1>2
    <3>4. Len(chain') = Len(chain) - 1
      BY <3>2, <3>3
    <3> QED
      BY <3>1, <3>2, <3>4, <1>2
  <2> QED
    BY <2>1, <2>2, Zenon
<1>4. Held' \subseteq Held /\ listed' \subseteq Masternode
  BY <1>1, Zenon DEF Held, RankInv
<1> QED
  BY <1>1, <1>3, <1>4, RankFrame, Zenon

\* Restart: the cache is empty, and no vote is left above the horizon
LEMMA RestartRank ==
  ASSUME IInv, RankInv, Restart
  PROVE  RankInv'
<1>1. IInv' /\ horizon' = highest + MaxAhead /\ UNCHANGED <<chain, listed, lists, highest>>
  BY RestartIInv, Zenon DEF Restart, list
<1>2. DOMAIN mapCacheBlockHashes' = {}
  <2>1. mapCacheBlockHashes' = <<>>
    BY Zenon DEF Restart, Load
  <2>2. DOMAIN <<>> = {}
    OBVIOUS
  <2> QED
    BY <2>1, <2>2, Zenon
<1>3. ASSUME NEW v \in Held'
      PROVE  ~(v.nBlockHeight > horizon')
  <2>1. v.nBlockHeight <= highest' + MaxAhead
    BY <1>1, Zenon DEF IInv, Bounded
  <2>2. v.nBlockHeight \in Nat /\ highest \in Nat
    BY <1>1, WinnerFields, Zenon DEF IInv, PaymentsTypeOK, Held
  <2> QED
    BY <2>1, <2>2, <1>1, Numbers
<1> QED
  BY <1>1, <1>2, <1>3, Zenon DEF RankInv

\* Every step preserves RankInv
LEMMA NextRank == IInv /\ RankInv /\ [Next]_vars => RankInv'
<1> SUFFICES ASSUME IInv, RankInv, [Next]_vars PROVE RankInv'
  BY Zenon
<1>1. ASSUME UNCHANGED <<chain, mapCacheBlockHashes, listed, mapMasternodePayeeVotes, adding,
                         uncounted, lists, horizon>>
      PROVE  RankInv'
  BY <1>1, RankFrame, Zenon DEF Held, RankInv
<1>2. CASE \E n \in Node : ReceiveSpork(n) \/ \E v \in SporkValue : SignSpork(n, v)
  BY <1>1, <1>2, Zenon DEF ReceiveSpork, SignSpork, payments, list, tables, work, history
<1>3. CASE ClockTick
  BY <1>1, <1>3, Zenon DEF ClockTick, payments, list, tables, work, history
<1>4. CASE \E w \in Message : ProcessMessageMasternodePayments(w)
  BY <1>4, MessageRank, Zenon
<1>5. CASE \E h \in VoteHeight : ProcessBlock(h)
  BY <1>5, ProcessBlockRank, Zenon
<1>6. CASE \E h \in VoteHeight : GetMasternodeRank(h)
  <2>1. PICK h \in VoteHeight : GetMasternodeRank(h)
    BY <1>6, Zenon
  <2>2. h - RankDepth \in Int
    BY PaymentsAssumption, Numbers
  <2> QED
    BY <2>1, <2>2, HashRank, Zenon DEF GetMasternodeRank, list, tables, work, history, Held
<1>7. CASE \E w \in adding : InsertWinner(w)
  BY <1>7, InsertRank, Zenon
<1>8. CASE \E w \in uncounted : AddPayee(w)
  <2>1. PICK w \in uncounted : AddPayee(w)
    BY <1>8, Zenon
  <2>2. UNCHANGED <<chain, mapCacheBlockHashes, listed, mapMasternodePayeeVotes, adding, lists,
                    horizon>>
    BY <2>1, Zenon DEF AddPayee, list, history
  <2>3. uncounted' = {}
    BY <2>1, Zenon DEF AddPayee
  <2> QED
    BY <2>2, <2>3, RankFrame, Zenon DEF Held, RankInv
<1>9. CASE (\E x \in Label : ConnectTip(x)) \/ DisconnectTip
  BY <1>9, TipRank, Zenon
<1>10. CASE \E m \in Masternode : ChangeKey(m) \/ UpdateMasternodeList(m) \/ CheckAndRemove(m)
  <2>1. UNCHANGED <<chain, mapCacheBlockHashes, mapMasternodePayeeVotes, adding, uncounted, lists,
                    horizon>>
    BY <1>10, Zenon DEF ChangeKey, UpdateMasternodeList, CheckAndRemove, tables, work, history
  <2>2. listed' \subseteq Masternode
    BY <1>10, Zenon DEF ChangeKey, UpdateMasternodeList, CheckAndRemove, RankInv
  <2> QED
    BY <2>1, <2>2, RankFrame, Zenon DEF Held, RankInv
<1>11. CASE CleanPaymentList
  <2>1. /\ mapMasternodePayeeVotes' \subseteq mapMasternodePayeeVotes
        /\ UNCHANGED <<chain, mapCacheBlockHashes, listed, adding, uncounted, lists, horizon>>
    BY <1>11, Zenon DEF CleanPaymentList, list, work, history
  <2> QED
    BY <2>1, RankFrame, Zenon DEF Held, RankInv
<1>12. CASE Restart
  BY <1>12, RestartRank, Zenon
<1>13. CASE UNCHANGED vars
  BY <1>1, <1>13, Zenon DEF vars, list, tables, work, history
<1> QED
  BY <1>2, <1>3, <1>4, <1>5, <1>6, <1>7, <1>8, <1>9, <1>10, <1>11, <1>12, <1>13, Zenon DEF Next

-----------------------------------------------------------------------------
(* Two majorities of the same voters meet *)

\* Ranks start at 1 and no two masternodes have the same
LEMMA RanksDiffer ==
  ASSUME NEW x \in Label \cup {Main}, NEW l \in SUBSET Masternode, NEW m \in l, NEW n \in l
  PROVE  /\ RankIn(m, l, x) \in Nat /\ RankIn(m, l, x) >= 1
         /\ RankIn(m, l, x) = RankIn(n, l, x) => m = n
<1> DEFINE Above(y) == {z \in l : Score[x][z] >= Score[x][y]}
<1>1. \A y \in Masternode : Score[x][y] \in Nat
  BY PaymentsAssumption
<1>2. ASSUME NEW y \in l
      PROVE  /\ IsFiniteSet(Above(y)) /\ y \in Above(y)
             /\ RankIn(y, l, x) = Cardinality(Above(y)) /\ RankIn(y, l, x) \in Nat
             /\ RankIn(y, l, x) >= 1
  <2>1. Above(y) \in SUBSET Masternode
    BY Zenon
  <2>2. IsFiniteSet(Above(y))
    BY <2>1, FS_Subset, PaymentsAssumption, Zenon
  <2>3. y \in Above(y)
    BY <1>1
  <2>4. Cardinality(Above(y)) \in Nat /\ Cardinality(Above(y)) # 0
    BY <2>2, <2>3, FS_CardinalityType, FS_EmptySet, Zenon
  <2> QED
    BY <2>2, <2>3, <2>4 DEF RankIn
<1>3. ASSUME NEW y \in l, NEW z \in l, RankIn(y, l, x) = RankIn(z, l, x),
             Score[x][y] >= Score[x][z]
      PROVE  y = z
  <2>1. Above(y) \in SUBSET Above(z)
    BY <1>1, <1>3
  <2>2. Above(z) = Above(y)
    BY <2>1, <1>2, <1>3, FS_Subset, Zenon
  <2>3. z \in Above(y)
    BY <2>2, <1>2, Zenon
  <2>4. Score[x][z] = Score[x][y]
    BY <2>3, <1>1, <1>3
  <2> QED
    BY <2>4, PaymentsAssumption, Zenon
<1>4. Score[x][m] \in Nat /\ Score[x][n] \in Nat
  BY <1>1, Zenon
<1>5. Score[x][m] >= Score[x][n] \/ Score[x][n] >= Score[x][m]
  BY <1>4
<1> QED
  BY <1>2, <1>3, <1>5, Zenon

\* At most SignaturesTotal masternodes of a list have a rank that may vote
LEMMA FewVoters ==
  ASSUME NEW x \in Label \cup {Main}, NEW l \in SUBSET Masternode,
         NEW M \in SUBSET l, \A m \in M : RankIn(m, l, x) <= SignaturesTotal
  PROVE  IsFiniteSet(M) /\ Cardinality(M) <= SignaturesTotal
<1> DEFINE f == [m \in M |-> RankIn(m, l, x)]
<1>1. SignaturesTotal \in Nat
  BY Numbers, Zenon
<1>2. \A m \in M : RankIn(m, l, x) \in 1..SignaturesTotal
  BY <1>1, RanksDiffer
<1>3. \A m, n \in M : f[m] = f[n] => m = n
  BY RanksDiffer, Zenon
<1>4. f \in Injection(M, 1..SignaturesTotal)
  BY <1>2, <1>3, Zenon DEF Injection, IsInjective
<1>5. IsFiniteSet(1..SignaturesTotal) /\ Cardinality(1..SignaturesTotal) = SignaturesTotal
  BY <1>1, FS_Interval
<1> HIDE DEF f
<1> QED
  BY <1>4, <1>5, FS_Injection

\* A payee has at most as many votes as masternodes voted for it
LEMMA VotersCount ==
  ASSUME IInv, CountInv, NEW h \in VoteHeight, Recent(h), NEW p \in Payee
  PROVE  /\ IsFiniteSet(Voters(h, p)) /\ Cardinality(Voters(h, p)) \in Nat
         /\ Votes(h, p) \in Nat /\ Votes(h, p) <= Cardinality(Voters(h, p))
<1> DEFINE S == VotesFor(Counted, h, p)
           f == [w \in S |-> w.vin]
<1>1. mapMasternodePayeeVotes \subseteq Winner
  BY Zenon DEF IInv, PaymentsTypeOK
<1>2. Voters(h, p) \in SUBSET Masternode
  BY <1>1, Zenon DEF Voters, Winner
<1>3. IsFiniteSet(Voters(h, p)) /\ Cardinality(Voters(h, p)) \in Nat
  <2>1. IsFiniteSet(Masternode)
    BY PaymentsAssumption, Zenon
  <2>2. IsFiniteSet(Voters(h, p))
    BY <2>1, <1>2, FS_Subset, Zenon
  <2> QED
    BY <2>2, FS_CardinalityType, Zenon
<1>4. \A w \in S : w \in Winner /\ w.nBlockHeight = h /\ w.payee = p /\ w.vin \in Voters(h, p)
  BY <1>1, Zenon DEF VotesFor, Counted, Voters
<1>5. \A v, w \in S : v.vin = w.vin => v = w
  BY <1>4 DEF Winner
<1> HIDE DEF S
<1>6. f \in Injection(S, Voters(h, p))
  BY <1>4, <1>5, Zenon DEF Injection, IsInjective
<1> HIDE DEF f
<1>7. IsFiniteSet(S) /\ Cardinality(S) <= Cardinality(Voters(h, p))
  BY <1>3, <1>6, FS_Injection, Zenon
<1>8. Cardinality(S) \in Nat
  BY <1>7, FS_CardinalityType, Zenon
<1>9. Votes(h, p) \in Nat
  BY CountParts, Zenon DEF Votes, CountIn
<1>10. Votes(h, p) <= Cardinality(S)
  BY CountParts, Zenon DEF Votes, CountIn, Recent, Within, S
<1> QED
  BY <1>3, <1>7, <1>8, <1>9, <1>10

LEMMA OnePayee == IInv /\ CountInv /\ RankInv => OnePayeeEnforced
<1> SUFFICES ASSUME IInv, CountInv, RankInv, NEW h \in VoteHeight, h > horizon, Recent(h),
                    \A a, b \in lists[h] : a = b,
                    \A r \in Payee, a \in lists[h] : Voters(h, r) \subseteq a,
                    NEW p \in Enforced(h), NEW q \in Enforced(h), LevelOf[p] = LevelOf[q], p # q
             PROVE  FALSE
  BY Zenon DEF OnePayeeEnforced
<1> DEFINE k == h - RankDepth
           x == mapCacheBlockHashes[k]
<1>1. /\ p \in Payee /\ Votes(h, p) >= SignaturesRequired
      /\ q \in Payee /\ Votes(h, q) >= SignaturesRequired
  BY Zenon DEF Enforced
<1>2. ASSUME NEW r \in Payee, NEW m \in Voters(h, r)
      PROVE  /\ k >= 2 /\ k \in DOMAIN mapCacheBlockHashes
             /\ \E l \in lists[h] : m \in l /\ RankIn(m, l, x) <= SignaturesTotal
  <2>1. PICK v \in mapMasternodePayeeVotes : v.nBlockHeight = h /\ v.payee = r /\ m = v.vin
    BY Zenon DEF Voters
  <2>2. MayHaveVoted(v)
    BY <2>1, Zenon DEF RankInv, Held
  <2> QED
    BY <2>1, <2>2, Zenon DEF MayHaveVoted
<1>3. Voters(h, p) # {}
  <2>1. Cardinality(Voters(h, p)) \in Nat /\ Cardinality(Voters(h, p)) >= SignaturesRequired
    BY <1>1, VotersCount, Numbers
  <2>2. Cardinality(Voters(h, p)) # 0
    BY <2>1, Numbers
  <2> QED
    BY <2>2, FS_EmptySet, Zenon
<1>4. PICK l \in lists[h] : TRUE
  BY <1>1, <1>2, <1>3, Zenon
<1>5. k >= 2 /\ k \in DOMAIN mapCacheBlockHashes
  BY <1>1, <1>2, <1>3, Zenon
<1>6. x \in Label \cup {Main} /\ l \in SUBSET Masternode
  BY <1>4, <1>5, Zenon DEF RankInv
<1> DEFINE M == Voters(h, p) \cup Voters(h, q)
<1>7. M \in SUBSET l /\ \A m \in M : RankIn(m, l, x) <= SignaturesTotal
  BY <1>1, <1>2, <1>4, Zenon
<1> HIDE DEF x, k
<1>8. IsFiniteSet(M) /\ Cardinality(M) <= SignaturesTotal
  <2> HIDE DEF M
  <2> QED
    BY <1>6, <1>7, FewVoters, Zenon
<1>9. Voters(h, p) \cap Voters(h, q) = {}
  <2> SUFFICES ASSUME NEW m \in Voters(h, p), m \in Voters(h, q) PROVE FALSE
    BY Zenon
  <2>1. PICK v \in mapMasternodePayeeVotes : v.nBlockHeight = h /\ v.payee = p /\ m = v.vin
    BY Zenon DEF Voters
  <2>2. PICK w \in mapMasternodePayeeVotes : w.nBlockHeight = h /\ w.payee = q /\ m = w.vin
    BY Zenon DEF Voters
  <2>3. SameVote(v, w)
    BY <2>1, <2>2, Zenon DEF SameVote
  <2>4. v \in Held /\ w \in Held /\ v.nBlockHeight > horizon
    BY <2>1, Zenon DEF Held
  <2>5. v = w
    BY <2>3, <2>4, Zenon DEF IInv, Unique
  <2> QED
    BY <2>1, <2>2, <2>5, Zenon
<1>10. /\ IsFiniteSet(Voters(h, p)) /\ Cardinality(Voters(h, p)) \in Nat
       /\ Cardinality(Voters(h, p)) >= SignaturesRequired
       /\ IsFiniteSet(Voters(h, q)) /\ Cardinality(Voters(h, q)) \in Nat
       /\ Cardinality(Voters(h, q)) >= SignaturesRequired
  <2>1. /\ IsFiniteSet(Voters(h, p)) /\ Cardinality(Voters(h, p)) \in Nat
        /\ Votes(h, p) \in Nat /\ Votes(h, p) <= Cardinality(Voters(h, p))
    BY <1>1, VotersCount, Zenon
  <2>2. /\ IsFiniteSet(Voters(h, q)) /\ Cardinality(Voters(h, q)) \in Nat
        /\ Votes(h, q) \in Nat /\ Votes(h, q) <= Cardinality(Voters(h, q))
    BY <1>1, VotersCount, Zenon
  <2>3. /\ SignaturesRequired \in Nat
        /\ Votes(h, p) >= SignaturesRequired /\ Votes(h, q) >= SignaturesRequired
    BY <1>1, Numbers, Zenon
  <2>4. \A v, c, n \in Nat : v >= n /\ v <= c => c >= n
    OBVIOUS
  <2> QED
    BY <2>1, <2>2, <2>3, <2>4, Zenon
<1>11. Cardinality(M) = Cardinality(Voters(h, p)) + Cardinality(Voters(h, q))
  <2>1. Cardinality(M) = Cardinality(Voters(h, p)) + Cardinality(Voters(h, q)) - Cardinality({})
    BY <1>9, <1>10, FS_Union, Zenon
  <2> HIDE DEF M
  <2> QED
    BY <2>1, <1>10, FS_EmptySet
<1>12. 2 * SignaturesRequired > SignaturesTotal /\ SignaturesRequired \in Nat /\ SignaturesTotal \in Nat
  BY Numbers, Zenon
<1> HIDE DEF M
<1> QED
  BY <1>8, <1>10, <1>11, <1>12

\* For any masternodes, scores, lists, branches and reorganisations, at most one payee of a
\* level is demanded of a block, as long as the voters of its height were ranked over one
\* list: the hash in the cache gives one order, so that all voters are among its first
\* SignaturesTotal (RankInv), each of them votes once for a level (IInv), every counted vote
\* is one of theirs (CountInv), and two sets of SignaturesRequired of them would meet.
THEOREM OnePayeePerLevel == Spec => []OnePayeeEnforced
BY OnePayee, InitIInv, NextIInv, InitCount, NextCount, InitRank, NextRank, PTL DEF Spec
=============================================================================
