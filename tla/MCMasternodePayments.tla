------------------------ MODULE MCMasternodePayments ------------------------
(* Four masternodes, three of which may vote: on branch b m4 takes the place that m2 has on
   a.  Two payees of one level, one of another and one of the deprecated level. *)
EXTENDS MasternodePayments, TLC

CONSTANTS m1, m2, m3, m4, p, q, s, d, a, b, me, peer

MCScore ==
  a :> (m1 :> 4 @@ m2 :> 3 @@ m3 :> 2 @@ m4 :> 1) @@ b :> (m4 :> 4 @@ m1 :> 3 @@ m3 :> 2 @@ m2 :> 1)
MCChild == a :> {a, b} @@ b :> {b}
MCLevelOf == p :> 1 @@ q :> 1 @@ s :> 2 @@ d :> 3
MCReward == [h \in 0..8 |-> IF h = 0 THEN 9 ELSE IF h < 6 THEN 1 ELSE 2]

\* At height 7 m2 votes for p or q, m3 for p, m4 for q and m3 and m4 also for d, and what the
\* node itself voted for may come back; at height 6 m2 votes for p
MCMessage ==
  [vin : {m1, m2}, nBlockHeight : {7}, payee : {p, q}]
    \cup {[vin |-> m3, nBlockHeight |-> 7, payee |-> p], [vin |-> m4, nBlockHeight |-> 7, payee |-> q]}
    \cup {[vin |-> m2, nBlockHeight |-> 6, payee |-> p]}
    \cup [vin : {m3, m4}, nBlockHeight : {7}, payee : {d}]

MCBudget(vote, reorg, lst, spork, tick, stop) ==
  [k \in Kind |-> CASE k = "vote" -> vote [] k = "reorg" -> reorg [] k = "list" -> lst
                    [] k = "spork" -> spork [] k = "tick" -> tick [] k = "stop" -> stop]
MCBudgets ==
  {MCBudget(4, 1, 0, 0, 0, 0), MCBudget(2, 0, 1, 0, 0, 0), MCBudget(2, 1, 0, 0, 0, 1),
   MCBudget(2, 0, 0, 1, 1, 0), MCBudget(0, 0, 0, 2, 2, 1)}

\* Once the node will not restart again its file does not matter
UsedFile ==
  <<sporkVars, chain, mapCacheBlockHashes, list, tables, marks, work, highest, history, left,
    IF left["stop"] > 0 THEN file ELSE NoFile>>
=============================================================================
