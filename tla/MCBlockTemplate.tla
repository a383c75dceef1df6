--------------------------- MODULE MCBlockTemplate ---------------------------
(* Three coinbases and an empty one, which the block with the coinstake s has; a, which
   spends the coin of s too, and a child b; x in conflict with a; n, which is mined but not
   relayed, with a child d that also needs b; v, an invalid spend of a's other output. *)
EXTENDS BlockTemplate, TLC

MCTx == {"c1", "c2", "c3", "e", "s", "a", "x", "n", "b", "v", "d"}
MCOrder == <<"c1", "c2", "c3", "e", "s", "a", "x", "n", "b", "v", "d">>
MCHash == [t \in MCTx |-> CHOOSE i \in 1..11 : MCOrder[i] = t]
MCCoinBase == {"c1", "c2", "c3", "e"}
MCCoinStake == {"s"}
MCIns == [t \in MCTx |->
  CASE t = "s" -> {<<"c2", 1>>}
    [] t = "a" -> {<<"c1", 1>>, <<"c2", 1>>}
    [] t = "x" -> {<<"c1", 1>>}
    [] t = "n" -> {<<"c1", 2>>}
    [] t = "b" -> {<<"a", 1>>}
    [] t = "v" -> {<<"a", 2>>}
    [] t = "d" -> {<<"n", 1>>, <<"b", 1>>}
    [] OTHER -> {}]
MCOuts == [t \in MCTx |-> CASE t \in {"c1", "a"} -> 2 [] t = "e" -> 0 [] OTHER -> 1]
MCNonStandard == {"n"}
MCInvalid == {"v"}
MCWorlds ==
  {[tx |-> MCTx \ {"s"}, mining |-> FALSE],
   [tx |-> {"c1", "c2", "c3", "e", "s", "a", "b"}, mining |-> TRUE]}
Peers == Permutations(Peer)
=============================================================================
