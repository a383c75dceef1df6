------------------------- MODULE MCBlockConnection -------------------------
(***************************************************************************)
(* A small block tree for BlockConnection:                                 *)
(*                                                                         *)
(*     G -- A -- B -- C                                                    *)
(*           \-- D -- E                                                    *)
(*                                                                         *)
(* Each block takes one of several bodies.  The transactions spend outputs *)
(* of the same and of earlier blocks, mint a zerocoin (twice in one body), *)
(* and spend the same serial in two different transactions.                *)
(***************************************************************************)
EXTENDS BlockConnection, TLC

MCBlock == {"A", "B", "C", "D", "E"}
MCPrev == [b \in MCBlock |-> CASE b = "A" -> "G"
                               [] b \in {"B", "D"} -> "A"
                               [] b = "C" -> "B"
                               [] b = "E" -> "D"]

Out(t, n) == [hash |-> t, n |-> n]

Plain(vin, vout) ==
  [coinbase |-> FALSE, coinstake |-> FALSE, version |-> 1, vin |-> vin,
   vout |-> vout, serials |-> {}, mints |-> {}, mintOuts |-> {},
   redeemed |-> 0, burnt |-> 0]
Coinbase(vout) == [Plain(<<>>, vout) EXCEPT !.coinbase = TRUE]
ZSpend(s, vout) == [Plain(<<>>, vout) EXCEPT !.serials = {s}, !.redeemed = 3]

MCTxData ==
  [cbA |-> Coinbase((0 :> 5) @@ (1 :> 3)),
   cbB |-> Coinbase(0 :> 5), cbC |-> Coinbase(0 :> 5),
   cbD |-> Coinbase(0 :> 5), cbE |-> Coinbase(0 :> 5),
   p1 |-> Plain(<<Out("cbA", 0)>>, (0 :> 4)),
   p2 |-> [Plain(<<Out("cbA", 1)>>, (0 :> 2)) EXCEPT !.burnt = 1],
   p3 |-> Plain(<<Out("p1", 0), Out("p2", 0)>>, (0 :> 6)),
   m1 |-> [Plain(<<Out("p1", 0)>>, (0 :> 3)) EXCEPT !.mints = {"c1"},
                                                  !.mintOuts = {0}],
   m2 |-> [Plain(<<Out("p2", 0)>>, (0 :> 2)) EXCEPT !.mints = {"c1"},
                                                  !.mintOuts = {0}],
   p5 |-> Plain(<<Out("m1", 0)>>, (0 :> 3)),
   cs |-> [Plain(<<Out("cbA", 0)>>, (0 :> 6)) EXCEPT !.coinstake = TRUE],
   p4 |-> Plain(<<Out("cs", 0)>>, (0 :> 6)),
   z1 |-> ZSpend("s1", 0 :> 3),
   z2 |-> ZSpend("s1", 0 :> 3)]

MCTxid == DOMAIN MCTxData

\* A coinstake may be in B; no body spends its last output (see StakeBodies).
MCBodies ==
  [A |-> {<<"cbA">>},
   B |-> {<<"cbB", "p1">>, <<"cbB", "cs">>, <<"cbB", "p1", "p2", "p3">>},
   C |-> {<<"cbC", "p2", "m1">>, <<"cbC", "p2", "p3", "z1">>},
   D |-> {<<"cbD", "p1", "m1", "p5">>, <<"cbD", "p1", "p2">>, <<"cbD", "z2">>,
          <<"cbD", "p1", "p2", "m1", "m2">>},
   E |-> {<<"cbE", "p3">>, <<"cbE", "z1">>}]

\* A coinstake whose only output is spent by the next block.
StakeBodies ==
  [A |-> {<<"cbA">>}, B |-> {<<"cbB", "cs">>}, C |-> {<<"cbC", "p4">>},
   D |-> {<<"cbD", "p1">>}, E |-> {<<"cbE">>}]
=============================================================================
