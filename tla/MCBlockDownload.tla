-------------------------- MODULE MCBlockDownload --------------------------
(* A chain of MCLength blocks, named by their heights, and a fork of one block.  The first
   peer has the chain, the second one only its beginning, or the fork. *)
EXTENDS BlockDownload

CONSTANTS MCLength, p1, p2
MCBlock == (0..MCLength) \cup {100}
MCPrev == [b \in MCBlock |-> IF b \in {0, 100} THEN 0 ELSE b - 1]
MCHeight == [b \in MCBlock |-> IF b = 100 THEN 1 ELSE b]
MCTips == [p \in {p1, p2} |-> IF p = p1 THEN {MCLength} ELSE {0, 1, 100}]
=============================================================================
