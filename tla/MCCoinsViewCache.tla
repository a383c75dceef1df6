-------------------------- MODULE MCCoinsViewCache --------------------------
(* CoinsViewCache on small instances.                                      *)
EXTENDS CoinsViewCache, FiniteSets, TLC

Perms == Permutations(Txid) \cup Permutations(Block) \cup Permutations(Coins)
=============================================================================
