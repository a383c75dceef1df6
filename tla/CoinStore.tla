------------------------------ MODULE CoinStore ------------------------------
(***************************************************************************)
(* What the coin database of a node promises, with no caches in sight: a   *)
(* map from transaction ids to their unspent outputs, together with the    *)
(* block it reflects.  One writer at a time (cs_main) works on a private   *)
(* copy, which becomes the node's chain state as a whole or not at all;    *)
(* from time to time the chain state is made durable as a whole; a crash   *)
(* falls back to the durable one.  When the disk refuses the write, the    *)
(* coins fall back as well but the name of the block does not.             *)
(*                                                                         *)
(* CoinsViewCache implements this with three layers and flag bits.         *)
(***************************************************************************)
CONSTANTS
  Txid,       \* transaction ids
  Coins,      \* contents of a CCoins with at least one unspent output
  Pruned,     \* a CCoins without unspent outputs, or no CCoins at all
  Block,      \* block hashes
  NullHash    \* uint256(0): no block yet

VARIABLES
  durable,    \* [coins, best]: what a restart finds
  current,    \* [coins, best]: the chain state of the running node
  writing,    \* the writer is at work
  pending     \* its private copy of the coins

vars == <<durable, current, writing, pending>>

Value == Coins \cup {Pruned}

Init ==
  /\ durable = [coins |-> [t \in Txid |-> Pruned], best |-> NullHash]
  /\ current = durable
  /\ writing = FALSE
  /\ pending = current.coins

Begin ==
  /\ ~writing
  /\ writing' = TRUE
  /\ UNCHANGED <<durable, current, pending>>

Write(t, c) ==
  /\ writing
  /\ pending' = [pending EXCEPT ![t] = c]
  /\ UNCHANGED <<durable, current, writing>>

Commit(b) ==
  /\ writing
  /\ current' = [coins |-> pending, best |-> b]
  /\ writing' = FALSE
  /\ UNCHANGED <<durable, pending>>

Abort ==
  /\ writing
  /\ writing' = FALSE
  /\ pending' = current.coins
  /\ UNCHANGED <<durable, current>>

Sync ==
  /\ ~writing
  /\ durable' = current
  /\ UNCHANGED <<current, writing, pending>>

SyncFails ==
  /\ ~writing
  /\ current' = [coins |-> durable.coins, best |-> current.best]
  /\ pending' = durable.coins
  /\ UNCHANGED <<durable, writing>>

Crash ==
  /\ current' = durable
  /\ writing' = FALSE
  /\ pending' = durable.coins
  /\ UNCHANGED durable

Next ==
  \/ Begin
  \/ \E t \in Txid, c \in Value : Write(t, c)
  \/ \E b \in Block : Commit(b)
  \/ Abort
  \/ Sync
  \/ SyncFails
  \/ Crash

Spec == Init /\ [][Next]_vars
=============================================================================
