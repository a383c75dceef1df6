------------------------- MODULE MCChainActivation -------------------------
(***************************************************************************)
(* Two branches over the genesis block: a1 a2, and b1 b2 b3, so that the   *)
(* longer branch first costs work (b1 against a2) before it gains any.     *)
(***************************************************************************)
EXTENDS ChainActivation, TLC

CONSTANTS g, a1, a2, b1, b2, b3, t1, t2

MCBlock == {g, a1, a2, b1, b2, b3}
MCPrev == a1 :> g @@ a2 :> a1 @@ b1 :> g @@ b2 :> b1 @@ b3 :> b2
MCWork == g :> 0 @@ a1 :> 1 @@ a2 :> 2 @@ b1 :> 1 @@ b2 :> 2 @@ b3 :> 3
MCAddr == g :> 1 @@ a1 :> 5 @@ a2 :> 2 @@ b1 :> 3 @@ b2 :> 6 @@ b3 :> 4

Blocks == MCBlock \ {g}

\* Two threads reorganise to a branch whose second block turns out to be invalid, and an
\* operator invalidates blocks
MCReorg ==
  {[arriving |-> Blocks, badBody |-> {}, badConnect |-> {b2}, checkpointed |-> {},
    ops |-> {"invalidate"}]}

\* The node is killed at any step; or, on the tree without b3, an operator invalidates and
\* reconsiders blocks, and completed locks replay them
MCFaults ==
  {[arriving |-> Blocks, badBody |-> {a2}, badConnect |-> {b3}, checkpointed |-> {}, ops |-> {"crash"}],
   [arriving |-> Blocks \ {b3}, badBody |-> {}, badConnect |-> {b2}, checkpointed |-> {b1},
    ops |-> {"invalidate", "reconsider", "replay"}]}

ThreadSymmetry == Permutations({t1, t2})

\* The copy on disk does not matter where the node is never restarted
NoDisk ==
  <<index, flags, candidates, tip, locks, threads, job, scenario,
    IF "crash" \in scenario.ops THEN disk ELSE Snapshot(Genesis)>>
=============================================================================
