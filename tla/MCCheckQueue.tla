---------------------------- MODULE MCCheckQueue ----------------------------
(* CheckQueue with two workers and four checks per block, two blocks.      *)
EXTENDS CheckQueue, TLC
=============================================================================
