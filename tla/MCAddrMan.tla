------------------------------ MODULE MCAddrMan ------------------------------
(* Addresses that meet in the slots of two new buckets and in one tried slot. *)
EXTENDS AddrMan, TLC

CONSTANTS a1, a2, a3, s1, s2

MCNewBucketOf == a1 :> (s1 :> 0 @@ s2 :> 1) @@ a2 :> (s1 :> 0 @@ s2 :> 1)
                   @@ a3 :> (s1 :> 1 @@ s2 :> 0)
MCNewPosition == a1 :> (0 :> 0 @@ 1 :> 0) @@ a2 :> (0 :> 1 @@ 1 :> 0)
                   @@ a3 :> (0 :> 0 @@ 1 :> 1)
MCTriedSlot == a1 :> 0 @@ a2 :> 0 @@ a3 :> 1
=============================================================================
