------------------------------ MODULE MCSwiftTX ------------------------------
(* Instances of SwiftTX for TLC: two transactions that spend the same input, and one of *)
(* them another input too. *)
EXTENDS SwiftTX, TLC

CONSTANTS t1, t2, i1, i2

MCIns == t1 :> {i1} @@ t2 :> {i1, i2}
=============================================================================
