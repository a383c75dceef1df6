-------------------------- MODULE MCMasternodeSync --------------------------
(* Instances of MasternodeSync for TLC. *)
EXTENDS MasternodeSync, TLC

CONSTANT h1

MCItem == {<<"list", h1>>}
=============================================================================
