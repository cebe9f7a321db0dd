---------------------------- MODULE MCCrossShard ----------------------------
(***************************************************************************)
(* Instances of CrossShard for TLC.                                        *)
(***************************************************************************)
EXTENDS CrossShardInv, TLC
=============================================================================
