------------------------------ MODULE MCStateDB ------------------------------
(***************************************************************************)
(* Instances of StateDB for TLC.                                           *)
(***************************************************************************)
EXTENDS StateDBInv, TLC
=============================================================================
