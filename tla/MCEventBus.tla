----------------------------- MODULE MCEventBus -----------------------------
(***************************************************************************)
(* An instance of EventBus for TLC.                                        *)
(***************************************************************************)
EXTENDS EventBusInv

OneTopic == [m \in Msg |-> CHOOSE t \in Topic : TRUE]
=============================================================================
