----------------------------- MODULE MCEventBus -----------------------------
(* Finite instances of EventBus for TLC.                                   *)
EXTENDS EventBus

CONSTANTS p1, p2
=============================================================================
