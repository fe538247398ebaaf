-------------------------- MODULE MCSessionControl --------------------------
(* Finite instances of SessionControl for TLC.                             *)
EXTENDS SessionControl

CONSTANTS o1, o2, o3, single, batch

\* A CreateOrder of one order and a CreateOrders of two others.
MCLegs == [r \in Requests |-> IF r = single THEN {o1} ELSE {o2, o3}]
=============================================================================
