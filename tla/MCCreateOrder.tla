---------------------------- MODULE MCCreateOrder ----------------------------
(* Instances of CreateOrder for TLC. *)
EXTENDS CreateOrder
CONSTANTS c1, c2, a1, a2
==============================================================================
