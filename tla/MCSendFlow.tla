------------------------------ MODULE MCSendFlow ------------------------------
(* Instances of SendFlow for TLC. *)
EXTENDS SendFlow, TLC
CONSTANTS c1, c2, s1, s2, a1, a2
MCTxOf == [s \in Senders |-> s]
MCSymmetry == Permutations({s1, s2})
==============================================================================
