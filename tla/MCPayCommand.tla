----------------------------- MODULE MCPayCommand -----------------------------
(* Instances of PayCommand small enough for TLC. *)
EXTENDS PayCommand, TLC

CONSTANTS c1, c2, a1, a2

CommandSymmetry == Permutations({c1, c2}) \cup Permutations({a1, a2})
===============================================================================
