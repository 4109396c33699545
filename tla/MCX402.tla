------------------------------- MODULE MCX402 -------------------------------
(* Instances of X402 for TLC. *)
EXTENDS X402
CONSTANTS p1, p2, i1, i2, k1, k2
MCOption(amount, payTo, payable) == [amount |-> amount, payTo |-> payTo, payable |-> payable]
MCChallenges ==
  {{MCOption(1, "seller", TRUE)},
   {MCOption(2, "seller", TRUE), MCOption(3, "seller", TRUE)},
   {MCOption(1, "seller", FALSE), MCOption(2, "thief", TRUE)}}
MCBudget == [p \in Payers |-> IF p = p1 THEN 2 ELSE 1]
=============================================================================
