------------------------------ MODULE MCStatus ------------------------------
(* Instances of OrderStatus for TLC: an order of every kind. *)
EXTENDS OrderStatus
MCOrder(family, v3, here, kept, lock) ==
  [bitrefill |-> FALSE, family |-> family, v3 |-> v3, here |-> here,
   kept |-> kept, lock |-> lock, expiresAt |-> 3, linkExpiry |-> 3]
MCStable == MCOrder("stable", TRUE, TRUE, None, None)
MCOrders ==
  {MCStable,
   MCOrder("native", FALSE, TRUE, 2, 3),
   MCOrder("zec", TRUE, TRUE, None, 2),
   MCOrder("lightning", FALSE, FALSE, None, None),
   [MCOrder("stable", TRUE, TRUE, 2, 3) EXCEPT !.bitrefill = TRUE]}
=============================================================================
