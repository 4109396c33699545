---------------------------- MODULE MCLockedStore ----------------------------
(* Instances of LockedStore for TLC. *)
EXTENDS LockedStore, TLC
CONSTANTS p1, p2, p3, a1, a2
MCDeposits == Deposit({a1, a2}, {5}, {1})
MCDepositsOne == Deposit({a1}, {5}, {1})
MCFields == {[invoiceAmount |-> 1100, quoteExpiresAt |-> 3, invoiceExpiry |-> None]}
MCTxOf == [p \in Procs |-> p]
Symmetry3 == Permutations({p1, p2, p3})
==============================================================================
