------------------------------ MODULE MCPaying ------------------------------
(***************************************************************************)
(* The ways an order is paid, for TLC: pay commands on one link, the calls *)
(* on the locked state file, and SendFlow for a native coin with its price *)
(* lock and for a Bitrefill invoice with its expiry (an instance each; the *)
(* stablecoin order has a run of its own), and a stablecoin order whose    *)
(* calls take the steps of the lock.  A behaviour is of one kind and       *)
(* leaves the variables of the others alone.                               *)
(***************************************************************************)
EXTENDS MCLockedStore, PayCommand

CONSTANTS c1, c2

VARIABLES kind, rnow, rintent, rstore, rcreator, rconfirmed,
          rsender, rtx, rsent, rclosedAt, rfundedAt,
          rlock, rstale, rwpc, roverdue, rentries, rstealers, rstalled, rseen, rstep

rlockVars == <<rlock, rstale, rwpc, roverdue, rentries, rstealers, rstalled, rseen, rstep>>
routeVars == <<rnow, rintent, rstore, rcreator, rconfirmed,
               rsender, rtx, rsent, rclosedAt, rfundedAt, rlockVars>>
payingVars == <<kind, vars, payVars, routeVars>>

PayingSymmetry == Permutations({c1, c2}) \cup Permutations({a1, a2})

TxOfOne == [s \in {p1} |-> s]

(* One invocation creates the native order: two at once may write its lock *)
(* in either order (run order_native_race).                                *)
Native == INSTANCE SendFlow WITH
  Kind <- "native", Creators <- {p1}, NewMargin <- 2,
  Senders <- {p1}, TxOf <- TxOfOne,
  Addresses <- {"deposit"}, Amounts <- {5}, Others <- {1}, Blacklisted <- {},
  InvoiceUsd <- {1100}, Deadline <- 4, Margin <- 2, Locks <- {3, 4},
  MaxTime <- 4, MaxGap <- 1,
  now <- rnow, intent <- rintent, store <- rstore, creator <- rcreator,
  confirmed <- rconfirmed, sender <- rsender, tx <- rtx, sent <- rsent,
  closedAt <- rclosedAt, fundedAt <- rfundedAt

(* Two invocations create and resume the Bitrefill invoice. *)
Bitrefill == INSTANCE SendFlow WITH
  Kind <- "bitrefill", Creators <- {p1, p2}, NewMargin <- 2,
  Senders <- {p1}, TxOf <- TxOfOne,
  Addresses <- {"deposit"}, Amounts <- {5}, Others <- {1}, Blacklisted <- {},
  InvoiceUsd <- {1100}, Deadline <- 4, Margin <- 2, Locks <- {3, 4},
  MaxTime <- 3, MaxGap <- 1,
  now <- rnow, intent <- rintent, store <- rstore, creator <- rcreator,
  confirmed <- rconfirmed, sender <- rsender, tx <- rtx, sent <- rsent,
  closedAt <- rclosedAt, fundedAt <- rfundedAt

(* A stablecoin order with its calls inside the lock: one creator and one  *)
(* sender, which may die inside a call, or stall there.  No removal of the  *)
(* lock file is refused here (LockedFlowProofs covers that).               *)
Payers == {p1, p2}
Locked(mayDie, mayStall) == INSTANCE LockedFlow WITH
  Kind <- "stable", Creators <- {p1}, NewMargin <- 2,
  Senders <- {p2}, TxOf <- [s \in {p2} |-> s],
  Addresses <- {"deposit"}, Amounts <- {5}, Others <- {1}, Blacklisted <- {},
  InvoiceUsd <- {1100}, Deadline <- 4, Margin <- 2, Locks <- {},
  MaxTime <- 0, MaxGap <- 1,
  Procs <- Payers, MaxEntries <- 3,
  MayCrash <- mayDie, MayStall <- mayStall, MayRefuse <- FALSE,
  now <- rnow, intent <- rintent, store <- rstore, creator <- rcreator,
  confirmed <- rconfirmed, sender <- rsender, tx <- rtx, sent <- rsent,
  closedAt <- rclosedAt, fundedAt <- rfundedAt,
  lock <- rlock, stale <- rstale, wpc <- rwpc, overdue <- roverdue,
  entries <- rentries, stealers <- rstealers, stalled <- rstalled,
  seen <- rseen, step <- rstep

InitPaying ==
  /\ kind \in {"commands", "calls", "native", "bitrefill", "dying", "stalling"}
  /\ Init
  /\ InitPay
  /\ CASE kind = "native"    -> Native!InitFlow
       [] kind = "bitrefill" -> Bitrefill!InitFlow
       [] OTHER              -> Locked(TRUE, FALSE)!InitFlow
  /\ Locked(TRUE, FALSE)!LockInit
  /\ Locked(TRUE, FALSE)!InitCalls

NextPaying ==
  \/ kind = "commands"  /\ NextPay  /\ UNCHANGED <<kind, vars, routeVars>>
  \/ kind = "calls"     /\ Next     /\ UNCHANGED <<kind, payVars, routeVars>>
  \/ kind = "native"    /\ Native!NextFlow    /\ UNCHANGED <<kind, vars, payVars, rlockVars>>
  \/ kind = "bitrefill" /\ Bitrefill!NextFlow /\ UNCHANGED <<kind, vars, payVars, rlockVars>>
  \/ /\ \/ kind = "dying"    /\ Locked(TRUE, FALSE)!NextLockedFlow
        \/ kind = "stalling" /\ Locked(FALSE, TRUE)!NextLockedFlow
     /\ UNCHANGED <<kind, vars, payVars>>

SpecPaying == InitPaying /\ [][NextPaying]_payingVars

------------------------------------------------------------------------------
(* SendFlow's properties, of the kinds of order that have them.            *)

(* A transfer leaves before the link's deadline and before every price     *)
(* lock confirmed when its run began; a Bitrefill one before the invoice   *)
(* expires (recordConfirmation, checkBitrefillExpiry).                     *)
SentInTime ==
  /\ kind = "native"    => Native!SentInTime
  /\ kind = "bitrefill" => Bitrefill!SentInTime

(* A link used up, or a Bitrefill invoice funded, by someone else is not   *)
(* paid later than the gap after the last gate (finalPayabilityCheck,      *)
(* ORDER_ALREADY_FUNDED).                                                  *)
NotAfterAnotherPayer ==
  /\ kind = "native"    => Native!NotAfterAnotherPayer
  /\ kind = "bitrefill" => Bitrefill!NotAfterAnotherPayer

(* Until a reclaim of the lock is raced, the calls of a paying run and of  *)
(* the run that creates its order act as if each were a single step        *)
(* (recordSendResult: "no writer can ever read a stale copy and write back *)
(* over another writer's change").                                         *)
CallsAsAtomic ==
  [][/\ kind = "dying"    => Locked(TRUE, FALSE)!ActsAtomically
     /\ kind = "stalling" => Locked(FALSE, TRUE)!ActsAtomically]_payingVars

(* LockKept, ExpiryKept: the price lock kept for a native order moves only *)
(* earlier over runs that follow one another (priceLockFor), and the       *)
(* expiry kept for a Bitrefill invoice however resumes interleave          *)
(* (mergeBitrefill).                                                       *)
DeadlinesKept ==
  [][/\ kind = "native"    => Native!LockKept
     /\ kind = "bitrefill" => Bitrefill!ExpiryKept]_payingVars
=============================================================================
