------------------------------ MODULE Deadlines ------------------------------
(***************************************************************************)
(* The deadline rules of scripts/src/lib/expiry.mjs: when an order may     *)
(* still be shown as payable or paid, and for how long a command watches   *)
(* it.  A deadline is a time, or None when it is missing or unreadable;    *)
(* Absent is the argument a caller leaves out.                             *)
(***************************************************************************)
EXTENDS Integers, FiniteSetsExt

CONSTANTS
  None, Absent,
  Margin,          \* marginFor: the chain's safety margin
  Bolt11Validity,  \* BOLT11_MIN_VALIDITY_MS
  DefaultWatch,    \* DEFAULT_WATCH_MS
  WatchCap         \* LIGHTNING_WATCH_CAP_MS

ASSUME DeadlinesAssumption ==
  /\ {Margin, Bolt11Validity, DefaultWatch, WatchCap} \subseteq Nat
  /\ None # Absent
  /\ {None, Absent} \cap Int = {}

------------------------------------------------------------------------------
(* The earliest deadline that is known (earliestExpiry). *)
Earliest(deadlines) ==
  LET known == deadlines \ {None, Absent}
  IN IF known = {} THEN None ELSE Min(known)

(* Mutant: the live lock alone, when there is one. *)
LiveLockFirst(native, live, others) ==
  IF ~native THEN Absent
  ELSE IF live # None THEN live ELSE Earliest(others)

(* priceLockFor: a native order is held to the earliest lock known, and    *)
(* None is a refusal; for any other coin no lock applies.                  *)
PriceLockFor(native, live, others) ==
  IF native THEN Earliest({live} \cup others) ELSE Absent

(***************************************************************************)
(* checkExpiry: "code" is None when the order may still be paid, and       *)
(* "deadline" the earliest of its deadlines.  BOLT11 validity is a gate of *)
(* its own.                                                                *)
(***************************************************************************)
Judged(code, deadline) == [code |-> code, deadline |-> deadline]

CheckExpiry(now, intent, coinbase, bolt11, quote) ==
  LET deadline  == Earliest({intent, coinbase, quote})
      remaining == deadline - now
      lockBinds == quote \in Nat /\ quote = deadline
  IN
  IF None \in {intent, coinbase, quote} THEN Judged("EXPIRY_UNPARSABLE", None)
  ELSE Judged(
    CASE remaining <= 0 -> IF lockBinds THEN "QUOTE_EXPIRED" ELSE "EXPIRED"
      [] remaining \in 1..Margin ->
           IF lockBinds THEN "QUOTE_EXPIRY_MARGIN" ELSE "EXPIRY_MARGIN"
      [] remaining > Margin /\ bolt11 = None -> "EXPIRY_UNPARSABLE"
      [] remaining > Margin /\ bolt11 \in Nat ->
           IF bolt11 - now < Bolt11Validity THEN "BOLT11_TOO_SHORT" ELSE None
      [] OTHER -> None,
    deadline)

------------------------------------------------------------------------------
(* lightningWatchMs: as long as the deadline can still be met, at most the *)
(* cap; an unknown or past one falls back to the default.                  *)
WatchUntil(now, deadline, fallback) ==
  IF deadline = None THEN fallback
  ELSE IF deadline <= now THEN fallback
  ELSE Min({deadline - now, WatchCap})

(* watchTimeoutMs: an explicit --timeout wins; a Lightning order is watched *)
(* while its invoice can be paid, a native or ZEC one while its lock lasts. *)
WatchTimeout(now, explicit, lightning, expiresAt, quote) ==
  IF explicit # None THEN explicit
  ELSE IF lightning THEN WatchUntil(now, expiresAt, DefaultWatch)
  ELSE IF quote \in Nat THEN WatchUntil(now, quote, DefaultWatch)
  ELSE DefaultWatch
==============================================================================
