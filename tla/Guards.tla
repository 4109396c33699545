------------------------------- MODULE Guards -------------------------------
(***************************************************************************)
(* What the backend's answers are taken to mean: scripts/src/lib/guards.mjs *)
(* with lib/zec.mjs and lib/amounts.mjs.  A payment is what payments/<id>  *)
(* (or invoice-status, in part) reports of one order:                      *)
(*   status     the intent's status, or None                               *)
(*   received   how amountReceived compares with amount                    *)
(*   hash, confirmed   source.txHash and source.confirmedAt are there      *)
(*   zec        the source.zec block of a Zcash order, or None             *)
(*   ready      the deposit instructions are complete                      *)
(*   expiresAt, quote  the intent's deadline and the live price lock       *)
(*   payout     destination.txHash is there                                *)
(* Evidence arrives field by field, so that any combination may be read.   *)
(***************************************************************************)
EXTENDS Deadlines

Families == {"stable", "native", "lightning", "zec"}

Status == {"unpaid", "started", "payin_completed", "bridging", "payout_started",
           "payout_completed", "completed", "expired", "bounced", "refunded", "other"}

Received == {"absent", "zero", "underpaid", "exact", "overpaid", "unreadable"}

PayinStates == {"awaiting", "seen", "confirming", "eligible", "expired", "reorged", None}

ZecBlock == [receive : {"shielded", "transparent", None}, payin : PayinStates, zat : BOOLEAN]

RouterStatus == {None, "payin_seen", "paying", "paid", "failed"}

(* An answer that carries no payment: the fields a missing object reads as. *)
NoPayment ==
  [status |-> None, received |-> "absent", hash |-> FALSE, confirmed |-> FALSE,
   zec |-> None, ready |-> FALSE, expiresAt |-> None, quote |-> None, payout |-> FALSE]

------------------------------------------------------------------------------
(* Money. *)

(* receiptSignal fails closed: an amount that cannot be read is money. *)
ReceiptSeen(p) == p.received \notin {"absent", "zero"}

MoneySeen(p) == p.hash \/ p.confirmed \/ ReceiptSeen(p)

(* zecMoneySeen: the custody rail reports a sighting before any other      *)
(* field is filled in; a state it does not name fails closed.              *)
ZecMoneySeen(zec) ==
  /\ zec # None
  /\ zec.payin \in {"seen", "confirming", "eligible", None} \/ zec.zat

------------------------------------------------------------------------------
(***************************************************************************)
(* reuseGuard: may an existing order be paid?  Money outranks everything,  *)
(* then the status, the coin that was asked for, and whether the deposit   *)
(* can be paid as it stands.                                               *)
(***************************************************************************)
ZecReceives(zec, shielded) ==
  /\ zec # None
  /\ zec.receive = IF shielded THEN "shielded" ELSE "transparent"

Guarded(code, money) == [code |-> code, money |-> money]

ReuseGuard(p, family, requested) ==
  IF MoneySeen(p) \/ (family = "zec" /\ ZecMoneySeen(p.zec))
    THEN Guarded("ORDER_ALREADY_FUNDED", TRUE)
  ELSE IF p.status \in {"expired", "bounced", "refunded"}
    THEN Guarded("ORDER_NOT_PAYABLE", FALSE)
  ELSE IF p.status # "unpaid" THEN Guarded("ORDER_ALREADY_FUNDED", TRUE)
  ELSE IF family # requested.family THEN Guarded("REUSED_SOURCE_MISMATCH", FALSE)
  ELSE IF family = "zec" /\ ~ZecReceives(p.zec, requested.shielded)
    THEN Guarded("ZEC_RECEIVE_MODE_MISMATCH", FALSE)
  ELSE IF family = "zec" /\ p.zec.payin \in {"expired", "reorged"}
    THEN Guarded("ZEC_QUOTE_EXPIRED", FALSE)
  ELSE IF ~p.ready THEN Guarded("DEPOSIT_INCOMPLETE", FALSE)
  ELSE Guarded(None, FALSE)

(***************************************************************************)
(* checkPayable: the Coinbase resource, as invoice-status reports it, must *)
(* prove that it still takes a payment.  A v3 session by its status, a v1  *)
(* link by its usage count; what is missing proves nothing.                *)
(***************************************************************************)
Session == {"CREATED", "COMPLETED", None}
Coinbase == [v3 : BOOLEAN, settled : BOOLEAN, session : Session,
             usage : {0, 1, None}, max : {1, None}, expiry : Nat \cup {None}]

CheckPayable(cb) ==
  IF cb = None THEN "LINK_NO_LONGER_PAYABLE"
  ELSE LET known == IF cb.v3 THEN cb.session # None ELSE None \notin {cb.usage, cb.max}
           open  == IF cb.v3 THEN cb.session = "CREATED" ELSE cb.usage < cb.max
       IN CASE cb.settled                           -> "LINK_NO_LONGER_PAYABLE"
            [] ~cb.settled /\ ~known                -> "LINK_PAYABILITY_UNKNOWN"
            [] ~cb.settled /\ known /\ ~open        -> "LINK_NO_LONGER_PAYABLE"
            [] OTHER                                -> None

------------------------------------------------------------------------------
(***************************************************************************)
(* classifyStatus: one state for the whole order, from the intent (or an   *)
(* empty answer), the router's fulfilment and the Coinbase resource.       *)
(***************************************************************************)
State(state, flags) == [state |-> state, flags |-> flags]

Progressed == {"payin_completed", "bridging", "payout_started", "payout_completed", "completed"}

(* The last resort of the chain: what each intent status alone says. *)
StateOfStatus(p, router, money, now) ==
  CASE p.status = "unpaid" ->
         IF money THEN State("payin_detected", {})
         ELSE IF p.expiresAt # None /\ p.expiresAt < now
                THEN State("expired_unfunded", {"terminal"})
         ELSE State("awaiting_deposit", {})
    [] p.status = "started" -> State("payin_detected", {})
    [] p.status = "payin_completed" -> State("payin_confirmed", {})
    [] p.status \in {"bridging", "payout_started"} -> State("bridging", {})
    [] p.status = "payout_completed" ->
         State(IF router = "paying" THEN "paying_coinbase" ELSE "bridging", {})
    [] p.status = "completed" -> State("paying_coinbase", {})
    [] p.status = "expired" ->
         IF money THEN State("stuck_after_payment", {"escalate"})
                  ELSE State("expired_unfunded", {"terminal"})
    [] p.status \in {"bounced", "refunded"} -> State("stuck_after_payment", {"escalate"})
    [] p.status \in {"other", None} ->
         CASE router = "payin_seen" -> State("payin_confirmed", {})
           [] router = "paying"     -> State("paying_coinbase", {})
           [] OTHER -> IF money THEN State("stuck_after_payment", {"escalate"})
                                ELSE State("unknown", {"unknown"})

(* Mutant: the intents-side completion is taken for the payout. *)
ClassifyStatusEarly(p, family, router, cb, viewsFailed, bitrefill, now) ==
  IF bitrefill /\ p.status \in {"completed", "payout_completed", "payout_started"}
    THEN State("settled", {"terminal"})
    ELSE StateOfStatus(p, router, MoneySeen(p), now)

ClassifyStatus(p, family, router, cb, viewsFailed, bitrefill, now) ==
  LET money   == MoneySeen(p)
      settled == cb # None /\ cb.settled
      accepted == family = "native" /\ p.status \in Progressed
  IN
  IF viewsFailed \/ (p.status = None /\ router = None /\ cb = None)
    THEN State("unknown", {"unknown"})
  ELSE IF p.received = "unreadable" THEN State("stuck_after_payment", {"escalate"})
  ELSE IF router = "failed" THEN State("stuck_after_payment", {"escalate"})
  ELSE IF ~bitrefill /\ (router = "paid" \/ settled) THEN State("settled", {"terminal"})
  ELSE IF p.received = "underpaid" /\ ~accepted THEN State("underpaid", {"escalate"})
  ELSE IF p.received = "overpaid" THEN State("payin_detected", {"escalate"})
  ELSE IF bitrefill /\ (p.status = "payout_completed" \/ (p.status = "completed" /\ p.payout))
    THEN State("settled", {"terminal"})
  ELSE IF bitrefill /\ p.status = "completed" THEN State("bridging", {})
  ELSE StateOfStatus(p, router, money, now)
=============================================================================
