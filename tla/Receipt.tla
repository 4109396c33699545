------------------------------- MODULE Receipt -------------------------------
(***************************************************************************)
(* What a command tells its caller about an order: scripts/src/lib/        *)
(* receipt.mjs, and the guidance of status.mjs and resume.mjs.  A result   *)
(* is what one snapshot of status.mjs returns:                             *)
(*   bitrefill      the order's provider                                   *)
(*   authoritative  the intent itself was read                             *)
(*   state, flags   the classified state: terminal, escalate, unknown      *)
(*   money          a pay-in was seen                                      *)
(*   router, settled   routerState, and coinbase.settled or None           *)
(*   localSend      this machine has recorded a send, or cannot tell       *)
(*   window         None when the order can be paid in time, why not, or   *)
(*                  Absent when that was not asked                         *)
(*   expiresAt, quote, confirmed   of the pay-in                           *)
(***************************************************************************)
EXTENDS Guards

Processing == {"payin_detected", "payin_confirmed", "bridging", "paying_coinbase"}
Expired    == {"expired_unfunded", "invoice_expired"}

(* STATE_TO_OUTCOME *)
OutcomeOf(state) ==
  CASE state = "awaiting_deposit"   -> "awaiting_payment"
    [] state \in Processing         -> "processing"
    [] state = "settled"            -> "settled"
    [] state \in Expired            -> "expired_unfunded"
    [] state \in {"deadline_unknown", "underpaid", "stuck_after_payment"} -> "needs_attention"
    [] state = "unknown"            -> "unknown"

(* merchantSettlementProved: by the merchant-side resource itself. *)
MerchantSettled(r) ==
  IF r.bitrefill THEN r.state = "settled" ELSE r.settled = TRUE

(* paymentOutcomeFor: a partial view, money or a local send is never a     *)
(* clean answer.                                                           *)
PaymentOutcome(r) ==
  LET outcome == OutcomeOf(r.state)
      settled == outcome = "settled"
  IN
  IF "escalate" \in r.flags THEN "needs_attention"
  ELSE IF "unknown" \in r.flags THEN "unknown"
  ELSE IF settled /\ ~MerchantSettled(r) THEN "processing"
  ELSE IF settled /\ ~r.bitrefill /\ r.router = "failed" THEN "needs_attention"
  ELSE IF settled /\ ~r.bitrefill /\ r.router \notin {None, "paid"} THEN "processing"
  ELSE IF ~r.authoritative /\ outcome \in {"awaiting_payment", "expired_unfunded"}
    THEN "unknown"
  ELSE IF (r.money \/ r.localSend) /\ outcome = "expired_unfunded" THEN "needs_attention"
  ELSE IF r.money /\ outcome = "awaiting_payment" THEN "processing"
  ELSE outcome

(* nextActionFor: what the caller may do.  "send" permits moving money,    *)
(* "create" a new order for the same link.                                 *)
Do(type, permits) == [type |-> type, permits |-> permits]

(* Mutant: this machine's own send is not looked at. *)
NextActionUnlocked(r, outcome) ==
  IF outcome = "awaiting_payment" /\ ~r.money /\ r.window = None THEN Do("pay", {"send"})
                                  ELSE Do("check_status", {})

NextAction(r, outcome) ==
  LET locked == r.money \/ r.localSend IN
  CASE outcome = "awaiting_payment" ->
         (CASE locked \/ r.window \in {Absent, "EXPIRED", "EXPIRY_MARGIN"} -> Do("check_status", {})
            [] ~locked /\ r.window = "LINK_NO_LONGER_PAYABLE" -> Do("request_new_invoice", {})
            [] ~locked /\ r.window = None -> Do("pay", {"send"})
            [] OTHER -> Do("check_status", {}))
    [] outcome = "processing" -> Do("check_status", {})
    [] outcome = "settled" -> Do("none", {})
    [] outcome = "expired_unfunded" ->
         IF r.bitrefill THEN Do("request_new_invoice", {})
                        ELSE Do("choose_method", {"create"})
    [] outcome = "needs_attention" ->
         IF r.state = "deadline_unknown" /\ ~locked
           THEN Do("request_new_invoice", {}) ELSE Do("contact_support", {})
    [] outcome = "unknown" -> Do("check_status", {})

(* merchantSettlementLayer of a receipt. *)
MerchantLayer(r) ==
  IF r.bitrefill
    THEN IF r.state = "settled" THEN "confirmed"
         ELSE IF "unknown" \in r.flags THEN "unknown" ELSE "pending"
    ELSE CASE r.router = "failed" -> "unknown"
           [] r.router # "failed" /\ r.settled = TRUE -> "confirmed"
           [] r.router # "failed" /\ r.settled = None ->
                IF r.router = "paid" \/ "unknown" \in r.flags THEN "unknown" ELSE "pending"
           [] OTHER -> "pending"

------------------------------------------------------------------------------
(* Mutant: any order that waits for its deposit is resumed. *)
ResumeAwaiting(r) == IF r.state = "awaiting_deposit" THEN None ELSE "ORDER_NOT_RESUMABLE"

(* resumeVerdict: None when the order can be resumed. *)
ResumeVerdict(r) ==
  IF "escalate" \in r.flags THEN "ORDER_NEEDS_ATTENTION"
  ELSE IF "unknown" \in r.flags \/ ~r.authoritative THEN "ORDER_STATE_UNKNOWN"
  ELSE IF r.money \/ r.state \in Processing \cup {"settled"} THEN "ORDER_ALREADY_PAID"
  ELSE IF r.state \in Expired THEN "ORDER_EXPIRED"
  ELSE IF r.localSend THEN "ALREADY_SENT"
  ELSE IF r.state # "awaiting_deposit" THEN "ORDER_NOT_RESUMABLE"
  ELSE IF r.window # None THEN "SEND_WINDOW_CLOSED"
  ELSE None
=============================================================================
