----------------------------- MODULE OrderStatus -----------------------------
(***************************************************************************)
(* Asking what became of one order: scripts/src/status.mjs (once, or       *)
(* --watch), receipt.mjs and resume.mjs.  A command takes one step per     *)
(* answer it awaits; the answer may be lost, and between any two steps the *)
(* backend learns of the payment field by field, this machine sends or     *)
(* loses its record, someone else uses up the link, and the clock runs.    *)
(***************************************************************************)
EXTENDS Receipt, SequencesExt

CONSTANTS
  Orders,    \* the orders asked about
  Timeouts,  \* --timeout values of a watch, None when left out
  Locks,     \* bound: price locks the backend may move to
  Receipts,  \* bound: amounts received that the backend may report
  Statuses,  \* bound: statuses an intent may move to, besides expired
  MaxTime,   \* bound: the clock stops here
  MaxStart,  \* bound: a command starts no later
  MaxMoves   \* bound: changes of the world

(* What is fixed about an order.  "kept" is the deadline this machine       *)
(* recorded with it (the price lock of a native coin, the expiry of a      *)
(* Bitrefill invoice), None without one; "here" is FALSE when it has no    *)
(* record of the order at all.                                             *)
OrderType ==
  [bitrefill : BOOLEAN, family : Families, v3 : BOOLEAN, here : BOOLEAN,
   kept : Nat \cup {None}, lock : Nat \cup {None}, expiresAt : Nat, linkExpiry : Nat]

ASSUME OrderStatusAssumption ==
  /\ Orders \subseteq OrderType
  /\ Locks \subseteq Nat
  /\ Receipts \subseteq Received \ {"absent", "zero"}
  /\ Statuses \subseteq Status
  /\ Timeouts \subseteq Nat \cup {None}
  /\ {MaxTime, MaxStart, MaxMoves} \subseteq Nat
  /\ \A o \in Orders : o.kept # None => o.here /\ (o.bitrefill \/ o.family = "native")
  /\ None \notin BOOLEAN /\ None \notin Status \cup {"awaiting"} /\ None \notin ZecBlock
  /\ None \notin  \* any code of a refusal
       {"EXPIRY_UNPARSABLE", "EXPIRED", "QUOTE_EXPIRED", "EXPIRY_MARGIN",
        "QUOTE_EXPIRY_MARGIN", "BOLT11_TOO_SHORT", "LINK_NO_LONGER_PAYABLE",
        "LINK_PAYABILITY_UNKNOWN", "ORDER_ALREADY_FUNDED", "ORDER_NOT_PAYABLE",
        "REUSED_SOURCE_MISMATCH", "ZEC_RECEIVE_MODE_MISMATCH", "ZEC_QUOTE_EXPIRED",
        "DEPOSIT_INCOMPLETE", "ORDER_NEEDS_ATTENTION", "ORDER_STATE_UNKNOWN",
        "ORDER_ALREADY_PAID", "ORDER_EXPIRED", "ALREADY_SENT", "ORDER_NOT_RESUMABLE",
        "SEND_WINDOW_CLOSED"}

VARIABLES
  now,       \* the clock
  order,     \* the order asked about
  payment,   \* payments/<id>
  router,    \* invoice-status: routerState
  coinbase,  \* invoice-status: the Coinbase resource, None for Bitrefill
  local,     \* this machine's record of the order
  usedBy,    \* history: who used up the Coinbase link
  moves,     \* bound: changes of the world so far
  reader     \* the command

worldVars == <<order, payment, router, coinbase, local, usedBy, moves>>
statusVars == <<now, worldVars, reader>>

PaymentType ==
  [status : Status \cup {None}, received : Received, hash : BOOLEAN, confirmed : BOOLEAN,
   zec : ZecBlock \cup {None}, ready : BOOLEAN, expiresAt : Nat \cup {None},
   quote : Nat \cup {None}, payout : BOOLEAN]

ViewType == [payment : PaymentType, router : RouterStatus, coinbase : Coinbase \cup {None}]

ReaderStep == {"idle", "provider", "status", "payment", "judge", "sleep", "fresh", "show", "done"}

(* "asked" is history: whether, when its latest snapshot began, the        *)
(* backend already reported money or this machine had recorded a send.     *)
Idle == [at |-> "idle", cmd |-> None, byId |-> FALSE, named |-> FALSE, timeout |-> None,
         started |-> None, bitrefill |-> FALSE, payment |-> None, view |-> None,
         result |-> None, until |-> None, wake |-> None, asked |-> FALSE, shown |-> FALSE]

InitStatus ==
  /\ now = 0
  /\ order \in Orders
  /\ \E ready \in BOOLEAN :
       payment = [NoPayment EXCEPT !.status = "unpaid", !.ready = ready,
                    !.expiresAt = order.expiresAt, !.quote = order.lock,
                    !.zec = IF order.family = "zec"
                              THEN [receive |-> "shielded", payin |-> "awaiting", zat |-> FALSE]
                              ELSE None]
  /\ router = None
  /\ coinbase = IF order.bitrefill THEN None
                ELSE [v3 |-> order.v3, settled |-> FALSE, session |-> "CREATED",
                      usage |-> 0, max |-> 1, expiry |-> order.linkExpiry]
  /\ local = [exists |-> order.here, readable |-> TRUE, send |-> FALSE]
  /\ usedBy = None
  /\ moves = 0
  /\ reader = Idle

------------------------------------------------------------------------------
(* The world. *)

PaymentEvidence ==
  \/ MoneySeen(payment)
  \/ ZecMoneySeen(payment.zec)
  \/ payment.status \notin {"unpaid", "expired"}

Visible == PaymentEvidence \/ (local.exists /\ (local.send \/ ~local.readable))

(* Bound: what happens once the command has ended concerns nobody. *)
Watched == reader.at # "done"

Moves ==
  /\ Watched
  /\ moves < MaxMoves
  /\ moves' = moves + 1
  /\ UNCHANGED <<now, order, reader>>

(* claimSend: a send is recorded before it is made. *)
SendHere ==
  /\ Moves
  /\ local.exists /\ local.readable /\ ~local.send
  /\ local' = [local EXCEPT !.send = TRUE]
  /\ UNCHANGED <<payment, router, coinbase, usedBy>>

RecordLost ==
  /\ Moves
  /\ local.exists /\ local.readable
  /\ local' = [local EXCEPT !.readable = FALSE]
  /\ UNCHANGED <<payment, router, coinbase, usedBy>>

(* What the backend shows of money sent from here or elsewhere, one field  *)
(* at a time.                                                              *)
EvidenceArrives ==
  /\ Moves
  /\ \/ \E r \in Receipts : payment' = [payment EXCEPT !.received = r]
     \/ payment' = [payment EXCEPT !.hash = TRUE]
     \/ payment' = [payment EXCEPT !.confirmed = TRUE]
     \/ /\ payment.zec # None
        /\ \E s \in {"seen", "confirming", "eligible", None} :
             payment' = [payment EXCEPT !.zec.payin = s]
  /\ UNCHANGED <<router, coinbase, local, usedBy>>

UsedUp == [coinbase EXCEPT !.session = "COMPLETED", !.usage = 1]

Pipeline == <<"unpaid", "started", "payin_completed", "bridging", "payout_started",
              "payout_completed", "completed">>
Rank == [s \in Status |-> SelectInSeq(Pipeline, LAMBDA t : t = s)]

(* The intent moves along its pipeline, some of whose stages nobody may    *)
(* see, or leaves it; an unpaid one expires.                               *)
IntentMoves ==
  /\ Moves
  /\ Rank[payment.status] > 0
  /\ \/ \E s \in Statuses :
          /\ \/ Rank[s] > Rank[payment.status]
             \/ /\ s \in {"bounced", "refunded", "other"}
                /\ Rank[payment.status] < Rank["payout_completed"]
          /\ payment' = [payment EXCEPT !.status = s]
     \/ payment.status = "unpaid" /\ payment' = [payment EXCEPT !.status = "expired"]
     \/ /\ Rank[payment.status] >= Rank["payout_completed"]
        /\ payment' = [payment EXCEPT !.payout = TRUE]
  /\ UNCHANGED <<router, coinbase, local, usedBy>>

(* The backend completes the deposit, or moves the price lock; a ZEC lock  *)
(* runs out or is disturbed by a reorg.                                    *)
OfferMoves ==
  /\ Moves
  /\ \/ payment' = [payment EXCEPT !.ready = TRUE]
     \/ /\ order.family \in {"native", "zec"}
        /\ \E q \in Locks : payment' = [payment EXCEPT !.quote = q]
     \/ /\ payment.zec # None
        /\ payment.zec.payin = "awaiting"
        /\ \E s \in {"expired", "reorged"} : payment' = [payment EXCEPT !.zec.payin = s]
  /\ UNCHANGED <<router, coinbase, local, usedBy>>

(* The router learns of a pay-in from the intent, and pays Coinbase or     *)
(* fails; it may get further than anybody sees.                            *)
RouterMoves ==
  /\ Moves
  /\ coinbase # None
  /\ PaymentEvidence
  /\ \/ router = None /\ router' = "payin_seen" /\ UNCHANGED <<coinbase, usedBy>>
     \/ /\ router \in {None, "payin_seen"}
        /\ router' \in {"paying", "failed"}
        /\ UNCHANGED <<coinbase, usedBy>>
     \/ router = "paying" /\ usedBy = "other" /\ router' = "failed"
        /\ UNCHANGED <<coinbase, usedBy>>
     \/ /\ router \in {None, "payin_seen", "paying"}
        /\ usedBy = None
        /\ router' = "paid"
        /\ usedBy' = "rozo"
        /\ coinbase' = UsedUp
  /\ UNCHANGED <<payment, local>>

(* Someone else uses the link up. *)
LinkUsed ==
  /\ Moves
  /\ coinbase # None
  /\ usedBy = None
  /\ usedBy' = "other"
  /\ coinbase' = UsedUp
  /\ UNCHANGED <<payment, router, local>>

(* Coinbase shows the capture, at once or later. *)
LinkSettles ==
  /\ Moves
  /\ usedBy # None
  /\ coinbase' = [coinbase EXCEPT !.settled = TRUE]
  /\ UNCHANGED <<payment, router, local, usedBy>>

Tick ==
  /\ Watched
  /\ now < MaxTime
  /\ now' = now + 1
  /\ UNCHANGED <<worldVars, reader>>

------------------------------------------------------------------------------
(* One snapshot. *)

(* The await a snapshot begins with: of the intent itself, for an order    *)
(* whose provider neither the caller nor the local record tells; of the    *)
(* Coinbase link; or, for a Bitrefill order, of the intent again.          *)
FirstAwait(r) ==
  LET known == r.named \/ (r.byId /\ local.exists /\ local.readable)
  IN CASE r.byId /\ ~known                    -> "provider"
       [] ~r.byId \/ (known /\ ~order.bitrefill) -> "status"
       [] r.byId /\ known /\ order.bitrefill    -> "payment"

Begin(r) ==
  [r EXCEPT !.at = FirstAwait(r), !.bitrefill = FirstAwait(r) = "payment",
            !.asked = Visible, !.result = None, !.wake = None]

(* A Bitrefill order is asked for by its id, as is one to be resumed; the  *)
(* caller may also name the provider, and give a watch a time limit.       *)
Start ==
  /\ reader.at = "idle" /\ now <= MaxStart
  /\ \E cmd \in {"query", "watch", "resume"}, byId, named \in BOOLEAN,
        timeout \in Timeouts :
       /\ order.bitrefill \/ cmd = "resume" => byId
       /\ cmd = "resume" => ~named
       /\ cmd # "watch" => timeout = None
       /\ reader' = Begin([Idle EXCEPT !.cmd = cmd, !.byId = byId, !.named = named,
                                       !.timeout = timeout, !.started = now])
  /\ UNCHANGED <<now, worldVars>>

Awaiting(step) == reader.at = step /\ UNCHANGED <<now, worldVars>>

(* The intent read for its provider serves as the payment; when it cannot  *)
(* be read the order passes for a Coinbase one, and is asked for again.    *)
ReadProvider ==
  /\ Awaiting("provider")
  /\ \/ reader' = [reader EXCEPT !.payment = payment, !.bitrefill = order.bitrefill,
                      !.at = IF order.bitrefill THEN "judge" ELSE "status"]
     \/ reader' = [reader EXCEPT !.at = "status"]

(* invoiceStatus; a query by link does not resolve the order, whose id is  *)
(* then looked up among the local records (findByLinkId).                  *)
ReadStatus ==
  /\ Awaiting("status")
  /\ LET byId == reader.byId \/ (local.exists /\ local.readable)
         view == [payment |-> IF reader.byId THEN payment ELSE NoPayment,
                  router |-> router, coinbase |-> coinbase]
     IN \E answer \in {view, None} :
          reader' = [reader EXCEPT !.view = answer, !.byId = byId,
                       !.at = IF byId /\ reader.payment = None THEN "payment" ELSE "judge"]

ReadPayment ==
  /\ Awaiting("payment")
  /\ \E answer \in {payment, None} :
       reader' = [reader EXCEPT !.payment = answer, !.at = "judge"]

(* What the local record adds, read after every answer is in. *)
Recorded(r)  == local.exists /\ r.byId
KeptLock(r)  == IF Recorded(r) /\ local.readable THEN order.kept ELSE None

(* Mutant: a record that cannot be read is taken for no send. *)
ReadableSend(r) == Recorded(r) /\ local.readable /\ local.send

(* localSendFor: a record that cannot be read counts as a send. *)
LocalSend(r) == Recorded(r) /\ (local.send \/ ~local.readable)

(* sendWindowFor: the senders' own gates, on what was read. *)
SendWindow(r, quote, expiresAt) ==
  IF r.bitrefill THEN CheckExpiry(now, IF expiresAt = None THEN quote ELSE expiresAt, quote,
                                  Absent, Absent)
  ELSE IF r.view = None THEN Judged("LINK_PAYABILITY_UNKNOWN", None)
  ELSE IF CheckPayable(r.view.coinbase) # None
    THEN Judged(CheckPayable(r.view.coinbase), None)
  ELSE CheckExpiry(now, expiresAt, r.view.coinbase.expiry, Absent, quote)

(* The verdict on the backend's answers, corrected by what only the        *)
(* custody rail of a ZEC order or the expiry of a Bitrefill invoice tells. *)
StateOf(r, p, zecMoney, invoice) ==
  LET verdict == ClassifyStatus(p, order.family,
                   IF r.view = None THEN None ELSE r.view.router,
                   IF r.view = None THEN None ELSE r.view.coinbase,
                   r.payment = None /\ r.view = None, r.bitrefill, now)
      waiting == r.bitrefill /\ ~MoneySeen(p)
                 /\ verdict.state \in {"awaiting_deposit", "expired_unfunded"}
      railed == CASE zecMoney /\ verdict.state = "expired_unfunded" ->
                       State("stuck_after_payment", {"escalate"})
                  [] zecMoney /\ verdict.state = "awaiting_deposit" ->
                       State("payin_detected", {})
                  [] OTHER -> verdict
  IN CASE waiting /\ invoice # None /\ invoice <= now ->
            State("invoice_expired", railed.flags \cup {"terminal"})
       [] waiting /\ invoice = None /\ verdict.state = "awaiting_deposit" ->
            State("deadline_unknown", railed.flags)
       [] OTHER -> railed

(* Mutant: the rail's sighting of a ZEC payment is not looked at. *)
RailIgnored(p) == FALSE

RailMoney(p) == order.family = "zec" /\ ZecMoneySeen(p.zec)

Result(r) ==
  LET p == IF r.payment # None THEN r.payment
           ELSE IF r.view # None THEN r.view.payment ELSE NoPayment
      zecMoney == RailMoney(p)
      invoice  == Earliest({KeptLock(r), IF r.payment = None THEN None ELSE r.payment.quote})
      lock     == IF order.family = "zec" THEN p.quote
                  ELSE PriceLockFor(order.family = "native" /\ p # NoPayment, p.quote, {KeptLock(r)})
      verdict  == StateOf(r, p, zecMoney, invoice)
      window   == SendWindow(r, IF r.bitrefill THEN invoice ELSE lock, p.expiresAt)
      asks     == verdict.state = "awaiting_deposit"
  IN [bitrefill     |-> r.bitrefill,
      authoritative |-> r.payment # None,
      state         |-> verdict.state,
      flags         |-> verdict.flags,
      money         |-> MoneySeen(p) \/ zecMoney,
      router        |-> IF r.view = None THEN None ELSE r.view.router,
      settled       |-> IF r.view = None THEN None
                        ELSE IF r.view.coinbase = None THEN None
                        ELSE r.view.coinbase.settled,
      localSend     |-> LocalSend(r),
      window        |-> IF asks THEN window.code ELSE Absent,
      deadline      |-> IF asks THEN window.deadline ELSE None,
      expiresAt     |-> IF r.bitrefill THEN invoice ELSE p.expiresAt,
      quote         |-> IF r.bitrefill THEN Absent ELSE lock,
      confirmed     |-> p.confirmed]

------------------------------------------------------------------------------
(* What a command does with the result. *)

(* Mutant: the limit of the watch is counted from each answer. *)
LimitFromNow(r, result) ==
  now + WatchTimeout(now, r.timeout, order.family = "lightning", result.expiresAt, result.quote)

(* The limit of a watch is set by its first result and counted from the    *)
(* start of the command.                                                   *)
WatchLimit(r, result) ==
  IF r.until # None THEN r.until
  ELSE r.started + WatchTimeout(r.started, r.timeout, order.family = "lightning",
                                result.expiresAt, result.quote)

(* Every command stops at a state that is final, unknown or in need of a   *)
(* human; a watch polls on until its limit; a resume goes on to read the   *)
(* intent afresh when the order can still be paid.                         *)
Judge ==
  /\ Awaiting("judge")
  /\ LET result == Result(reader)
         limit  == IF reader.cmd = "watch" THEN WatchLimit(reader, result) ELSE None
         again  == reader.cmd = "watch" /\ result.flags = {} /\ now < limit
     IN reader' = [reader EXCEPT !.payment = None, !.view = None, !.result = result,
                     !.until = limit, !.wake = IF again THEN now + 1 ELSE None,
                     !.at = IF again THEN "sleep"
                            ELSE IF reader.cmd = "resume" /\ ResumeVerdict(result) = None
                              THEN "fresh" ELSE "done"]

Poll ==
  /\ Awaiting("sleep")
  /\ now >= reader.wake
  /\ reader' = Begin(reader)

(* resume: the intent again, just before its deposit is shown. *)
ReadFresh ==
  /\ Awaiting("fresh")
  /\ \/ reader' = [reader EXCEPT !.at = "show", !.payment = payment]
     \/ reader' = [reader EXCEPT !.at = "done"]

Requested(p) ==
  [family |-> order.family, shielded |-> p.zec # None /\ p.zec.receive = "shielded"]

(* Mutant: the window is not judged again. *)
MayShowStill(p, result) == ReuseGuard(p, order.family, Requested(p)).code = None

(* The reuse guard, then the window again: the clock has moved, and the    *)
(* intent's deadline or lock may have; the earlier deadline still binds.   *)
MayShow(p, result) ==
  /\ ReuseGuard(p, order.family, Requested(p)).code = None
  /\ CheckExpiry(now, IF p.expiresAt = None THEN result.deadline ELSE p.expiresAt,
                 result.deadline, Absent,
                 IF order.family = "zec" THEN p.quote
                 ELSE PriceLockFor(order.family = "native", p.quote, {result.quote})).code = None

(* A blacklisted deposit is refused, a Lightning invoice is not looked up. *)
Show ==
  /\ Awaiting("show")
  /\ \E listed \in BOOLEAN :
       /\ order.family = "lightning" => ~listed
       /\ reader' = [reader EXCEPT !.at = "done", !.payment = None,
                       !.shown = MayShow(reader.payment, reader.result) /\ ~listed]

ReaderStepNext == ReadProvider \/ ReadStatus \/ ReadPayment \/ Judge \/ Poll \/ ReadFresh \/ Show

WorldNext == SendHere \/ RecordLost \/ EvidenceArrives \/ IntentMoves
             \/ OfferMoves \/ RouterMoves \/ LinkUsed \/ LinkSettles \/ Tick

NextStatus == Start \/ ReaderStepNext \/ WorldNext

(* Every request is answered or given up in bounded time (HttpRetry), and  *)
(* the clock runs; the world owes nothing.                                 *)
FairStatus == WF_statusVars(ReaderStepNext) /\ WF_statusVars(Tick)

SafeSpecStatus == InitStatus /\ [][NextStatus]_statusVars

SpecStatus == SafeSpecStatus /\ FairStatus

------------------------------------------------------------------------------
TypeOKStatus ==
  /\ now \in 0..MaxTime
  /\ order \in Orders
  /\ payment \in PaymentType
  /\ router \in RouterStatus
  /\ coinbase \in Coinbase \cup {None}
  /\ local \in [exists : BOOLEAN, readable : BOOLEAN, send : BOOLEAN]
  /\ usedBy \in {None, "rozo", "other"}
  /\ reader.at \in ReaderStep
  /\ reader.payment \in PaymentType \cup {None}
  /\ reader.view \in ViewType \cup {None}
  /\ reader.at \in {"fresh", "show"} => reader.result.deadline \in Nat

(* What the step of a command that answers its caller permits it to do.    *)
Permits(r) == NextAction(r, PaymentOutcome(r)).permits
Permitted ==
  IF reader.at = "judge" /\ reader'.at # "judge" /\ reader.cmd # "resume"
    THEN Permits(reader'.result) ELSE {}
Shows == reader.at = "show" /\ reader'.shown

(* Nobody is told to pay, or to make a new order, once the backend showed  *)
(* money of any kind when the command's last snapshot began, or in what it *)
(* read, or this machine has sent: in whatever order the evidence comes in *)
(* and whichever answers are lost (receipt.mjs: canSend "is true only for  *)
(* a clean, authoritative, unfunded, live order with no local send         *)
(* record").                                                               *)
NeverPayAgain ==
  [][Permitted # {} \/ Shows =>
       /\ ~reader.asked
       /\ ~MoneySeen(reader.payment)
       /\ ~ZecMoneySeen(reader.payment.zec)
       /\ Permitted # {} => ~local.send]_statusVars

(* A caller told to send, or shown a deposit, has the margin left before   *)
(* every deadline this machine knows of, and before the live lock it read, *)
(* however long the answers took (status.mjs sendWindowFor, resume.mjs     *)
(* finalWindow).                                                           *)
PromisedDeadlines(p) ==
  ({order.expiresAt, order.kept} \cup (IF order.bitrefill THEN {} ELSE {order.linkExpiry})
     \cup (IF order.bitrefill \/ order.family \in {"native", "zec"} THEN {p.quote} ELSE {}))
  \ {None}
InvitedInTime ==
  [][("send" \in Permitted) \/ Shows =>
        \A d \in PromisedDeadlines(reader.payment) : d - now > Margin]_statusVars

(* An order is reported settled only when the merchant's own resource (for *)
(* Bitrefill, the payout) says so, and its receipt says the same           *)
(* (receipt.mjs: the router reporting paid "is not settlement proof").     *)
SettledIsReal ==
  reader.result # None /\ PaymentOutcome(reader.result) = "settled" =>
    /\ MerchantLayer(reader.result) = "confirmed"
    /\ IF order.bitrefill THEN Rank[payment.status] >= Rank["payout_completed"]
                          ELSE coinbase.settled

(* status and resume judge alike: an order is resumable exactly when       *)
(* status would permit a send (resumeVerdict against nextActionFor).       *)
ResumableIffPayable ==
  reader.result # None =>
    (ResumeVerdict(reader.result) = None <=> "send" \in Permits(reader.result))

(* A command that was started ends: a watch by its limit, although the     *)
(* order may never reach a final state and every answer may be lost.       *)
WatchEnds == reader.at # "idle" ~> reader.at = "done"

(* "A Coinbase link can read as settled because someone else paid it, while *)
(* this order's pay-in sits stranded; that must never be reported as        *)
(* settled" (guards.mjs, classifyStatus).                                   *)
StrandedNotSettled ==
  reader.result # None /\ reader.result.money /\ usedBy = "other" =>
    PaymentOutcome(reader.result) # "settled"
==============================================================================
