------------------------------ MODULE SendFlow ------------------------------
(***************************************************************************)
(* Paying one order from a local wallet: scripts/src/send-evm.mjs and      *)
(* send-sol.mjs with lib/presend.mjs, run by several invocations at once,  *)
(* against the order that CreateOrder creates, re-creates and confirms.    *)
(* An invocation takes one step per answer it awaits and per state.mjs     *)
(* call, is never forced to take one, and may stop for good between any    *)
(* two of them (a crash, a kill, a throw).                                 *)
(***************************************************************************)
EXTENDS CreateOrder

CONSTANTS
  Senders,   \* send-evm / send-sol invocations, each with its own process
  TxOf,      \* TxOf[s]: hash of the transaction s signs
  MaxGap     \* bound: time from the last gate to the broadcast

(* Each run signs a transaction of its own: its own nonce or blockhash.    *)
ASSUME SendFlowAssumption ==
  /\ MaxGap \in Nat /\ MaxGap < Margin
  /\ TxOf \in [Senders -> PaymentIds]
  /\ \A s, t \in Senders : TxOf[s] = TxOf[t] => s = t

VARIABLES
  sender,    \* what each send invocation is doing and has learnt
  tx,        \* the chain: what became of each signed transaction
  sent,      \* history: the broadcasts made, in no order
  closedAt,  \* history: when the Coinbase link was used up by someone else
  fundedAt   \* history: when the order was first funded

sendVars == <<sender, tx, sent, closedAt, fundedAt>>
flowVars == <<orderVars, sendVars>>

(* "until" is the deadline the run must respect besides the order's own:   *)
(* sendPriceLock for a native coin, the recorded expiry of a Bitrefill     *)
(* invoice.  "due" is history: the price locks a human had confirmed for   *)
(* this order when the run began (the recorded expiry of a Bitrefill       *)
(* invoice, which InvoiceExpiryOnlyEarlier is about).                      *)
SenderStep == {"start", "state", "live", "prepare", "signed", "gated",
               "claimed", "unheard", "accepted", "submitted", "done"}

SenderType ==
  [at     : SenderStep,
   state  : Records \cup {None},
   source : LiveDeposits \cup {None},
   until  : Locks \cup {None},
   due    : SUBSET Locks,
   gate   : Times \cup {None}]

TxState == {"unsent", "posted", "landed", "reverted", "replaced", "dropped"}

TypeOKFlow ==
  /\ TypeOKOrder
  /\ sender \in [Senders -> SenderType]
  /\ tx \in [Senders -> TxState]
  /\ sent \subseteq [by : Senders, source : LiveDeposits, at : Times, due : SUBSET Locks]
  /\ closedAt \in Times \cup {None}
  /\ fundedAt \in Times \cup {None}

NotStarted == [at |-> "start", state |-> None, source |-> None, until |-> None,
               due |-> {}, gate |-> None]
Ended == [NotStarted EXCEPT !.at = "done"]

InitFlow ==
  /\ InitOrder
  /\ sender = [s \in Senders |-> NotStarted]
  /\ tx = [s \in Senders |-> "unsent"]
  /\ sent = {}
  /\ closedAt = None
  /\ fundedAt = None

------------------------------------------------------------------------------
(* preflight and the gates after it. *)

(* Move on when the checks pass, else the run ends with their error.       *)
Advance(s, from, ok, learnt) ==
  /\ sender[s].at = from
  /\ sender' = [sender EXCEPT ![s] = IF ok THEN learnt ELSE Ended]

(* The deadlines a human was promised so far. *)
Promised ==
  (IF Kind = "bitrefill" THEN {LocalExpiry(store)} ELSE {k.lock : k \in confirmed}) \ {None}

(* NO_ORDER_STATE, ALREADY_SENT, NOT_CONFIRMED: one readState, before any  *)
(* network call.                                                           *)
ReadLocalRecord(s) ==
  /\ Advance(s, "start",
       /\ store # None
       /\ store.send = None
       /\ store.confirmation # None,
       [sender[s] EXCEPT !.at = "state", !.state = store, !.due = Promised])
  /\ UNCHANGED <<orderVars, tx, sent, closedAt, fundedAt>>

(* Mutant: the deposit is compared by address and amount alone. *)
FetchUnconfirmed(s) ==
  LET state == sender[s].state
      live  == intent.deposit
  IN
  /\ Advance(s, "state",
       /\ ~intent.funded
       /\ live.receiverAddress = state.receiverAddress
       /\ live.amount = state.amount,
       [sender[s] EXCEPT !.at = "live", !.state = None, !.source = live])
  /\ UNCHANGED <<orderVars, tx, sent, closedAt, fundedAt>>

(* getPayment, then everything decided from it and the record just read:   *)
(* reuseGuard, CONFIRMATION_STALE, DEPOSIT_CHANGED and, for Bitrefill, the *)
(* invoice and the blacklist.  The record is not read again.               *)
FetchLive(s) ==
  LET state == sender[s].state
      live  == intent.deposit
      until == IF Kind = "bitrefill" THEN state.invoiceExpiry
               ELSE PriceLock(intent.quote, ConfirmedQuote(state), LocalQuote(state))
  IN
  /\ Advance(s, "state",
       /\ ~intent.funded
       /\ DepositDigest(live) = state.confirmation.depositDigest
       /\ live.receiverAddress = state.receiverAddress
       /\ live.amount = state.amount
       /\ Kind = "bitrefill" =>
            InvoiceExpiryOk(now, until) /\ live.receiverAddress \notin Blacklisted,
       [sender[s] EXCEPT !.at = IF Kind = "bitrefill" THEN "prepare" ELSE "live",
                         !.state = None, !.source = live, !.until = until])
  /\ UNCHANGED <<orderVars, tx, sent, closedAt, fundedAt>>

(* invoiceStatus of a Coinbase link: expiry, payability, blacklist. *)
CheckLink(s) ==
  /\ Advance(s, "live",
       /\ ExpiryOk(now, sender[s].until)
       /\ intent.payable
       /\ sender[s].source.receiverAddress \notin Blacklisted,
       [sender[s] EXCEPT !.at = "prepare"])
  /\ UNCHANGED <<orderVars, tx, sent, closedAt, fundedAt>>

(* RPC preparation, balance and fee prechecks (any may refuse, and a dry   *)
(* run ends here), then the signature, which fixes the transaction hash.   *)
Sign(s) ==
  /\ \E ready \in BOOLEAN : Advance(s, "prepare", ready, [sender[s] EXCEPT !.at = "signed"])
  /\ UNCHANGED <<orderVars, tx, sent, closedAt, fundedAt>>

(* Mutant: the last check does not look at the clock again. *)
FinalCheckNoClock(s) ==
  /\ Advance(s, "signed", IF Kind = "bitrefill" THEN ~intent.funded ELSE intent.payable,
       [sender[s] EXCEPT !.at = "gated", !.gate = now])
  /\ UNCHANGED <<orderVars, tx, sent, closedAt, fundedAt>>

(* Mutant: the last check only looks at the clock. *)
FinalCheckClock(s) ==
  /\ Advance(s, "signed",
       IF Kind = "bitrefill" THEN InvoiceExpiryOk(now, sender[s].until)
                             ELSE ExpiryOk(now, sender[s].until),
       [sender[s] EXCEPT !.at = "gated", !.gate = now])
  /\ UNCHANGED <<orderVars, tx, sent, closedAt, fundedAt>>

(* finalPayabilityCheck: a Coinbase order re-reads the link, and with it   *)
(* the deadlines; a Bitrefill order re-reads the intent.                   *)
FinalCheck(s) ==
  /\ Advance(s, "signed",
       IF Kind = "bitrefill"
         THEN ~intent.funded /\ InvoiceExpiryOk(now, sender[s].until)
         ELSE intent.payable /\ ExpiryOk(now, sender[s].until),
       [sender[s] EXCEPT !.at = "gated", !.gate = now])
  /\ UNCHANGED <<orderVars, tx, sent, closedAt, fundedAt>>

(* Mutant: the claim is written whatever the file says. *)
ClaimAnyway(s) ==
  LET d == sender[s].source IN
  /\ Advance(s, "gated", TRUE, [sender[s] EXCEPT !.at = "claimed"])
  /\ store' = ClaimSend(store, [to |-> d.receiverAddress, amount |-> d.amount,
                                expectedTxHash |-> TxOf[s]])
  /\ UNCHANGED <<now, intent, creator, confirmed, tx, sent, closedAt, fundedAt>>

(* claimSend on the record it reads. *)
ClaimOn(read, s) ==
  LET d == sender[s].source IN
  /\ Advance(s, "gated", MayClaim(read), [sender[s] EXCEPT !.at = "claimed"])
  /\ store' = IF MayClaim(read)
                THEN ClaimSend(read, [to |-> d.receiverAddress, amount |-> d.amount,
                                      expectedTxHash |-> TxOf[s]])
                ELSE store
  /\ UNCHANGED <<now, intent, creator, confirmed, tx, sent, closedAt, fundedAt>>

Claim(s) == ClaimOn(store, s)

------------------------------------------------------------------------------
(* The broadcast and what is recorded of it. *)

(* sendRawTransaction: the network may take the transaction or not, and    *)
(* the caller may be told or not; it is told "accepted" only if it was.    *)
Broadcast(s) ==
  /\ sender[s].at = "claimed"
  /\ \E taken, told \in BOOLEAN :
       /\ told => taken
       /\ tx' = [tx EXCEPT ![s] = IF taken THEN "posted" ELSE @]
       /\ sent' = IF taken
            THEN sent \cup {[by |-> s, source |-> sender[s].source, at |-> now,
                             due |-> sender[s].due]}
            ELSE sent
       /\ sender' = [sender EXCEPT ![s] =
            [NotStarted EXCEPT !.at = IF told THEN "accepted" ELSE "unheard"]]
  /\ UNCHANGED <<orderVars, closedAt, fundedAt>>

(* recordSendResult, after which the run goes on at "next". *)
RecordResultOn(read, s, from, status, next) ==
  /\ sender[s].at = from
  /\ MayRecordResult(read)
  /\ store' = RecordSendResult(read, status)
  /\ sender' = [sender EXCEPT ![s].at = next]
  /\ UNCHANGED <<now, intent, creator, confirmed, tx, sent, closedAt, fundedAt>>

(* Mutant: a broadcast nobody answered is recorded as submitted. *)
UnheardSubmitted(s) == RecordResultOn(store, s, "unheard", "submitted", "done")

(* The broadcast call threw: one look-up of the exact hash (then, on an    *)
(* EVM chain, of the wallet's nonce).  Finding it proves it is known to    *)
(* the network or, by nonce, that another transaction took its place; not  *)
(* finding it, or failing to ask, proves nothing.                          *)
RecordUnheardOn(read, s) ==
  \E landed \in BOOLEAN :
    RecordResultOn(read, s, "unheard", IF landed THEN "ambiguous" ELSE "failed", "done")

RecordSubmittedOn(read, s) ==
  RecordResultOn(read, s, "accepted", "submitted", "submitted")

(* The receipt: success, a definite failure on chain, or none in time.  On *)
(* an EVM chain it may be the receipt of another transaction of the wallet *)
(* that took this one's nonce, which viem's waitForTransactionReceipt      *)
(* follows: recorded alike, as that one succeeded or failed.               *)
RecordReceiptOn(read, s) ==
  \/ /\ tx[s] \in {"landed", "replaced"}
     /\ RecordResultOn(read, s, "submitted", "confirmed", "done")
  \/ /\ tx[s] \in {"reverted", "replaced"}
     /\ RecordResultOn(read, s, "submitted", "failed", "done")

(* Mutant: any receipt at all is recorded as a success. *)
ReceiptSeenOnly(s) ==
  /\ tx[s] \in {"landed", "reverted", "replaced"}
  /\ RecordResultOn(store, s, "submitted", "confirmed", "done")

RecordUnheard(s) == RecordUnheardOn(store, s)
RecordSubmitted(s) == RecordSubmittedOn(store, s)
RecordReceipt(s) == RecordReceiptOn(store, s)

(* A run ends before its time: it is killed, or a call of state.mjs or of  *)
(* the node throws.  The clock waits for a run past its last gate, and so  *)
(* has to be told.                                                         *)
Stop(s) ==
  /\ sender[s].at \notin {"start", "done"}
  /\ sender' = [sender EXCEPT ![s] = Ended]
  /\ UNCHANGED <<orderVars, tx, sent, closedAt, fundedAt>>

SendStep(s) ==
  \/ ReadLocalRecord(s) \/ FetchLive(s) \/ CheckLink(s) \/ Sign(s)
  \/ FinalCheck(s) \/ Claim(s) \/ Broadcast(s)
  \/ RecordUnheard(s) \/ RecordSubmitted(s) \/ RecordReceipt(s)
  \/ Stop(s)

------------------------------------------------------------------------------
(* The world. *)

(* A posted transaction is included, fails on chain, loses its nonce to    *)
(* another transaction of the wallet (its owner's cancellation, another    *)
(* order's payment), or is never included.                                 *)
Mine(s) ==
  /\ tx[s] = "posted"
  /\ \E r \in TxState \ {"unsent", "posted"} : tx' = [tx EXCEPT ![s] = r]
  /\ UNCHANGED <<orderVars, sender, sent, closedAt, fundedAt>>

(* The clock, with the assumption that the code between the last gate and  *)
(* the broadcast takes at most MaxGap: it waits for the state lock and     *)
(* makes one RPC call.                                                     *)
TickFlow ==
  /\ Tick
  /\ \A s \in Senders :
       sender[s].at \in {"gated", "claimed"} => now - sender[s].gate < MaxGap
  /\ UNCHANGED sendVars

Funded ==
  /\ AnotherPayer
  /\ fundedAt' = now
  /\ UNCHANGED <<sender, tx, sent, closedAt>>

Closed ==
  /\ LinkConsumed
  /\ closedAt' = now
  /\ UNCHANGED <<sender, tx, sent, fundedAt>>

NextFlow ==
  \/ \E c \in Creators : CreateStep(c) /\ UNCHANGED sendVars
  \/ \E s \in Senders : SendStep(s) \/ Mine(s)
  \/ BackendMoves /\ UNCHANGED sendVars
  \/ TickFlow \/ Funded \/ Closed

SpecFlow == InitFlow /\ [][NextFlow]_flowVars

------------------------------------------------------------------------------
(* At most one transfer is ever broadcast for an order, and the record     *)
(* names that transfer, its destination and its amount, whatever is        *)
(* created, confirmed or crashes afterwards (claimSend).                   *)
PayOnce ==
  \A r \in sent :
    /\ \A q \in sent : q = r
    /\ store # None
    /\ store.send # None
    /\ store.send.expectedTxHash = TxOf[r.by]
    /\ store.send.to = r.source.receiverAddress
    /\ store.send.amount = r.source.amount

(* Only deposit instructions a human confirmed, to the last field, are     *)
(* paid, never a blacklisted address, and never an invoice over the limit, *)
(* although the backend may swap the deposit, and another invocation       *)
(* re-create or re-confirm the order, at any moment (presend.mjs 4a, 7).   *)
PaidAsConfirmed ==
  \A r \in sent :
    /\ \E k \in confirmed : k.digest = DepositDigest(r.source)
    /\ r.source.receiverAddress \notin Blacklisted
    /\ intent.invoiceUsd <= MaxPaymentUsd

(* A transfer leaves before the order's deadline and before every price    *)
(* lock a human had confirmed when the run began (a Bitrefill one, before  *)
(* the invoice's expiry), however the backend re-prices the order and      *)
(* however long signing takes (recordConfirmation: "A send never goes out  *)
(* after it, even if the backend later reports a later one").              *)
SentInTime ==
  \A r \in sent :
    /\ Kind # "bitrefill" => r.at < Deadline
    /\ \A limit \in r.due : r.at < limit

(* A Coinbase link someone else has used up is not paid later than the gap *)
(* after the last gate (finalPayabilityCheck).                             *)
NotAfterClosed ==
  closedAt # None => \A r \in sent : r.at <= closedAt + MaxGap

(* An order someone else has funded is not paid later than the gap after   *)
(* the last gate (presend.mjs: "Everything here runs again, live,          *)
(* immediately before a signature", ORDER_ALREADY_FUNDED included).        *)
NotAfterFunded ==
  fundedAt # None => \A r \in sent : r.at <= fundedAt + MaxGap

(* What another payer does is noticed by the last gate at the latest.      *)
NotAfterAnotherPayer ==
  IF Kind = "bitrefill" THEN NotAfterFunded ELSE NotAfterClosed

(* The record never claims more than a run was shown: "submitted" only for *)
(* a transaction the network took, "confirmed" only for one that landed or *)
(* lost its nonce to another transaction of the wallet, never for one that *)
(* failed on chain or is still out.                                        *)
RecordNotAhead ==
  store # None /\ store.send # None =>
    \A s \in Senders : store.send.expectedTxHash = TxOf[s] =>
      /\ store.send.status = "submitted" => tx[s] # "unsent"
      /\ store.send.status = "confirmed" => tx[s] \in {"landed", "replaced"}

(* The order's file behaves as the atomic store promises: this is the only *)
(* state the invocations share.  A run holds the right to broadcast from   *)
(* the claim that names its transaction on.                                *)
Store == INSTANCE OrderStore WITH
  Invocations <- Senders, Deposits <- LiveDeposits,
  OrderFields <- [invoiceAmount  : InvoiceUsd,
                  quoteExpiresAt : Locks \cup {None},
                  invoiceExpiry  : Locks \cup {None}],
  granted <- {s \in Senders :
                store # None /\ store.send # None /\ store.send.expectedTxHash = TxOf[s]}

ImplementsOrderStore == Store!StoreSpec

(* A send recorded as failed moved no money (broadcastOutcome: "The first  *)
(* is a definite failure ...; the second is genuinely unresolved").        *)
FailedMovedNothing ==
  store # None /\ store.send # None =>
    \A s \in Senders :
      (store.send.expectedTxHash = TxOf[s] /\ store.send.status = "failed")
        => tx[s] # "landed"
==============================================================================
