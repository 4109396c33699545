--------------------------- MODULE SendFlowProofs ---------------------------
(***************************************************************************)
(* Theorems about paying an order, for any number of create and send       *)
(* invocations, any deposits, price locks and margins: the state stays     *)
(* well-typed (FlowTypeCorrect), at most one transfer is broadcast and the *)
(* record names it (PaysOnce), only what a human confirmed is paid         *)
(* (PaysAsConfirmed), the record never claims more than happened           *)
(* (RecordsNotAhead), the whole implements the atomic store                *)
(* (FlowImplementsStore), and what is paid is paid in time                 *)
(* (NotPaidAfterClosed, NotPaidAfterFunded, SentBeforePromised) against    *)
(* deadlines that only move earlier (RecordedExpiryEarliest,               *)
(* RecordedLockEarliest).                                                  *)
(***************************************************************************)
EXTENDS SendFlow, TLAPS

------------------------------------------------------------------------------
(* The operators of StateFile keep the file's fields in range. *)

LEMMA PriceLockInRange ==
  ASSUME NEW a \in Locks \cup {None}, NEW b \in Locks \cup {None}
  PROVE  /\ Earlier(a, b) \in Locks \cup {None}
         /\ \A c \in Locks \cup {None} : PriceLock(a, b, c) \in Locks \cup {None}
BY DEF Earlier, PriceLock

LEMMA LocalLocksInRange ==
  ASSUME NEW s \in Records \cup {None}
  PROVE  /\ LocalQuote(s) \in Locks \cup {None}
         /\ LocalExpiry(s) \in Locks \cup {None}
         /\ ConfirmedQuote(s) \in Locks \cup {None}
BY DEF LocalQuote, LocalExpiry, ConfirmedQuote, Records, StateRecord, ConfirmationRecord

(* What a create writes: the order's fields, and the old confirmation and  *)
(* send record.                                                            *)
LEMMA CreateRecord ==
  ASSUME NEW s \in Records \cup {None}, NEW d \in LiveDeposits, NEW usd \in InvoiceUsd,
         NEW q \in Locks \cup {None}, NEW e \in Locks \cup {None},
         NEW r, r = CreateOrderRecord(s,
           [receiverAddress |-> d.receiverAddress, amount |-> d.amount,
            invoiceAmount |-> usd, quoteExpiresAt |-> q, invoiceExpiry |-> e])
  PROVE  /\ r \in Records
         /\ r.invoiceAmount = usd
         /\ r.send = IF s = None THEN None ELSE s.send
         /\ r.confirmation = IF s = None THEN None ELSE s.confirmation
<1>1. s # None => s \in Records
  OBVIOUS
<1>2. d.receiverAddress \in Addresses /\ d.amount \in Amounts
  BY DEF LiveDeposits, Deposit
<1>3. s # None => Earlier(s.invoiceExpiry, e) \in Locks \cup {None}
  BY <1>1, PriceLockInRange DEF Records, StateRecord
<1> QED
  BY <1>1, <1>2, <1>3 DEF CreateOrderRecord, Records, StateRecord

LEMMA ConfirmRecord ==
  ASSUME NEW s \in Records, NEW d \in LiveDeposits, NEW q \in Locks \cup {None},
         NEW r, r = RecordConfirmation(s, d, q)
  PROVE  /\ r \in Records
         /\ r.invoiceAmount = s.invoiceAmount
         /\ r.send = s.send
         /\ r.confirmation # None
         /\ r.confirmation.depositDigest = DepositDigest(d)
<1> DEFINE c == [depositDigest |-> DepositDigest(d), quoteExpiresAt |-> q]
<1>1. c \in ConfirmationRecord(Addresses, Amounts, Others, Locks)
  BY DEF ConfirmationRecord, DepositDigest, LiveDeposits, Deposit
<1>2. c # None
  BY <1>1, CreateOrderAssumption DEF CreateOrderAssumption
<1>3. r = [s EXCEPT !.confirmation = c]
  BY DEF RecordConfirmation
<1> QED
  BY <1>1, <1>2, <1>3 DEF Records, StateRecord

LEMMA ClaimRecord ==
  ASSUME NEW s \in Records, NEW d \in LiveDeposits, NEW h \in PaymentIds,
         NEW r, r = ClaimSend(s, [to |-> d.receiverAddress, amount |-> d.amount,
                                  expectedTxHash |-> h])
  PROVE  /\ r \in Records
         /\ r.invoiceAmount = s.invoiceAmount
         /\ r.confirmation = s.confirmation
         /\ r.send # None
         /\ r.send.status = "claimed"
         /\ r.send.expectedTxHash = h
         /\ r.send.to = d.receiverAddress
         /\ r.send.amount = d.amount
<1> DEFINE c == [status |-> "claimed", to |-> d.receiverAddress, amount |-> d.amount,
                 expectedTxHash |-> h]
<1>1. c \in SendRecord(Addresses, Amounts)
  BY DEF SendRecord, SendStatus, LiveDeposits, Deposit
<1>2. c # None
  BY <1>1, CreateOrderAssumption DEF CreateOrderAssumption
<1>3. r = [s EXCEPT !.send = c]
  BY DEF ClaimSend
<1> QED
  BY <1>1, <1>2, <1>3 DEF Records, StateRecord

LEMMA ResultRecord ==
  ASSUME NEW s \in Records, s.send # None, NEW status \in SendStatus,
         NEW r, r = RecordSendResult(s, status)
  PROVE  /\ r \in Records
         /\ r.invoiceAmount = s.invoiceAmount
         /\ r.confirmation = s.confirmation
         /\ r.send # None
         /\ r.send.status = status
         /\ r.send.expectedTxHash = s.send.expectedTxHash
         /\ r.send.to = s.send.to
         /\ r.send.amount = s.send.amount
<1> DEFINE c == [s.send EXCEPT !.status = status]
<1>1. s.send \in SendRecord(Addresses, Amounts)
  BY DEF Records, StateRecord
<1>2. /\ c \in SendRecord(Addresses, Amounts)
      /\ c.status = status
      /\ c.expectedTxHash = s.send.expectedTxHash
      /\ c.to = s.send.to
      /\ c.amount = s.send.amount
  BY <1>1 DEF SendRecord
<1>3. c # None
  BY <1>2, CreateOrderAssumption DEF CreateOrderAssumption
<1>4. r = [s EXCEPT !.send = c]
  BY DEF RecordSendResult, Records, StateRecord
<1> HIDE DEF c
<1>5. /\ [s EXCEPT !.send = c] \in Records
      /\ [s EXCEPT !.send = c].send = c
      /\ [s EXCEPT !.send = c].invoiceAmount = s.invoiceAmount
      /\ [s EXCEPT !.send = c].confirmation = s.confirmation
  BY <1>2 DEF Records, StateRecord
<1> QED
  BY <1>2, <1>3, <1>4, <1>5

------------------------------------------------------------------------------
(***************************************************************************)
(* The order's side: its type, that a run which got past getPayment holds  *)
(* a deposit, that the record carries the invoice's amount, and that its   *)
(* confirmation is one that was given.                                     *)
(***************************************************************************)
DepositKnown ==
  \A c \in Creators :
    creator[c].at \in {"fetched", "checked", "record", "confirm"} =>
      creator[c].deposit \in LiveDeposits

AmountKept == store # None => store.invoiceAmount = intent.invoiceUsd

ConfirmationGiven ==
  store # None /\ store.confirmation # None =>
    \E k \in confirmed : k.digest = store.confirmation.depositDigest

OrderInv == TypeOKOrder /\ DepositKnown /\ AmountKept /\ ConfirmationGiven

(* What a step on the order's side leaves alone of what a send relies on. *)
SendLeftAlone ==
  /\ store # None => store' # None /\ store'.send = store.send
  /\ store = None /\ store' # None => store'.send = None
  /\ confirmed \subseteq confirmed'
  /\ intent'.invoiceUsd = intent.invoiceUsd

LEMMA CreatorStepType ==
  ASSUME TypeOKOrder, NEW c \in Creators, NEW from, NEW ok, NEW learnt \in CreatorType,
         Proceed(c, from, ok, learnt)
  PROVE  creator' \in [Creators -> CreatorType]
<1>1. Idle \in CreatorType
  BY DEF Idle, CreatorType, CreatorStep
<1> QED
  BY <1>1 DEF Proceed, TypeOKOrder

(* A step that changes only one run, and gives it a deposit if it goes     *)
(* where one is needed.                                                    *)
LEMMA CreatorOnly ==
  ASSUME OrderInv, NEW c \in Creators, NEW from, NEW ok, NEW learnt \in CreatorType,
         Proceed(c, from, ok, learnt),
         learnt.at \in {"fetched", "checked", "record", "confirm"} => learnt.deposit \in LiveDeposits,
         UNCHANGED <<now, intent, store, confirmed>>
  PROVE  OrderInv' /\ SendLeftAlone
<1>1. creator' \in [Creators -> CreatorType]
  BY CreatorStepType DEF OrderInv
<1>2. DepositKnown'
  BY DEF Proceed, Idle, OrderInv, DepositKnown, TypeOKOrder
<1> QED
  BY <1>1, <1>2 DEF OrderInv, TypeOKOrder, AmountKept, ConfirmationGiven, SendLeftAlone

LEMMA CreateStepKeeps ==
  ASSUME OrderInv, NEW c \in Creators, CreateStep(c)
  PROVE  OrderInv' /\ SendLeftAlone
<1> USE DEF OrderInv, TypeOKOrder
<1>0. creator[c] \in CreatorType /\ Idle \in CreatorType
  BY DEF Idle, CreatorType, CreatorStep
<1>1. CASE CreateInvoice(c)
  <2> DEFINE learnt == [Idle EXCEPT !.at = "created", !.lock = intent.quote]
  <2>1. learnt \in CreatorType /\ learnt.at = "created"
    BY <1>0 DEF Idle, CreatorType, CreatorStep, IntentType
  <2>2. Proceed(c, "start", TRUE, learnt) /\ UNCHANGED <<now, intent, store, confirmed>>
    BY <1>1 DEF CreateInvoice
  <2> HIDE DEF learnt
  <2> QED
    BY <2>1, <2>2, CreatorOnly
<1>2. CASE CreateBitrefill(c)
  <2>1. PICK typed \in Locks, valid \in BOOLEAN :
          /\ Proceed(c, "start", valid,
               [Idle EXCEPT !.at = "created", !.lock = Earlier(typed, LocalExpiry(store))])
          /\ intent' = IF intent.invoiceExpiry = None /\ valid
                         THEN [intent EXCEPT !.invoiceExpiry = typed] ELSE intent
    BY <1>2 DEF CreateBitrefill
  <2> DEFINE learnt == [Idle EXCEPT !.at = "created",
                                    !.lock = Earlier(typed, LocalExpiry(store))]
  <2>2. learnt \in CreatorType /\ learnt.at = "created"
    BY <1>0, PriceLockInRange, LocalLocksInRange DEF Idle, CreatorType, CreatorStep
  <2>3. creator' \in [Creators -> CreatorType]
    BY <2>1, <2>2, CreatorStepType
  <2>4. DepositKnown'
    BY <2>1, <2>2 DEF Proceed, Idle, DepositKnown
  <2>5. intent' \in IntentType /\ intent'.invoiceUsd = intent.invoiceUsd
    BY <2>1 DEF IntentType
  <2> QED
    BY <1>2, <2>3, <2>4, <2>5
    DEF CreateBitrefill, AmountKept, ConfirmationGiven, SendLeftAlone
<1>3. CASE FetchPayment(c)
  <2> DEFINE learnt == [creator[c] EXCEPT !.at = "fetched", !.deposit = intent.deposit,
          !.lock = Earlier(@, IF Kind = "bitrefill" THEN intent.invoiceExpiry
                                                    ELSE intent.quote)]
  <2>1. learnt \in CreatorType /\ learnt.deposit \in LiveDeposits
    BY <1>0, PriceLockInRange DEF CreatorType, CreatorStep, IntentType
  <2>2. Proceed(c, "created", ~intent.funded, learnt) /\ UNCHANGED <<now, intent, store, confirmed>>
    BY <1>3 DEF FetchPayment
  <2> HIDE DEF learnt
  <2> QED
    BY <2>1, <2>2, CreatorOnly
<1>4. CASE CheckExpiry(c)
  <2> DEFINE limit == IF Kind = "bitrefill" THEN creator[c].lock
                     ELSE PriceLock(creator[c].lock, LocalQuote(store), ConfirmedQuote(store))
             learnt == [creator[c] EXCEPT !.lock = limit,
                          !.at = IF Kind = "bitrefill" THEN "record" ELSE "checked"]
             ok == /\ IF Kind = "bitrefill" THEN InvoiceExpiryOk(now, limit) ELSE ExpiryOk(now, limit)
                   /\ creator[c].deposit.receiverAddress \notin Blacklisted
  <2>1. creator[c].lock \in Locks \cup {None}
    BY <1>0 DEF CreatorType
  <2>2. limit \in Locks \cup {None}
    BY <2>1, PriceLockInRange, LocalLocksInRange
  <2>3. Proceed(c, "fetched", ok, learnt) /\ UNCHANGED <<now, intent, store, confirmed>>
    BY <1>4 DEF CheckExpiry
  <2>4. learnt \in CreatorType /\ learnt.deposit \in LiveDeposits
    BY <1>0, <2>2, <2>3 DEF CreatorType, CreatorStep, Proceed, DepositKnown
  <2> HIDE DEF learnt, ok
  <2> QED
    BY <2>3, <2>4, CreatorOnly
<1>5. CASE CheckPayable(c)
  <2> DEFINE learnt == [creator[c] EXCEPT !.at = "record"]
  <2>1. Proceed(c, "checked", intent.payable, learnt) /\ UNCHANGED <<now, intent, store, confirmed>>
    BY <1>5 DEF CheckPayable
  <2>2. learnt \in CreatorType /\ learnt.deposit \in LiveDeposits
    BY <1>0, <2>1 DEF CreatorType, CreatorStep, Proceed, DepositKnown
  <2> HIDE DEF learnt
  <2> QED
    BY <2>1, <2>2, CreatorOnly
<1>6. CASE RecordOrder(c)
  <2> DEFINE learnt == [creator[c] EXCEPT !.at = "confirm"]
             d == creator[c].deposit
             q == IF Kind = "native" THEN creator[c].lock ELSE None
             e == IF Kind = "bitrefill" THEN creator[c].lock ELSE None
  <2>1. PICK confirm \in BOOLEAN : Proceed(c, "record", confirm, learnt)
    BY <1>6 DEF RecordOrder, RecordOrderOn
  <2>2. d \in LiveDeposits /\ q \in Locks \cup {None} /\ e \in Locks \cup {None}
    BY <1>0, <2>1 DEF Proceed, DepositKnown, CreatorType
  <2>3. learnt \in CreatorType
    BY <1>0 DEF CreatorType, CreatorStep
  <2>4. creator' \in [Creators -> CreatorType]
    BY <2>1, <2>3, CreatorStepType
  <2>5. DepositKnown'
    BY <2>1, <2>2 DEF Proceed, Idle, DepositKnown
  <2>6. store' = CreateOrderRecord(store,
           [receiverAddress |-> d.receiverAddress, amount |-> d.amount,
            invoiceAmount |-> intent.invoiceUsd, quoteExpiresAt |-> q, invoiceExpiry |-> e])
    BY <1>6 DEF RecordOrder, RecordOrderOn
  <2>7. intent.invoiceUsd \in InvoiceUsd
    BY DEF IntentType
  <2> HIDE DEF d, q, e
  <2>8. /\ store' \in Records
        /\ store'.invoiceAmount = intent.invoiceUsd
        /\ store'.send = IF store = None THEN None ELSE store.send
        /\ store'.confirmation = IF store = None THEN None ELSE store.confirmation
    BY <2>2, <2>6, <2>7, CreateRecord
  <2>9. store' # None
    BY <2>8, CreateOrderAssumption DEF CreateOrderAssumption
  <2>10. UNCHANGED <<now, intent, confirmed>>
    BY <1>6 DEF RecordOrder, RecordOrderOn
  <2> QED
    BY <2>4, <2>5, <2>8, <2>9, <2>10 DEF AmountKept, ConfirmationGiven, SendLeftAlone
<1>7. CASE RecordConfirmed(c)
  <2> DEFINE d == creator[c].deposit
             q == IF Kind = "native" THEN creator[c].lock ELSE None
             k == [digest |-> DepositDigest(d), lock |-> q]
  <2>1. Proceed(c, "confirm", TRUE, Idle)
    BY <1>7 DEF RecordConfirmed, RecordConfirmedOn
  <2>2. d \in LiveDeposits /\ q \in Locks \cup {None}
    BY <1>0, <2>1 DEF Proceed, DepositKnown, CreatorType
  <2>3. creator' \in [Creators -> CreatorType]
    BY <1>0, <2>1, CreatorStepType
  <2>4. DepositKnown'
    BY <2>1 DEF Proceed, Idle, DepositKnown
  <2>5. /\ store # None
        /\ store' = RecordConfirmation(store, d, q)
        /\ confirmed' = confirmed \cup {k}
        /\ UNCHANGED <<now, intent>>
    BY <1>7 DEF RecordConfirmed, RecordConfirmedOn, backendVars
  <2>6. k \in [digest : Addresses \X Amounts \X Others, lock : Locks \cup {None}]
    BY <2>2 DEF DepositDigest, LiveDeposits, Deposit
  <2>7. k.digest = DepositDigest(d)
    OBVIOUS
  <2> HIDE DEF d, q, k
  <2>8. /\ store' \in Records
        /\ store'.invoiceAmount = store.invoiceAmount
        /\ store'.send = store.send
        /\ store'.confirmation # None
        /\ store'.confirmation.depositDigest = DepositDigest(d)
    BY <2>2, <2>5, ConfirmRecord
  <2>9. store' # None
    BY <2>8, CreateOrderAssumption DEF CreateOrderAssumption
  <2> QED
    BY <2>3, <2>4, <2>5, <2>6, <2>7, <2>8, <2>9
    DEF AmountKept, ConfirmationGiven, SendLeftAlone
<1> QED
  BY <1>1, <1>2, <1>3, <1>4, <1>5, <1>6, <1>7 DEF CreateStep

LEMMA WorldKeeps ==
  ASSUME OrderInv, Tick \/ BackendMoves \/ AnotherPayer \/ LinkConsumed
  PROVE  OrderInv' /\ SendLeftAlone
<1> USE DEF OrderInv, TypeOKOrder, DepositKnown, AmountKept, ConfirmationGiven, SendLeftAlone
<1>1. CASE Tick
  BY <1>1, CreateOrderAssumption DEF Tick, Times, CreateOrderAssumption
<1>2. CASE BackendMoves
  BY <1>2 DEF BackendMoves, IntentType
<1>3. CASE AnotherPayer
  BY <1>3 DEF AnotherPayer, IntentType
<1>4. CASE LinkConsumed
  BY <1>4 DEF LinkConsumed, IntentType
<1> QED
  BY <1>1, <1>2, <1>3, <1>4

------------------------------------------------------------------------------
(***************************************************************************)
(* The send side.  A run that is past the claim is named by the record     *)
(* (ClaimHeld); the claim is for what the run is about to broadcast and    *)
(* within the limit (ClaimExact); a run that has not broadcast has no      *)
(* transaction out (NothingOut), one that was told "accepted" has (Taken); *)
(* and a run only ever carries a deposit a human confirmed (Checked).      *)
(***************************************************************************)
SendTypeOK ==
  /\ sender \in [Senders -> SenderType]
  /\ tx \in [Senders -> TxState]
  /\ sent \subseteq [by : Senders, source : LiveDeposits, at : Times, due : SUBSET Locks]
  /\ closedAt \in Times \cup {None}
  /\ fundedAt \in Times \cup {None}

Held == {"claimed", "unheard", "accepted", "submitted"}
Unsent == {"start", "state", "live", "prepare", "signed", "gated", "claimed"}

Given(digest) == \E k \in confirmed : k.digest = digest

Checked ==
  \A s \in Senders :
    /\ sender[s].at = "state" =>
         /\ sender[s].state \in Records
         /\ Given(sender[s].state.confirmation.depositDigest)
    /\ sender[s].at \in {"live", "prepare", "signed", "gated", "claimed"} =>
         /\ sender[s].source \in LiveDeposits
         /\ Given(DepositDigest(sender[s].source))
    /\ sender[s].at \in {"prepare", "signed", "gated", "claimed"} =>
         sender[s].source.receiverAddress \notin Blacklisted

ClaimHeld ==
  \A s \in Senders : sender[s].at \in Held =>
    /\ store # None
    /\ store.send # None
    /\ store.send.expectedTxHash = TxOf[s]

ClaimExact ==
  \A s \in Senders : sender[s].at = "claimed" =>
    /\ store.send.to = sender[s].source.receiverAddress
    /\ store.send.amount = sender[s].source.amount
    /\ intent.invoiceUsd <= MaxPaymentUsd

NothingOut ==
  \A s \in Senders : sender[s].at \in Unsent =>
    /\ tx[s] = "unsent"
    /\ \A r \in sent : r.by # s

Taken ==
  \A s \in Senders : sender[s].at \in {"accepted", "submitted"} => tx[s] # "unsent"

FlowInv ==
  /\ OrderInv /\ SendTypeOK
  /\ Checked /\ ClaimHeld /\ ClaimExact /\ NothingOut /\ Taken
  /\ PayOnce /\ PaidAsConfirmed /\ RecordNotAhead

LEMMA FlowInvInit == InitFlow => FlowInv
<1> SUFFICES ASSUME InitFlow PROVE FlowInv
  OBVIOUS
<1> USE DEF InitFlow, InitOrder
<1>1. Idle \in CreatorType /\ Idle.at = "start"
  BY DEF Idle, CreatorType, CreatorStep
<1>2. OrderInv
  BY <1>1, CreateOrderAssumption
  DEF OrderInv, TypeOKOrder, DepositKnown, AmountKept, ConfirmationGiven, Times,
      CreateOrderAssumption
<1>3. NotStarted \in SenderType /\ NotStarted.at = "start"
  BY DEF NotStarted, SenderType, SenderStep
<1>4. SendTypeOK
  BY <1>3 DEF SendTypeOK, TxState
<1>5. Checked /\ ClaimHeld /\ ClaimExact /\ NothingOut /\ Taken
  BY <1>3 DEF Checked, ClaimHeld, ClaimExact, NothingOut, Taken, Held, Unsent
<1> QED
  BY <1>2, <1>4, <1>5 DEF FlowInv, PayOnce, PaidAsConfirmed, RecordNotAhead

(* A step on the order's side keeps the send's side. *)
LEMMA OrderSideKeeps ==
  ASSUME FlowInv, OrderInv', SendLeftAlone,
         UNCHANGED <<sender, tx, sent>>, SendTypeOK'
  PROVE  FlowInv'
<1> USE DEF FlowInv, SendLeftAlone
<1>1. Checked'
  BY DEF Checked, Given
<1>2. ClaimHeld' /\ ClaimExact' /\ NothingOut' /\ Taken'
  BY DEF ClaimHeld, ClaimExact, NothingOut, Taken, Held
<1>3. PayOnce'
  BY DEF PayOnce
<1>4. PaidAsConfirmed'
  BY DEF PaidAsConfirmed
<1>5. RecordNotAhead'
  BY DEF RecordNotAhead
<1> QED
  BY <1>1, <1>2, <1>3, <1>4, <1>5

LEMMA SenderStepType ==
  ASSUME SendTypeOK, NEW s \in Senders, NEW from, NEW ok, NEW learnt \in SenderType,
         Advance(s, from, ok, learnt)
  PROVE  sender' \in [Senders -> SenderType]
<1>1. Ended \in SenderType
  BY DEF Ended, NotStarted, SenderType, SenderStep
<1> QED
  BY <1>1 DEF Advance, SendTypeOK

(* A gate: one run moves on, unclaimed, with what it has checked so far,   *)
(* or ends; nothing else changes.                                          *)
LEMMA GateKeeps ==
  ASSUME FlowInv, NEW s \in Senders, NEW from \in Unsent \ {"claimed"}, NEW ok,
         NEW learnt \in SenderType, Advance(s, from, ok, learnt),
         learnt.at \in {"state", "live", "prepare", "signed", "gated"},
         ok /\ learnt.at = "state" =>
           /\ learnt.state \in Records
           /\ Given(learnt.state.confirmation.depositDigest),
         ok /\ learnt.at # "state" =>
           /\ learnt.source \in LiveDeposits
           /\ Given(DepositDigest(learnt.source)),
         ok /\ learnt.at \in {"prepare", "signed", "gated"} =>
           learnt.source.receiverAddress \notin Blacklisted,
         UNCHANGED <<orderVars, tx, sent, closedAt, fundedAt>>
  PROVE  FlowInv'
<1> USE DEF FlowInv, orderVars
<1>1. sender \in [Senders -> SenderType]
  BY DEF SendTypeOK
<1>2. Ended.at = "done"
  BY DEF Ended, NotStarted
<1>3. sender[s].at = from /\ sender' = [sender EXCEPT ![s] = IF ok THEN learnt ELSE Ended]
  BY DEF Advance
<1>4. SendTypeOK'
  BY SenderStepType DEF SendTypeOK, Times
<1>5. OrderInv'
  BY DEF OrderInv, TypeOKOrder, DepositKnown, AmountKept, ConfirmationGiven
<1>6. Checked'
  BY <1>1, <1>2, <1>3 DEF Checked, Given
<1>7. ClaimHeld' /\ ClaimExact'
  BY <1>1, <1>2, <1>3 DEF ClaimHeld, ClaimExact, Held
<1>8. NothingOut' /\ Taken'
  BY <1>1, <1>2, <1>3 DEF NothingOut, Taken, Unsent
<1>9. PayOnce' /\ PaidAsConfirmed' /\ RecordNotAhead'
  BY DEF PayOnce, PaidAsConfirmed, RecordNotAhead
<1> QED
  BY <1>4, <1>5, <1>6, <1>7, <1>8, <1>9

LEMMA GatesKeep ==
  ASSUME FlowInv, NEW s \in Senders,
         ReadLocalRecord(s) \/ FetchLive(s) \/ CheckLink(s) \/ Sign(s) \/ FinalCheck(s)
  PROVE  FlowInv'
<1> USE DEF FlowInv
<1>0. sender[s] \in SenderType
  BY DEF SendTypeOK
<1>1. CASE ReadLocalRecord(s)
  <2> DEFINE learnt == [sender[s] EXCEPT !.at = "state", !.state = store, !.due = Promised]
             ok == store # None /\ store.send = None /\ store.confirmation # None
  <2>1. Promised \in SUBSET Locks
    BY LocalLocksInRange DEF Promised, OrderInv, TypeOKOrder
  <2>2. learnt \in SenderType /\ learnt.at = "state" /\ learnt.state = store
    BY <1>0, <2>1 DEF SenderType, SenderStep, OrderInv, TypeOKOrder
  <2>3. Advance(s, "start", ok, learnt) /\ UNCHANGED <<orderVars, tx, sent, closedAt, fundedAt>>
    BY <1>1 DEF ReadLocalRecord
  <2>4. ok => learnt.state \in Records /\ Given(learnt.state.confirmation.depositDigest)
    BY <2>2 DEF OrderInv, TypeOKOrder, ConfirmationGiven, Given
  <2> HIDE DEF learnt, ok
  <2> QED
    BY <2>2, <2>3, <2>4, GateKeeps DEF Unsent
<1>2. CASE FetchLive(s)
  <2> DEFINE live == intent.deposit
             state == sender[s].state
             until == IF Kind = "bitrefill" THEN state.invoiceExpiry
                      ELSE PriceLock(intent.quote, ConfirmedQuote(state), LocalQuote(state))
             learnt == [sender[s] EXCEPT !.at = IF Kind = "bitrefill" THEN "prepare" ELSE "live",
                          !.state = None, !.source = live, !.until = until]
             ok == /\ ~intent.funded
                   /\ DepositDigest(live) = state.confirmation.depositDigest
                   /\ live.receiverAddress = state.receiverAddress
                   /\ live.amount = state.amount
                   /\ Kind = "bitrefill" =>
                        InvoiceExpiryOk(now, until) /\ live.receiverAddress \notin Blacklisted
  <2>1. Advance(s, "state", ok, learnt) /\ UNCHANGED <<orderVars, tx, sent, closedAt, fundedAt>>
    BY <1>2 DEF FetchLive
  <2>2. state \in Records /\ Given(state.confirmation.depositDigest)
    BY <2>1 DEF Advance, Checked
  <2>3. live \in LiveDeposits /\ intent.quote \in Locks \cup {None}
    BY DEF OrderInv, TypeOKOrder, IntentType
  <2>4. until \in Locks \cup {None}
    BY <2>2, <2>3, PriceLockInRange, LocalLocksInRange DEF Records, StateRecord
  <2> HIDE DEF until
  <2>5. /\ learnt \in SenderType
        /\ learnt.at \in {"live", "prepare"}
        /\ learnt.source = live
        /\ learnt.at = "prepare" => Kind = "bitrefill"
    BY <1>0, <2>3, <2>4 DEF SenderType, SenderStep
  <2>6. ok => Given(DepositDigest(learnt.source))
    BY <2>2, <2>5
  <2>7. ok /\ learnt.at \in {"prepare", "signed", "gated"} =>
          learnt.source.receiverAddress \notin Blacklisted
    BY <2>5
  <2> HIDE DEF learnt, ok
  <2> QED
    BY <2>1, <2>3, <2>5, <2>6, <2>7, GateKeeps DEF Unsent
<1>3. CASE CheckLink(s)
  <2> DEFINE learnt == [sender[s] EXCEPT !.at = "prepare"]
             ok == /\ ExpiryOk(now, sender[s].until)
                   /\ intent.payable
                   /\ sender[s].source.receiverAddress \notin Blacklisted
  <2>1. Advance(s, "live", ok, learnt) /\ UNCHANGED <<orderVars, tx, sent, closedAt, fundedAt>>
    BY <1>3 DEF CheckLink
  <2>2. learnt \in SenderType /\ learnt.at = "prepare" /\ learnt.source = sender[s].source
    BY <1>0 DEF SenderType, SenderStep
  <2>3. sender[s].source \in LiveDeposits /\ Given(DepositDigest(sender[s].source))
    BY <2>1 DEF Advance, Checked
  <2>4. ok => learnt.source.receiverAddress \notin Blacklisted
    BY <2>2
  <2> HIDE DEF learnt, ok
  <2> QED
    BY <2>1, <2>2, <2>3, <2>4, GateKeeps DEF Unsent
<1>4. CASE Sign(s)
  <2> DEFINE learnt == [sender[s] EXCEPT !.at = "signed"]
  <2>1. PICK ready \in BOOLEAN : Advance(s, "prepare", ready, learnt)
    BY <1>4 DEF Sign
  <2>2. UNCHANGED <<orderVars, tx, sent, closedAt, fundedAt>>
    BY <1>4 DEF Sign
  <2>3. learnt \in SenderType /\ learnt.at = "signed" /\ learnt.source = sender[s].source
    BY <1>0 DEF SenderType, SenderStep
  <2>4. /\ sender[s].source \in LiveDeposits /\ Given(DepositDigest(sender[s].source))
        /\ sender[s].source.receiverAddress \notin Blacklisted
    BY <2>1 DEF Advance, Checked
  <2> HIDE DEF learnt
  <2> QED
    BY <2>1, <2>2, <2>3, <2>4, GateKeeps DEF Unsent
<1>5. CASE FinalCheck(s)
  <2> DEFINE learnt == [sender[s] EXCEPT !.at = "gated", !.gate = now]
             ok == IF Kind = "bitrefill"
                     THEN ~intent.funded /\ InvoiceExpiryOk(now, sender[s].until)
                     ELSE intent.payable /\ ExpiryOk(now, sender[s].until)
  <2>1. Advance(s, "signed", ok, learnt) /\ UNCHANGED <<orderVars, tx, sent, closedAt, fundedAt>>
    BY <1>5 DEF FinalCheck
  <2>2. learnt \in SenderType /\ learnt.at = "gated" /\ learnt.source = sender[s].source
    BY <1>0 DEF SenderType, SenderStep, OrderInv, TypeOKOrder
  <2>3. /\ sender[s].source \in LiveDeposits /\ Given(DepositDigest(sender[s].source))
        /\ sender[s].source.receiverAddress \notin Blacklisted
    BY <2>1 DEF Advance, Checked
  <2> HIDE DEF learnt, ok
  <2> QED
    BY <2>1, <2>2, <2>3, GateKeeps DEF Unsent
<1> QED
  BY <1>1, <1>2, <1>3, <1>4, <1>5

(* No other run is past its claim, and nothing was ever broadcast, when    *)
(* the record carries no send.                                             *)
LEMMA NoSendNoneHeld ==
  ASSUME FlowInv, store # None, store.send = None
  PROVE  sent = {} /\ \A s \in Senders : sender[s].at \notin Held
BY DEF FlowInv, PayOnce, ClaimHeld

LEMMA ClaimKeeps ==
  ASSUME FlowInv, NEW s \in Senders, Claim(s) PROVE FlowInv'
<1> USE DEF FlowInv
<1> DEFINE d == sender[s].source
           learnt == [sender[s] EXCEPT !.at = "claimed"]
<1>0. sender[s] \in SenderType /\ sender \in [Senders -> SenderType]
  BY DEF SendTypeOK
<1>1. /\ Advance(s, "gated", MayClaim(store), learnt)
      /\ UNCHANGED <<now, intent, creator, confirmed, tx, sent, closedAt, fundedAt>>
  BY DEF Claim, ClaimOn
<1>2. /\ learnt \in SenderType /\ learnt.at = "claimed" /\ learnt.source = d
  BY <1>0 DEF SenderType, SenderStep
<1>3. /\ d \in LiveDeposits /\ Given(DepositDigest(d))
      /\ d.receiverAddress \notin Blacklisted
  BY <1>1 DEF Advance, Checked
<1>4. SendTypeOK'
  BY <1>1, <1>2, SenderStepType DEF SendTypeOK, Times
<1>5. sender[s].at = "gated"
  BY <1>1 DEF Advance
<1>6. CASE ~MayClaim(store)
  <2>1. store' = store /\ sender' = [sender EXCEPT ![s] = Ended]
    BY <1>1, <1>6 DEF Claim, ClaimOn, Advance
  <2>2. Ended.at = "done"
    BY DEF Ended, NotStarted
  <2>3. OrderInv'
    BY <1>1, <2>1 DEF OrderInv, TypeOKOrder, DepositKnown, AmountKept, ConfirmationGiven
  <2>4. Checked' /\ ClaimHeld' /\ ClaimExact'
    BY <1>0, <1>1, <2>1, <2>2 DEF Checked, Given, ClaimHeld, ClaimExact, Held
  <2>5. NothingOut' /\ Taken'
    BY <1>0, <1>1, <2>1, <2>2 DEF NothingOut, Taken, Unsent
  <2>6. PayOnce' /\ PaidAsConfirmed' /\ RecordNotAhead'
    BY <1>1, <2>1 DEF PayOnce, PaidAsConfirmed, RecordNotAhead
  <2> QED
    BY <1>4, <2>3, <2>4, <2>5, <2>6
<1>7. CASE MayClaim(store)
  <2>1. /\ store' = ClaimSend(store, [to |-> d.receiverAddress, amount |-> d.amount,
                                      expectedTxHash |-> TxOf[s]])
        /\ sender' = [sender EXCEPT ![s] = learnt]
    BY <1>1, <1>7 DEF Claim, ClaimOn, Advance
  <2>2. store \in Records /\ store # None /\ store.send = None
    BY <1>7 DEF MayClaim, OrderInv, TypeOKOrder
  <2>3. TxOf[s] \in PaymentIds
    BY SendFlowAssumption DEF SendFlowAssumption
  <2> HIDE DEF d, learnt
  <2>4. /\ store' \in Records
        /\ store'.invoiceAmount = store.invoiceAmount
        /\ store'.confirmation = store.confirmation
        /\ store'.send # None
        /\ store'.send.status = "claimed"
        /\ store'.send.expectedTxHash = TxOf[s]
        /\ store'.send.to = d.receiverAddress
        /\ store'.send.amount = d.amount
    BY <1>3, <2>1, <2>2, <2>3, ClaimRecord
  <2>5. store' # None
    BY <2>4, CreateOrderAssumption DEF CreateOrderAssumption
  <2>6. sent = {} /\ \A t \in Senders : sender[t].at \notin Held
    BY <2>2, NoSendNoneHeld
  <2>7. OrderInv'
    BY <1>1, <2>2, <2>4, <2>5
    DEF OrderInv, TypeOKOrder, DepositKnown, AmountKept, ConfirmationGiven
  <2>8. intent.invoiceUsd <= MaxPaymentUsd
    BY <1>7, <2>2 DEF MayClaim, WithinPaymentLimit, OrderInv, AmountKept
  <2>9. Checked'
    BY <1>0, <1>1, <1>2, <1>3, <2>1 DEF Checked, Given
  <2>10. ClaimHeld'
    BY <1>0, <1>2, <2>1, <2>4, <2>5, <2>6 DEF ClaimHeld
  <2>11. ClaimExact'
    <3> SUFFICES ASSUME NEW t \in Senders, sender'[t].at = "claimed"
                 PROVE  /\ store'.send.to = sender'[t].source.receiverAddress
                        /\ store'.send.amount = sender'[t].source.amount
                        /\ intent'.invoiceUsd <= MaxPaymentUsd
      BY DEF ClaimExact
    <3>1. t = s
      BY <1>0, <2>1, <2>6 DEF Held
    <3> QED
      BY <1>0, <1>1, <1>2, <2>1, <2>4, <2>8, <3>1
  <2>12. NothingOut' /\ Taken'
    BY <1>0, <1>1, <1>2, <1>5, <2>1 DEF NothingOut, Taken, Unsent
  <2>13. PayOnce' /\ PaidAsConfirmed'
    BY <1>1, <2>6 DEF PayOnce, PaidAsConfirmed
  <2>14. RecordNotAhead'
    BY <2>4 DEF RecordNotAhead
  <2> QED
    BY <1>4, <2>7, <2>9, <2>10, <2>11, <2>12, <2>13, <2>14
<1> QED
  BY <1>6, <1>7

LEMMA BroadcastKeeps ==
  ASSUME FlowInv, NEW s \in Senders, Broadcast(s) PROVE FlowInv'
<1> USE DEF FlowInv
<1> DEFINE r == [by |-> s, source |-> sender[s].source, at |-> now, due |-> sender[s].due]
<1>0. /\ sender[s] \in SenderType /\ sender \in [Senders -> SenderType]
      /\ tx \in [Senders -> TxState] /\ sender[s].at = "claimed"
  BY DEF SendTypeOK, Broadcast
<1>1. PICK taken \in BOOLEAN, told \in BOOLEAN :
        /\ told => taken
        /\ tx' = [tx EXCEPT ![s] = IF taken THEN "posted" ELSE @]
        /\ sent' = IF taken THEN sent \cup {r} ELSE sent
        /\ sender' = [sender EXCEPT ![s] =
             [NotStarted EXCEPT !.at = IF told THEN "accepted" ELSE "unheard"]]
  BY DEF Broadcast
<1>2. UNCHANGED orderVars /\ UNCHANGED <<closedAt, fundedAt>>
  BY DEF Broadcast
<1>3. /\ store # None /\ store.send # None /\ store.send.expectedTxHash = TxOf[s]
      /\ store.send.to = sender[s].source.receiverAddress
      /\ store.send.amount = sender[s].source.amount
      /\ intent.invoiceUsd <= MaxPaymentUsd
  BY <1>0 DEF ClaimHeld, ClaimExact, Held
<1>4. sent = {}
  <2> SUFFICES ASSUME NEW q \in sent PROVE FALSE
    OBVIOUS
  <2>1. TxOf[q.by] = TxOf[s] /\ q.by \in Senders
    BY <1>3 DEF PayOnce, SendTypeOK
  <2>2. q.by = s
    BY <2>1, SendFlowAssumption DEF SendFlowAssumption
  <2> QED
    BY <1>0, <2>2 DEF NothingOut, Unsent
<1>5. /\ sender[s].source \in LiveDeposits /\ Given(DepositDigest(sender[s].source))
      /\ sender[s].source.receiverAddress \notin Blacklisted
  BY <1>0 DEF Checked
<1>6. r \in [by : Senders, source : LiveDeposits, at : Times, due : SUBSET Locks]
  BY <1>0, <1>5 DEF SenderType, OrderInv, TypeOKOrder
<1>7. /\ r.by = s /\ r.source = sender[s].source
  OBVIOUS
<1> DEFINE next == [NotStarted EXCEPT !.at = IF told THEN "accepted" ELSE "unheard"]
<1>8. /\ next \in SenderType
      /\ next.at = IF told THEN "accepted" ELSE "unheard"
  BY DEF NotStarted, SenderType, SenderStep
<1> HIDE DEF r, next
<1>9. sender' = [sender EXCEPT ![s] = next]
  BY <1>1 DEF next
<1>10. OrderInv'
  BY <1>2 DEF orderVars, OrderInv, TypeOKOrder, DepositKnown, AmountKept, ConfirmationGiven
<1>11. SendTypeOK'
  BY <1>0, <1>1, <1>2, <1>6, <1>8, <1>9 DEF SendTypeOK, TxState, Times
<1>12. Checked'
  BY <1>0, <1>2, <1>8, <1>9 DEF Checked, Given, orderVars
<1>13. ClaimHeld' /\ ClaimExact'
  BY <1>0, <1>2, <1>3, <1>8, <1>9 DEF ClaimHeld, ClaimExact, orderVars, Held
<1>14. NothingOut'
  BY <1>0, <1>1, <1>4, <1>7, <1>8, <1>9 DEF NothingOut, Unsent
<1>15. Taken'
  BY <1>0, <1>1, <1>8, <1>9 DEF Taken
<1>16. PayOnce'
  BY <1>1, <1>2, <1>3, <1>4, <1>7 DEF PayOnce, orderVars
<1>17. PaidAsConfirmed'
  BY <1>1, <1>2, <1>3, <1>4, <1>5, <1>7 DEF PaidAsConfirmed, Given, orderVars
<1>18. RecordNotAhead'
  BY <1>0, <1>1, <1>2 DEF RecordNotAhead, NothingOut, Unsent, orderVars, TxState
<1> QED
  BY <1>10, <1>11, <1>12, <1>13, <1>14, <1>15, <1>16, <1>17, <1>18

LEMMA ResultKeeps ==
  ASSUME FlowInv, NEW s \in Senders, NEW from \in {"unheard", "accepted", "submitted"},
         NEW status \in SendStatus, NEW next \in {"submitted", "done"},
         RecordResultOn(store, s, from, status, next),
         status = "submitted" => tx[s] # "unsent",
         status = "confirmed" => tx[s] \in {"landed", "replaced"},
         next = "submitted" => from = "accepted"
  PROVE  FlowInv'
<1> USE DEF FlowInv
<1>0. /\ sender[s] \in SenderType /\ sender \in [Senders -> SenderType]
      /\ sender[s].at = from /\ from \in Held
  BY DEF SendTypeOK, RecordResultOn, Held
<1>1. UNCHANGED <<now, intent, creator, confirmed, tx, sent, closedAt, fundedAt>>
  BY DEF RecordResultOn
<1>2. /\ store # None /\ store.send # None /\ store.send.expectedTxHash = TxOf[s]
  BY <1>0 DEF ClaimHeld
<1>3. store \in Records
  BY <1>2 DEF OrderInv, TypeOKOrder
<1>4. sender' = [sender EXCEPT ![s].at = next]
  BY DEF RecordResultOn
<1>5. /\ store' \in Records /\ store' # None
      /\ store'.invoiceAmount = store.invoiceAmount
      /\ store'.confirmation = store.confirmation
      /\ store'.send # None
      /\ store'.send.expectedTxHash = store.send.expectedTxHash
      /\ store'.send.to = store.send.to
      /\ store'.send.amount = store.send.amount
      /\ store'.send.status = status
  <2>1. store' = RecordSendResult(store, status)
    BY DEF RecordResultOn
  <2>2. /\ store' \in Records
        /\ store'.invoiceAmount = store.invoiceAmount
        /\ store'.confirmation = store.confirmation
        /\ store'.send # None
        /\ store'.send.status = status
        /\ store'.send.expectedTxHash = store.send.expectedTxHash
        /\ store'.send.to = store.send.to
        /\ store'.send.amount = store.send.amount
    BY <1>2, <1>3, <2>1, ResultRecord
  <2> QED
    BY <2>2, CreateOrderAssumption DEF CreateOrderAssumption
<1>6. OrderInv'
  BY <1>1, <1>2, <1>5 DEF OrderInv, TypeOKOrder, DepositKnown, AmountKept, ConfirmationGiven
<1>7. SendTypeOK'
  BY <1>0, <1>1, <1>4 DEF SendTypeOK, SenderType, SenderStep, Times
<1>8. \A t \in Senders : t # s => sender'[t] = sender[t]
  BY <1>0, <1>4
<1>9. sender'[s].at = next /\ (next = "submitted" => tx[s] # "unsent")
  BY <1>0, <1>4 DEF SenderType, Taken
<1>10. Checked'
  BY <1>1, <1>4, <1>8, <1>9 DEF Checked, Given
<1>11. ClaimHeld' /\ ClaimExact'
  BY <1>0, <1>1, <1>2, <1>5, <1>8, <1>9 DEF ClaimHeld, ClaimExact, Held
<1>12. NothingOut' /\ Taken'
  BY <1>1, <1>4, <1>8, <1>9 DEF NothingOut, Taken, Unsent
<1>13. PayOnce' /\ PaidAsConfirmed'
  BY <1>1, <1>2, <1>5 DEF PayOnce, PaidAsConfirmed
<1>14. RecordNotAhead'
  <2> SUFFICES ASSUME NEW t \in Senders, store'.send.expectedTxHash = TxOf[t]
               PROVE  /\ store'.send.status = "submitted" => tx'[t] # "unsent"
                      /\ store'.send.status = "confirmed" => tx'[t] \in {"landed", "replaced"}
    BY DEF RecordNotAhead
  <2>1. t = s
    BY <1>2, <1>5, SendFlowAssumption DEF SendFlowAssumption
  <2> QED
    BY <1>1, <1>2, <1>5, <2>1 DEF RecordNotAhead
<1> QED
  BY <1>6, <1>7, <1>10, <1>11, <1>12, <1>13, <1>14

LEMMA MineKeeps ==
  ASSUME FlowInv, NEW s \in Senders, Mine(s) PROVE FlowInv'
<1> USE DEF FlowInv
<1>1. PICK r \in TxState \ {"unsent", "posted"} : tx' = [tx EXCEPT ![s] = r]
  BY DEF Mine
<1>2. /\ UNCHANGED orderVars /\ UNCHANGED <<sender, sent, closedAt, fundedAt>>
      /\ tx[s] = "posted" /\ tx \in [Senders -> TxState]
  BY DEF Mine, SendTypeOK
<1>3. OrderInv' /\ Checked' /\ ClaimHeld' /\ ClaimExact'
  BY <1>2 DEF orderVars, OrderInv, TypeOKOrder, DepositKnown, AmountKept, ConfirmationGiven,
              Checked, Given, ClaimHeld, ClaimExact
<1>4. SendTypeOK' /\ NothingOut' /\ Taken'
  BY <1>1, <1>2 DEF SendTypeOK, TxState, Times, NothingOut, Taken
<1>5. PayOnce' /\ PaidAsConfirmed' /\ RecordNotAhead'
  BY <1>1, <1>2 DEF PayOnce, PaidAsConfirmed, RecordNotAhead, orderVars
<1> QED
  BY <1>3, <1>4, <1>5

(* A run that ends early leaves everything to the others. *)
LEMMA StopKeeps ==
  ASSUME FlowInv, NEW s \in Senders, Stop(s) PROVE FlowInv'
<1> USE DEF FlowInv
<1>1. /\ sender' = [sender EXCEPT ![s] = Ended] /\ UNCHANGED <<orderVars, tx, sent, closedAt, fundedAt>>
      /\ sender \in [Senders -> SenderType]
  BY DEF Stop, SendTypeOK
<1>2. Ended \in SenderType /\ Ended.at = "done"
  BY DEF Ended, NotStarted, SenderType, SenderStep
<1>3. /\ \A t \in Senders : t # s => sender'[t] = sender[t]
      /\ sender'[s].at = "done"
  BY <1>1, <1>2
<1>4. OrderInv' /\ SendTypeOK'
  BY <1>1, <1>2
  DEF orderVars, OrderInv, TypeOKOrder, DepositKnown, AmountKept, ConfirmationGiven,
      SendTypeOK, Times
<1>5. Checked' /\ ClaimHeld' /\ ClaimExact' /\ NothingOut' /\ Taken'
  BY <1>1, <1>3
  DEF orderVars, Checked, Given, ClaimHeld, ClaimExact, NothingOut, Taken, Held, Unsent
<1>6. PayOnce' /\ PaidAsConfirmed' /\ RecordNotAhead'
  BY <1>1 DEF orderVars, PayOnce, PaidAsConfirmed, RecordNotAhead
<1> QED
  BY <1>4, <1>5, <1>6

LEMMA FlowInvStep == FlowInv /\ [NextFlow]_flowVars => FlowInv'
<1> SUFFICES ASSUME FlowInv, [NextFlow]_flowVars PROVE FlowInv'
  OBVIOUS
<1>0. OrderInv /\ SendTypeOK
  BY DEF FlowInv
<1>1. ASSUME NEW c \in Creators, CreateStep(c), UNCHANGED sendVars PROVE FlowInv'
  <2>1. OrderInv' /\ SendLeftAlone
    BY <1>0, <1>1, CreateStepKeeps
  <2>2. SendTypeOK'
    BY <1>0, <1>1 DEF SendTypeOK, sendVars, Times
  <2> QED
    BY <1>1, <2>1, <2>2, OrderSideKeeps DEF sendVars
<1>2. ASSUME NEW s \in Senders, SendStep(s) PROVE FlowInv'
  <2>1. CASE ReadLocalRecord(s) \/ FetchLive(s) \/ CheckLink(s) \/ Sign(s) \/ FinalCheck(s)
    BY <2>1, GatesKeep
  <2>2. CASE Claim(s)
    BY <2>2, ClaimKeeps
  <2>3. CASE Broadcast(s)
    BY <2>3, BroadcastKeeps
  <2>4. CASE RecordUnheard(s)
    <3>1. PICK landed \in BOOLEAN :
            RecordResultOn(store, s, "unheard", IF landed THEN "ambiguous" ELSE "failed", "done")
      BY <2>4 DEF RecordUnheard, RecordUnheardOn
    <3> DEFINE status == IF landed THEN "ambiguous" ELSE "failed"
    <3>2. status \in SendStatus /\ status \notin {"submitted", "confirmed"}
      BY DEF SendStatus
    <3>3. RecordResultOn(store, s, "unheard", status, "done")
      BY <3>1
    <3> HIDE DEF status
    <3> QED
      BY <3>2, <3>3, ResultKeeps
  <2>5. CASE RecordSubmitted(s)
    <3>1. RecordResultOn(store, s, "accepted", "submitted", "submitted")
      BY <2>5 DEF RecordSubmitted, RecordSubmittedOn
    <3>2. tx[s] # "unsent"
      BY <3>1 DEF RecordResultOn, FlowInv, Taken
    <3> QED
      BY <3>1, <3>2, ResultKeeps DEF SendStatus
  <2>6. CASE RecordReceipt(s)
    <3>1. CASE /\ tx[s] \in {"landed", "replaced"}
               /\ RecordResultOn(store, s, "submitted", "confirmed", "done")
      BY <3>1, ResultKeeps DEF SendStatus
    <3>2. CASE RecordResultOn(store, s, "submitted", "failed", "done")
      BY <3>2, ResultKeeps DEF SendStatus
    <3> QED
      BY <2>6, <3>1, <3>2 DEF RecordReceipt, RecordReceiptOn
  <2>7. CASE Stop(s)
    BY <2>7, StopKeeps
  <2> QED
    BY <1>2, <2>1, <2>2, <2>3, <2>4, <2>5, <2>6, <2>7 DEF SendStep
<1>3. ASSUME NEW s \in Senders, Mine(s) PROVE FlowInv'
  BY <1>3, MineKeeps
<1>4. CASE TickFlow \/ Funded \/ Closed \/ (BackendMoves /\ UNCHANGED sendVars)
  <2>1. OrderInv' /\ SendLeftAlone
    BY <1>0, <1>4, WorldKeeps DEF TickFlow, Funded, Closed
  <2>2. UNCHANGED <<sender, tx, sent>>
    BY <1>4 DEF TickFlow, Funded, Closed, sendVars
  <2>3. now \in Times
    BY <1>0 DEF OrderInv, TypeOKOrder
  <2>4. SendTypeOK'
    BY <1>0, <1>4, <2>2, <2>3 DEF SendTypeOK, TickFlow, Funded, Closed, sendVars, Times
  <2> QED
    BY <2>1, <2>2, <2>4, OrderSideKeeps
<1>5. CASE UNCHANGED flowVars
  <2>1. OrderInv' /\ SendLeftAlone /\ SendTypeOK' /\ UNCHANGED <<sender, tx, sent>>
    BY <1>0, <1>5
    DEF flowVars, orderVars, sendVars, OrderInv, TypeOKOrder, DepositKnown, AmountKept,
        ConfirmationGiven, SendLeftAlone, SendTypeOK, Times
  <2> QED
    BY <2>1, OrderSideKeeps
<1> QED
  BY <1>1, <1>2, <1>3, <1>4, <1>5 DEF NextFlow

LEMMA FlowInvAlways == SpecFlow => []FlowInv
BY FlowInvInit, FlowInvStep, PTL DEF SpecFlow

------------------------------------------------------------------------------
(* The state of the order, its runs and the chain is always well-typed. *)
THEOREM FlowTypeCorrect == SpecFlow => []TypeOKFlow
<1>1. FlowInv => TypeOKFlow
  BY DEF FlowInv, OrderInv, SendTypeOK, TypeOKFlow
<1> QED
  BY <1>1, FlowInvAlways, PTL

(* However many invocations create, confirm and send, and wherever each of *)
(* them dies, at most one transfer is broadcast, and the record names it   *)
(* for good: its hash, destination and amount.                             *)
THEOREM PaysOnce == SpecFlow => []PayOnce
<1>1. FlowInv => PayOnce
  BY DEF FlowInv
<1> QED
  BY <1>1, FlowInvAlways, PTL

(* Whatever the backend swaps and whoever re-creates the order meanwhile,  *)
(* what is broadcast is exactly a deposit that was confirmed, is not       *)
(* blacklisted, and is for an invoice within the payment limit.            *)
THEOREM PaysAsConfirmed == SpecFlow => []PaidAsConfirmed
<1>1. FlowInv => PaidAsConfirmed
  BY DEF FlowInv
<1> QED
  BY <1>1, FlowInvAlways, PTL

(* The record says "submitted" or "confirmed" only of a transaction the    *)
(* network took, or that landed.                                           *)
THEOREM RecordsNotAhead == SpecFlow => []RecordNotAhead
<1>1. FlowInv => RecordNotAhead
  BY DEF FlowInv
<1> QED
  BY <1>1, FlowInvAlways, PTL

------------------------------------------------------------------------------
(***************************************************************************)
(* Paying an order implements the atomic store: every step of every        *)
(* invocation is one Create, Confirm, Claim or Result of OrderStore, or    *)
(* leaves the file and the right to broadcast as they are.                 *)
(***************************************************************************)
Granted ==
  {s \in Senders : store # None /\ store.send # None /\ store.send.expectedTxHash = TxOf[s]}

Fields ==
  [invoiceAmount  : InvoiceUsd,
   quoteExpiresAt : Locks \cup {None},
   invoiceExpiry  : Locks \cup {None}]

(* The file and the right to broadcast are as before. *)
StoreStutters == store' = store /\ Granted' = Granted

StoreStep == Store!StoreNext \/ StoreStutters

(* The operators of StateFile mean the same when OrderStore uses them.     *)
LEMMA SameOperators ==
  /\ Store!SendStatus = SendStatus
  /\ \A st, rec : Store!CreateOrderRecord(st, rec) = CreateOrderRecord(st, rec)
  /\ \A st, d, q : Store!RecordConfirmation(st, d, q) = RecordConfirmation(st, d, q)
  /\ \A st : Store!MayClaim(st) <=> MayClaim(st)
  /\ \A st, i : Store!ClaimSend(st, i) = ClaimSend(st, i)
  /\ \A st : Store!MayRecordResult(st) <=> MayRecordResult(st)
  /\ \A st, x : Store!RecordSendResult(st, x) = RecordSendResult(st, x)
<1>1. /\ Store!SendStatus = SendStatus
      /\ \A st, d, q : Store!RecordConfirmation(st, d, q) = RecordConfirmation(st, d, q)
      /\ \A st, i : Store!ClaimSend(st, i) = ClaimSend(st, i)
      /\ \A st, x : Store!RecordSendResult(st, x) = RecordSendResult(st, x)
  BY DEF Store!SendStatus, SendStatus, Store!RecordConfirmation, RecordConfirmation,
         Store!DepositDigest, DepositDigest, Store!ClaimSend, ClaimSend,
         Store!RecordSendResult, RecordSendResult
<1>2. \A st, rec : Store!CreateOrderRecord(st, rec) = CreateOrderRecord(st, rec)
  BY DEF Store!CreateOrderRecord, CreateOrderRecord, Store!Earlier, Earlier
<1>3. /\ \A st : Store!MayClaim(st) <=> MayClaim(st)
      /\ \A st : Store!MayRecordResult(st) <=> MayRecordResult(st)
  BY DEF Store!MayClaim, MayClaim, Store!WithinPaymentLimit, WithinPaymentLimit,
         Store!MaxPaymentUsd, MaxPaymentUsd, Store!MayRecordResult, MayRecordResult
<1> QED
  BY <1>1, <1>2, <1>3

LEMMA StoreUnchanged ==
  ASSUME UNCHANGED store PROVE StoreStutters
BY DEF StoreStutters, Granted

LEMMA CreatesRefine ==
  ASSUME FlowInv, NEW c \in Creators, CreateStep(c)
  PROVE  StoreStep
<1> USE DEF FlowInv, OrderInv, TypeOKOrder
<1>0. creator[c] \in CreatorType
  OBVIOUS
<1>1. CASE RecordOrder(c)
  <2> DEFINE d == creator[c].deposit
             q == IF Kind = "native" THEN creator[c].lock ELSE None
             e == IF Kind = "bitrefill" THEN creator[c].lock ELSE None
             f == [invoiceAmount |-> intent.invoiceUsd, quoteExpiresAt |-> q, invoiceExpiry |-> e]
  <2>1. PICK confirm \in BOOLEAN :
          Proceed(c, "record", confirm, [creator[c] EXCEPT !.at = "confirm"])
    BY <1>1 DEF RecordOrder, RecordOrderOn
  <2>2. d \in LiveDeposits /\ q \in Locks \cup {None} /\ e \in Locks \cup {None}
    BY <1>0, <2>1 DEF Proceed, DepositKnown, CreatorType
  <2>3. f \in Fields
    BY <2>2 DEF Fields, IntentType
  <2>4. store' = CreateOrderRecord(store, Store!OrderOf(d, f))
    BY <1>1 DEF RecordOrder, RecordOrderOn, Store!OrderOf
  <2>5. SendLeftAlone
    BY <1>1, CreateStepKeeps DEF CreateStep
  <2>6. Granted' = Granted
    BY <2>5 DEF SendLeftAlone, Granted
  <2> HIDE DEF d, f
  <2>7. Store!Create(d, f)
    BY <2>4, <2>6, SameOperators DEF Store!Create, Granted
  <2> QED
    BY <2>2, <2>3, <2>7 DEF StoreStep, Store!StoreNext, Fields
<1>2. CASE RecordConfirmed(c)
  <2> DEFINE d == creator[c].deposit
             q == IF Kind = "native" THEN creator[c].lock ELSE None
             f == [invoiceAmount |-> intent.invoiceUsd, quoteExpiresAt |-> q, invoiceExpiry |-> None]
  <2>1. Proceed(c, "confirm", TRUE, Idle)
    BY <1>2 DEF RecordConfirmed, RecordConfirmedOn
  <2>2. d \in LiveDeposits /\ q \in Locks \cup {None}
    BY <1>0, <2>1 DEF Proceed, DepositKnown, CreatorType
  <2>3. f \in Fields /\ f.quoteExpiresAt = q
    BY <2>2 DEF Fields, IntentType
  <2>4. store # None /\ store' = RecordConfirmation(store, d, q)
    BY <1>2 DEF RecordConfirmed, RecordConfirmedOn
  <2>5. SendLeftAlone
    BY <1>2, CreateStepKeeps DEF CreateStep
  <2>6. Granted' = Granted
    BY <2>5 DEF SendLeftAlone, Granted
  <2> HIDE DEF d, q, f
  <2>7. Store!Confirm(d, f.quoteExpiresAt)
    BY <2>3, <2>4, <2>6, SameOperators DEF Store!Confirm, Granted
  <2> QED
    BY <2>2, <2>3, <2>7 DEF StoreStep, Store!StoreNext, Fields
<1>3. CASE \/ CreateInvoice(c) \/ CreateBitrefill(c) \/ FetchPayment(c)
           \/ CheckExpiry(c) \/ CheckPayable(c)
  <2>1. store' = store
    BY <1>3 DEF CreateInvoice, CreateBitrefill, FetchPayment, CheckExpiry, CheckPayable
  <2> QED
    BY <2>1, StoreUnchanged DEF StoreStep
<1> QED
  BY <1>1, <1>2, <1>3 DEF CreateStep

LEMMA ClaimRefines ==
  ASSUME FlowInv, NEW s \in Senders, Claim(s)
  PROVE  StoreStep
<1>1. CASE ~MayClaim(store)
  <2>1. store' = store
    BY <1>1 DEF Claim, ClaimOn
  <2> QED
    BY <2>1, StoreUnchanged DEF StoreStep
<1>2. CASE MayClaim(store)
  <2>1. sender[s].at = "gated"
    BY DEF Claim, ClaimOn, Advance
  <2>2. PICK d \in LiveDeposits : d = sender[s].source
    BY <2>1 DEF FlowInv, Checked
  <2>3. store' = ClaimSend(store, Store!Intent(s, d))
    BY <1>2, <2>2 DEF Claim, ClaimOn, Store!Intent
  <2>4. store \in Records /\ store # None /\ store.send = None
    BY <1>2 DEF MayClaim, FlowInv, OrderInv, TypeOKOrder
  <2>5. TxOf[s] \in PaymentIds
    BY SendFlowAssumption DEF SendFlowAssumption
  <2>6. /\ store' \in Records /\ store'.send # None
        /\ store'.send.expectedTxHash = TxOf[s]
    BY <2>2, <2>3, <2>4, <2>5, ClaimRecord DEF Store!Intent
  <2>7. store' # None
    BY <2>6, CreateOrderAssumption DEF CreateOrderAssumption
  <2>8. Granted = {} /\ Granted' = {s}
    BY <2>4, <2>6, <2>7, SendFlowAssumption DEF Granted, SendFlowAssumption
  <2>9. Store!Claim(s, d)
    BY <1>2, <2>3, <2>8, SameOperators DEF Store!Claim, Granted
  <2> QED
    BY <2>9 DEF StoreStep, Store!StoreNext
<1> QED
  BY <1>1, <1>2

LEMMA ResultRefines ==
  ASSUME FlowInv, NEW s \in Senders, NEW from \in Held, NEW status \in SendStatus \ {"claimed"},
         NEW next, RecordResultOn(store, s, from, status, next)
  PROVE  StoreStep
<1>1. sender[s].at = from
  BY DEF RecordResultOn
<1>2. /\ store # None /\ store.send # None /\ store.send.expectedTxHash = TxOf[s]
      /\ store \in Records
  BY <1>1 DEF FlowInv, ClaimHeld, OrderInv, TypeOKOrder
<1>3. store' = RecordSendResult(store, status)
  BY DEF RecordResultOn
<1>4. /\ store' \in Records /\ store'.send # None
      /\ store'.send.expectedTxHash = store.send.expectedTxHash
  BY <1>2, <1>3, ResultRecord
<1>5. store' # None
  BY <1>4, CreateOrderAssumption DEF CreateOrderAssumption
<1>6. Granted' = Granted /\ s \in Granted
  BY <1>2, <1>4, <1>5 DEF Granted
<1>7. Store!Result(s, status)
  BY <1>2, <1>3, <1>6, SameOperators DEF Store!Result, Granted, MayRecordResult
<1> QED
  BY <1>7, SameOperators DEF StoreStep, Store!StoreNext

LEMMA FlowRefines == FlowInv /\ [NextFlow]_flowVars => StoreStep
<1> SUFFICES ASSUME FlowInv, [NextFlow]_flowVars PROVE StoreStep
  OBVIOUS
<1>1. ASSUME NEW c \in Creators, CreateStep(c) PROVE StoreStep
  BY <1>1, CreatesRefine
<1>2. ASSUME NEW s \in Senders, SendStep(s) PROVE StoreStep
  <2>1. CASE \/ ReadLocalRecord(s) \/ FetchLive(s) \/ CheckLink(s) \/ Sign(s)
             \/ FinalCheck(s) \/ Broadcast(s) \/ Stop(s)
    <3>1. store' = store
      BY <2>1
      DEF ReadLocalRecord, FetchLive, CheckLink, Sign, FinalCheck, Broadcast, Stop, orderVars
    <3> QED
      BY <3>1, StoreUnchanged DEF StoreStep
  <2>2. CASE Claim(s)
    BY <2>2, ClaimRefines
  <2>3. CASE RecordUnheard(s)
    <3>1. PICK status \in {"ambiguous", "failed"} :
          RecordResultOn(store, s, "unheard", status, "done")
      BY <2>3 DEF RecordUnheard, RecordUnheardOn
    <3> QED
      BY <3>1, ResultRefines DEF Held, SendStatus
  <2>4. CASE RecordSubmitted(s)
    BY <2>4, ResultRefines DEF RecordSubmitted, RecordSubmittedOn, Held, SendStatus
  <2>5. CASE RecordReceipt(s)
    <3>1. PICK status \in {"confirmed", "failed"} :
          RecordResultOn(store, s, "submitted", status, "done")
      BY <2>5 DEF RecordReceipt, RecordReceiptOn
    <3> QED
      BY <3>1, ResultRefines DEF Held, SendStatus
  <2> QED
    BY <1>2, <2>1, <2>2, <2>3, <2>4, <2>5 DEF SendStep
<1>3. CASE \/ \E s \in Senders : Mine(s)
           \/ BackendMoves \/ TickFlow \/ Funded \/ Closed \/ UNCHANGED flowVars
  <2>1. store' = store
    BY <1>3 DEF Mine, BackendMoves, TickFlow, Tick, Funded, AnotherPayer, Closed, LinkConsumed,
                flowVars, orderVars
  <2> QED
    BY <2>1, StoreUnchanged DEF StoreStep
<1> QED
  BY <1>1, <1>2, <1>3 DEF NextFlow

(* The invocations that pay an order use its file as if every call to      *)
(* state.mjs took effect at once: the specification of the whole flow      *)
(* implements OrderStore.                                                  *)
THEOREM FlowImplementsStore == SpecFlow => ImplementsOrderStore
<1>1. InitFlow => Store!StoreInit
  BY DEF InitFlow, InitOrder, Store!StoreInit
<1>2. FlowInv /\ [NextFlow]_flowVars => [Store!StoreNext]_(Store!storeVars)
  BY FlowRefines DEF StoreStep, StoreStutters, Granted, Store!storeVars
<1> QED
  BY <1>1, <1>2, FlowInvAlways, PTL DEF SpecFlow, ImplementsOrderStore, Store!StoreSpec
------------------------------------------------------------------------------
(***************************************************************************)
(* Time.  What a sender relies on is not a property of the steps it takes  *)
(* alone: the gap after its last gate is bounded by the clock's guard, the *)
(* deadline it holds was read from a record that may since have moved, and *)
(* somebody else may pay while it signs.                                   *)
(***************************************************************************)
Past == {"gated", "claimed"}

(* A run past its last gate is there for at most MaxGap, passed the gate   *)
(* before the deadline and before anybody else had paid, and nothing was   *)
(* broadcast later than that allows.                                       *)
GateFresh ==
  \A s \in Senders : sender[s].at \in Past =>
    /\ sender[s].gate \in Times
    /\ sender[s].gate <= now
    /\ now <= sender[s].gate + MaxGap
    /\ Kind # "bitrefill" => sender[s].gate + Margin < Deadline
    /\ Kind # "bitrefill" /\ closedAt # None => sender[s].gate <= closedAt
    /\ Kind = "bitrefill" /\ fundedAt # None => sender[s].gate <= fundedAt

OthersKnown ==
  /\ closedAt # None => ~intent.payable /\ closedAt <= now
  /\ fundedAt # None => intent.funded /\ fundedAt <= now

SentBefore ==
  \A r \in sent :
    /\ r.at <= now
    /\ Kind # "bitrefill" => r.at < Deadline
    /\ Kind # "bitrefill" /\ closedAt # None => r.at <= closedAt + MaxGap
    /\ Kind = "bitrefill" /\ fundedAt # None => r.at <= fundedAt + MaxGap

GateInv == GateFresh /\ OthersKnown /\ SentBefore

(* Create runs of a native order do not overlap between the read of the    *)
(* recorded lock and the confirmation: each of these is a call of its own  *)
(* to the state file, and a run that overlaps may record a later lock (run *)
(* order_native_race).  One creator always takes turns with itself, and    *)
(* other kinds of order need no such thing.                                *)
InTurn ==
  Kind = "native" =>
    \A c, d \in Creators :
      /\ creator[c].at \in {"checked", "record", "confirm"}
      /\ creator[d].at \in {"checked", "record", "confirm"}
      => c = d

(* The recorded lock is the earliest: no later than what was ever          *)
(* confirmed, and about to be replaced by an earlier one only.             *)
EarliestRecorded ==
  /\ Kind # "native" => \A k \in confirmed : k.lock = None
  /\ Kind = "native" =>
       /\ store # None => LocalQuote(store) # None
       /\ \A k \in confirmed :
            store # None /\ k.lock # None /\ LocalQuote(store) <= k.lock
       /\ \A c \in Creators :
            /\ creator[c].at \in {"checked", "record", "confirm"} => creator[c].lock # None
            /\ creator[c].at \in {"checked", "record"} /\ store # None =>
                 creator[c].lock <= LocalQuote(store)
            /\ creator[c].at = "confirm" =>
                 store # None /\ creator[c].lock = LocalQuote(store)

(* The deadline in the record a run has read, of the order's kind. *)
DeadlineIn(state) == IF Kind = "bitrefill" THEN LocalExpiry(state) ELSE LocalQuote(state)

NoLater(deadline, due) == \A limit \in due : deadline # None /\ deadline <= limit

(* What a run holds itself to is no later than all it was promised. *)
HeldToPromise ==
  \A s \in Senders :
    /\ sender[s].due # {} => Kind # "stable"
    /\ sender[s].at = "state" => NoLater(DeadlineIn(sender[s].state), sender[s].due)
    /\ sender[s].at \in {"live", "prepare", "signed", "gated", "claimed"} =>
         NoLater(sender[s].until, sender[s].due)
    /\ sender[s].at \in Past => \A limit \in sender[s].due : sender[s].gate + Margin <= limit

SentAsPromised == \A r \in sent : \A limit \in r.due : r.at < limit

PromiseInv == EarliestRecorded /\ HeldToPromise /\ SentAsPromised

LEMMA Numbers ==
  /\ Deadline \in Nat /\ Margin \in Nat /\ MaxGap \in Nat /\ MaxGap < Margin
  /\ Locks \subseteq Nat /\ Times \subseteq Nat
  /\ None \notin Locks /\ None \notin Nat /\ None \notin Records
<1>1. Deadline \in Nat /\ Margin \in Nat /\ MaxTime \in Nat /\ Locks \subseteq 0..MaxTime
  BY CreateOrderAssumption DEF CreateOrderAssumption
<1>2. MaxGap \in Nat /\ MaxGap < Margin
  BY SendFlowAssumption DEF SendFlowAssumption
<1>3. Locks \subseteq Nat /\ Times \subseteq Nat
  BY <1>1 DEF Times
<1>4. None \notin Nat /\ None \notin Records
  BY CreateOrderAssumption DEF CreateOrderAssumption
<1> QED
  BY <1>1, <1>2, <1>3, <1>4

(* What an invocation brings to the record of another kind of order is     *)
(* nothing; the record's deadlines are what the create runs made them.     *)
SameDeadlines ==
  /\ store' = None <=> store = None
  /\ LocalQuote(store') = LocalQuote(store)
  /\ LocalExpiry(store') = LocalExpiry(store)

LEMMA SendsLeaveDeadlines ==
  ASSUME FlowInv, NEW s \in Senders, SendStep(s)
  PROVE  SameDeadlines
<1> USE DEF FlowInv, OrderInv, TypeOKOrder
<1>1. CASE UNCHANGED store
  BY <1>1 DEF SameDeadlines
<1>2. CASE Claim(s) /\ MayClaim(store)
  <2>1. store \in Records /\ store # None
    BY <1>2 DEF MayClaim
  <2>2. sender[s].source \in LiveDeposits /\ TxOf[s] \in PaymentIds
    BY <1>2, SendFlowAssumption DEF Claim, ClaimOn, Advance, Checked, SendFlowAssumption
  <2>3. PICK x : store' = [store EXCEPT !.send = x]
    BY <1>2 DEF Claim, ClaimOn, ClaimSend
  <2>4. store' \in Records
    BY <1>2, <2>1, <2>2, ClaimRecord DEF Claim, ClaimOn
  <2> QED
    BY <2>1, <2>3, <2>4, Numbers
    DEF SameDeadlines, LocalQuote, LocalExpiry, Records, StateRecord
<1>3. ASSUME NEW from \in Held, NEW status \in SendStatus, NEW next,
             RecordResultOn(store, s, from, status, next)
      PROVE  SameDeadlines
  <2>1. store' = RecordSendResult(store, status)
    BY <1>3 DEF RecordResultOn
  <2>2. store \in Records /\ store # None /\ store.send # None
    BY <1>3 DEF RecordResultOn, ClaimHeld
  <2>3. store' \in Records
    BY <2>1, <2>2, ResultRecord
  <2>4. store' = [store EXCEPT !.send = [store.send EXCEPT !.status = status]]
    BY <2>1, <2>2 DEF RecordSendResult, Records, StateRecord
  <2>5. PICK x : store' = [store EXCEPT !.send = x]
    BY <2>4
  <2> QED
    BY <2>2, <2>3, <2>5, Numbers
    DEF SameDeadlines, LocalQuote, LocalExpiry, Records, StateRecord
<1>4. CASE Claim(s) /\ ~MayClaim(store)
  BY <1>1, <1>4 DEF Claim, ClaimOn
<1>5. CASE RecordUnheard(s)
  <2>1. PICK status \in {"ambiguous", "failed"} :
        RecordResultOn(store, s, "unheard", status, "done")
    BY <1>5 DEF RecordUnheard, RecordUnheardOn
  <2> QED
    BY <1>3, <2>1 DEF Held, SendStatus
<1>6. CASE RecordSubmitted(s)
  BY <1>3, <1>6 DEF RecordSubmitted, RecordSubmittedOn, Held, SendStatus
<1>7. CASE RecordReceipt(s)
  <2>1. PICK status \in {"confirmed", "failed"} :
        RecordResultOn(store, s, "submitted", status, "done")
    BY <1>7 DEF RecordReceipt, RecordReceiptOn
  <2> QED
    BY <1>3, <2>1 DEF Held, SendStatus
<1> QED
  BY <1>1, <1>2, <1>4, <1>5, <1>6, <1>7
  DEF SendStep, ReadLocalRecord, FetchLive, CheckLink, Sign, FinalCheck, Broadcast, Stop,
      orderVars

------------------------------------------------------------------------------
(* The gate. *)

LEMMA GateInvInit == InitFlow => GateInv
BY Numbers DEF InitFlow, InitOrder, GateInv, GateFresh, OthersKnown, SentBefore, NotStarted, Past

(* Whoever does not move a sender to its gate keeps every gate fresh. *)
LEMMA GateUntouched ==
  ASSUME GateInv, UNCHANGED <<now, sent, closedAt, fundedAt>>,
         intent'.payable = intent.payable, intent'.funded = intent.funded,
         \A s \in Senders : sender'[s].at \in Past =>
           sender[s].at \in Past /\ sender'[s].gate = sender[s].gate
  PROVE  GateInv'
<1>1. GateFresh'
  BY DEF GateInv, GateFresh, Times
<1>2. OthersKnown' /\ SentBefore'
  BY DEF GateInv, OthersKnown, SentBefore
<1> QED
  BY <1>1, <1>2 DEF GateInv

LEMMA GateStep ==
  ASSUME FlowInv, GateInv, NEW s \in Senders, SendStep(s)
  PROVE  GateInv'
<1>0. /\ sender \in [Senders -> SenderType] /\ sender[s] \in SenderType
      /\ now \in Times /\ intent \in IntentType
      /\ sent \subseteq [by : Senders, source : LiveDeposits, at : Times, due : SUBSET Locks]
      /\ closedAt \in Times \cup {None} /\ fundedAt \in Times \cup {None}
  BY DEF FlowInv, SendTypeOK, OrderInv, TypeOKOrder
<1>1. CASE FinalCheck(s)
  <2> DEFINE learnt == [sender[s] EXCEPT !.at = "gated", !.gate = now]
             ok == IF Kind = "bitrefill"
                     THEN ~intent.funded /\ InvoiceExpiryOk(now, sender[s].until)
                     ELSE intent.payable /\ ExpiryOk(now, sender[s].until)
  <2>1. /\ sender' = [sender EXCEPT ![s] = IF ok THEN learnt ELSE Ended]
        /\ UNCHANGED <<now, intent, sent, closedAt, fundedAt>>
    BY <1>1 DEF FinalCheck, Advance, orderVars
  <2>2. learnt.gate = now /\ Ended.at \notin Past
    BY <1>0 DEF SenderType, Ended, NotStarted, Past
  <2>3. ok => /\ Kind # "bitrefill" => now + Margin < Deadline
              /\ Kind # "bitrefill" => intent.payable
              /\ Kind = "bitrefill" => ~intent.funded
    BY <1>0, Numbers DEF ExpiryOk
  <2> HIDE DEF learnt, ok
  <2>4. GateFresh'
    <3> SUFFICES ASSUME NEW t \in Senders, sender'[t].at \in Past
                 PROVE  /\ sender'[t].gate \in Times
                        /\ sender'[t].gate <= now
                        /\ now <= sender'[t].gate + MaxGap
                        /\ Kind # "bitrefill" => sender'[t].gate + Margin < Deadline
                        /\ Kind # "bitrefill" /\ closedAt # None => sender'[t].gate <= closedAt
                        /\ Kind = "bitrefill" /\ fundedAt # None => sender'[t].gate <= fundedAt
      BY <2>1 DEF GateFresh, Times
    <3>1. CASE t # s
      BY <1>0, <2>1, <3>1 DEF GateInv, GateFresh
    <3>2. CASE t = s
      <4>1. ok /\ sender'[t].gate = now
        BY <1>0, <2>1, <2>2, <3>2
      <4> QED
        BY <1>0, <2>3, <4>1, Numbers DEF GateInv, OthersKnown
    <3> QED
      BY <3>1, <3>2
  <2>5. OthersKnown' /\ SentBefore'
    BY <2>1 DEF GateInv, OthersKnown, SentBefore
  <2> QED
    BY <2>4, <2>5 DEF GateInv
<1>2. CASE Broadcast(s)
  <2> DEFINE r == [by |-> s, source |-> sender[s].source, at |-> now, due |-> sender[s].due]
  <2>1. /\ sender[s].at \in Past
        /\ sent' \subseteq sent \cup {r}
        /\ UNCHANGED <<now, intent, closedAt, fundedAt>>
        /\ \A t \in Senders : sender'[t].at \in Past => t # s /\ sender'[t] = sender[t]
    BY <1>0, <1>2 DEF Broadcast, orderVars, Past, NotStarted
  <2>2. r.at = now
    OBVIOUS
  <2> HIDE DEF r
  <2>3. GateFresh'
    BY <2>1 DEF GateInv, GateFresh, Times
  <2>4. /\ now <= sender[s].gate + MaxGap /\ sender[s].gate \in Times
        /\ Kind # "bitrefill" => sender[s].gate + Margin < Deadline
        /\ Kind # "bitrefill" /\ closedAt # None => sender[s].gate <= closedAt
        /\ Kind = "bitrefill" /\ fundedAt # None => sender[s].gate <= fundedAt
    BY <2>1 DEF GateInv, GateFresh
  <2>5. sender[s].gate \in Nat /\ now \in Nat
    BY <1>0, <2>4, Numbers
  <2>6. Kind # "bitrefill" => now < Deadline
    BY <2>4, <2>5, Numbers
  <2>7. Kind # "bitrefill" /\ closedAt # None => now <= closedAt + MaxGap
    <3>1. closedAt # None => closedAt \in Nat
      BY <1>0, Numbers
    <3> QED
      BY <2>4, <2>5, <3>1, Numbers
  <2>8. Kind = "bitrefill" /\ fundedAt # None => now <= fundedAt + MaxGap
    <3>1. fundedAt # None => fundedAt \in Nat
      BY <1>0, Numbers
    <3> QED
      BY <2>4, <2>5, <3>1, Numbers
  <2>9. OthersKnown' /\ SentBefore'
    BY <2>1, <2>2, <2>5, <2>6, <2>7, <2>8 DEF GateInv, OthersKnown, SentBefore
  <2> QED
    BY <2>3, <2>9 DEF GateInv
<1>3. CASE ReadLocalRecord(s) \/ FetchLive(s) \/ CheckLink(s) \/ Sign(s)
  <2>1. UNCHANGED <<now, intent, sent, closedAt, fundedAt>>
    BY <1>3 DEF ReadLocalRecord, FetchLive, CheckLink, Sign, orderVars
  <2>2. PICK learnt, ok :
          /\ learnt.at \notin Past
          /\ sender' = [sender EXCEPT ![s] = IF ok THEN learnt ELSE Ended]
    <3>1. CASE ReadLocalRecord(s)
      BY <1>0, <3>1 DEF ReadLocalRecord, Advance, SenderType, Past
    <3>2. CASE FetchLive(s)
      BY <1>0, <3>2 DEF FetchLive, Advance, SenderType, Past
    <3>3. CASE CheckLink(s)
      BY <1>0, <3>3 DEF CheckLink, Advance, SenderType, Past
    <3>4. CASE Sign(s)
      BY <1>0, <3>4 DEF Sign, Advance, SenderType, Past
    <3> QED
      BY <1>3, <3>1, <3>2, <3>3, <3>4
  <2>3. Ended.at \notin Past
    BY DEF Ended, NotStarted, Past
  <2>4. /\ \A t \in Senders : t # s => sender'[t] = sender[t]
        /\ sender'[s].at \notin Past
    BY <1>0, <2>2, <2>3
  <2> QED
    BY <2>1, <2>4, GateUntouched
<1>4. CASE Claim(s)
  <2>1. UNCHANGED <<now, intent, sent, closedAt, fundedAt>> /\ sender[s].at \in Past
    BY <1>4 DEF Claim, ClaimOn, Advance, Past
  <2>2. /\ \A t \in Senders : t # s => sender'[t] = sender[t]
        /\ sender'[s].at \in Past => sender'[s].gate = sender[s].gate
    BY <1>0, <1>4 DEF Claim, ClaimOn, Advance, SenderType, Past, Ended, NotStarted
  <2> QED
    BY <2>1, <2>2, GateUntouched
<1>5. CASE RecordUnheard(s) \/ RecordSubmitted(s) \/ RecordReceipt(s)
  <2>1. PICK from, status, next :
           next \in {"submitted", "done"} /\ RecordResultOn(store, s, from, status, next)
    BY <1>5
    DEF RecordUnheard, RecordUnheardOn, RecordSubmitted, RecordSubmittedOn, RecordReceipt,
        RecordReceiptOn
  <2>2. UNCHANGED <<now, intent, sent, closedAt, fundedAt>>
    BY <2>1 DEF RecordResultOn
  <2>3. /\ \A t \in Senders : t # s => sender'[t] = sender[t]
        /\ sender'[s].at \notin Past
    BY <1>0, <2>1 DEF RecordResultOn, SenderType, Past
  <2> QED
    BY <2>2, <2>3, GateUntouched
<1>6. CASE Stop(s)
  BY <1>0, <1>6, GateUntouched DEF Stop, Ended, NotStarted, Past, orderVars
<1> QED
  BY <1>1, <1>2, <1>3, <1>4, <1>5, <1>6 DEF SendStep

LEMMA GateInvStep == FlowInv /\ GateInv /\ [NextFlow]_flowVars => GateInv'
<1> SUFFICES ASSUME FlowInv, GateInv, [NextFlow]_flowVars PROVE GateInv'
  OBVIOUS
<1>0. /\ now \in Times /\ intent \in IntentType /\ intent.invoiceUsd \in InvoiceUsd
      /\ sent \subseteq [by : Senders, source : LiveDeposits, at : Times, due : SUBSET Locks]
      /\ closedAt \in Times \cup {None} /\ fundedAt \in Times \cup {None}
  BY DEF FlowInv, SendTypeOK, OrderInv, TypeOKOrder, IntentType
<1>1. ASSUME NEW c \in Creators, CreateStep(c), UNCHANGED sendVars PROVE GateInv'
  <2>1. UNCHANGED now /\ intent'.payable = intent.payable /\ intent'.funded = intent.funded
    BY <1>0, <1>1
    DEF CreateStep, CreateInvoice, CreateBitrefill, FetchPayment, CheckExpiry, CheckPayable,
        RecordOrder, RecordOrderOn, RecordConfirmed, RecordConfirmedOn, backendVars, IntentType
  <2> QED
    BY <1>1, <2>1, GateUntouched DEF sendVars
<1>2. ASSUME NEW s \in Senders, SendStep(s) PROVE GateInv'
  BY <1>2, GateStep
<1>3. ASSUME NEW s \in Senders, Mine(s) PROVE GateInv'
  BY <1>3, GateUntouched DEF Mine, orderVars
<1>4. CASE BackendMoves /\ UNCHANGED sendVars
  BY <1>0, <1>4, GateUntouched DEF BackendMoves, sendVars, IntentType
<1>5. CASE TickFlow
  <2>1. /\ now' = now + 1
        /\ UNCHANGED <<intent, sender, sent, closedAt, fundedAt>>
        /\ \A s \in Senders : sender[s].at \in Past => now - sender[s].gate < MaxGap
    BY <1>5 DEF TickFlow, Tick, sendVars, Past
  <2>2. GateFresh'
    <3> SUFFICES ASSUME NEW s \in Senders, sender[s].at \in Past
                 PROVE  /\ sender[s].gate \in Times
                        /\ sender[s].gate <= now + 1
                        /\ now + 1 <= sender[s].gate + MaxGap
                        /\ Kind # "bitrefill" => sender[s].gate + Margin < Deadline
                        /\ Kind # "bitrefill" /\ closedAt # None => sender[s].gate <= closedAt
                        /\ Kind = "bitrefill" /\ fundedAt # None => sender[s].gate <= fundedAt
      BY <2>1 DEF GateFresh, Times
    <3>1. sender[s].gate \in Nat /\ sender[s].gate <= now /\ now \in Nat
      BY <1>0, Numbers DEF GateInv, GateFresh
    <3>2. now - sender[s].gate < MaxGap
      BY <2>1
    <3>3. sender[s].gate <= now + 1 /\ now + 1 <= sender[s].gate + MaxGap
      BY <3>1, <3>2, Numbers
    <3> QED
      BY <3>3 DEF GateInv, GateFresh
  <2>3. OthersKnown'
    BY <1>0, <2>1, Numbers DEF GateInv, OthersKnown
  <2>4. SentBefore'
    <3> SUFFICES ASSUME NEW r \in sent
                 PROVE  /\ r.at <= now + 1
                        /\ Kind # "bitrefill" => r.at < Deadline
                        /\ Kind # "bitrefill" /\ closedAt # None => r.at <= closedAt + MaxGap
                        /\ Kind = "bitrefill" /\ fundedAt # None => r.at <= fundedAt + MaxGap
      BY <2>1 DEF SentBefore
    <3>1. r.at \in Nat /\ now \in Nat /\ r.at <= now
      BY <1>0, Numbers DEF GateInv, SentBefore
    <3> QED
      BY <3>1 DEF GateInv, SentBefore
  <2> QED
    BY <2>2, <2>3, <2>4 DEF GateInv
<1>6. CASE Funded
  <2>1. /\ ~intent.funded /\ intent'.funded /\ intent'.payable = intent.payable
        /\ fundedAt' = now
        /\ UNCHANGED <<now, sender, sent, closedAt>>
    BY <1>0, <1>6 DEF Funded, AnotherPayer, IntentType
  <2>2. GateFresh' /\ OthersKnown'
    BY <1>0, <2>1, Numbers DEF GateInv, GateFresh, OthersKnown, Times
  <2>3. \A r \in sent : r.at <= now + MaxGap
    <3> SUFFICES ASSUME NEW r \in sent PROVE r.at <= now + MaxGap
      OBVIOUS
    <3>1. r.at \in Nat /\ now \in Nat /\ r.at <= now
      BY <1>0, Numbers DEF GateInv, SentBefore
    <3> QED
      BY <3>1, Numbers
  <2>4. SentBefore'
    BY <2>1, <2>3 DEF GateInv, SentBefore
  <2> QED
    BY <2>2, <2>4 DEF GateInv
<1>7. CASE Closed
  <2>1. /\ intent.payable /\ ~intent'.payable /\ intent'.funded = intent.funded
        /\ closedAt' = now
        /\ UNCHANGED <<now, sender, sent, fundedAt>>
    BY <1>0, <1>7 DEF Closed, LinkConsumed, IntentType
  <2>2. GateFresh' /\ OthersKnown'
    BY <1>0, <2>1, Numbers DEF GateInv, GateFresh, OthersKnown, Times
  <2>3. \A r \in sent : r.at <= now + MaxGap
    <3> SUFFICES ASSUME NEW r \in sent PROVE r.at <= now + MaxGap
      OBVIOUS
    <3>1. r.at \in Nat /\ now \in Nat /\ r.at <= now
      BY <1>0, Numbers DEF GateInv, SentBefore
    <3> QED
      BY <3>1, Numbers
  <2>4. SentBefore'
    BY <2>1, <2>3 DEF GateInv, SentBefore
  <2> QED
    BY <2>2, <2>4 DEF GateInv
<1>8. CASE UNCHANGED flowVars
  BY <1>8, GateUntouched DEF flowVars, orderVars, sendVars
<1> QED
  BY <1>1, <1>2, <1>3, <1>4, <1>5, <1>6, <1>7, <1>8 DEF NextFlow

LEMMA GateInvAlways == SpecFlow => []GateInv
BY GateInvInit, GateInvStep, FlowInvAlways, PTL DEF SpecFlow

(* A link that somebody else has used up, or a Bitrefill invoice that      *)
(* somebody else has funded, is not paid later than the gap after the last *)
(* gate, for any number of invocations and any margin and gap.             *)
THEOREM NotPaidAfterClosed == Kind # "bitrefill" /\ SpecFlow => []NotAfterClosed
<1> SUFFICES ASSUME Kind # "bitrefill" PROVE SpecFlow => []NotAfterClosed
  OBVIOUS
<1>1. GateInv => NotAfterClosed
  BY DEF GateInv, SentBefore, NotAfterClosed
<1> QED
  BY <1>1, GateInvAlways, PTL

THEOREM NotPaidAfterFunded == Kind = "bitrefill" /\ SpecFlow => []NotAfterFunded
<1> SUFFICES ASSUME Kind = "bitrefill" PROVE SpecFlow => []NotAfterFunded
  OBVIOUS
<1>1. GateInv => NotAfterFunded
  BY DEF GateInv, SentBefore, NotAfterFunded
<1> QED
  BY <1>1, GateInvAlways, PTL

(* Both at once: what another payer does stops every later payment.        *)
THEOREM NotPaidAfterAnother == SpecFlow => []NotAfterAnotherPayer
<1>1. GateInv => NotAfterAnotherPayer
  BY DEF GateInv, SentBefore, NotAfterAnotherPayer, NotAfterFunded, NotAfterClosed
<1> QED
  BY <1>1, GateInvAlways, PTL

------------------------------------------------------------------------------
(* The promise. *)

Window == {"checked", "record", "confirm"}

LEMMA EarlierBounds ==
  ASSUME NEW a \in Locks \cup {None}, NEW b \in Locks \cup {None}, b # None
  PROVE  /\ Earlier(a, b) # None /\ Earlier(a, b) <= b
         /\ Earlier(b, a) # None /\ Earlier(b, a) <= b
BY Numbers DEF Earlier

(* The lock a native order is held to is no later than any of the three.   *)
LEMMA PriceLockBounds ==
  ASSUME Kind = "native", NEW live \in Locks \cup {None},
         NEW first \in Locks \cup {None}, NEW second \in Locks \cup {None}
  PROVE  /\ first # None =>
              PriceLock(live, first, second) # None /\ PriceLock(live, first, second) <= first
         /\ second # None =>
              PriceLock(live, first, second) # None /\ PriceLock(live, first, second) <= second
<1> DEFINE both == Earlier(first, second)
<1>1. both \in Locks \cup {None} /\ PriceLock(live, first, second) = Earlier(live, both)
  BY PriceLockInRange DEF PriceLock
<1>2. Earlier(live, both) \in Locks \cup {None}
  BY <1>1, PriceLockInRange
<1>3. both # None => Earlier(live, both) # None /\ Earlier(live, both) <= both
  BY <1>1, EarlierBounds
<1>4. /\ first # None => both # None /\ both <= first
      /\ second # None => both # None /\ both <= second
  BY EarlierBounds
<1> HIDE DEF both
<1>5. ASSUME NEW x \in Locks, both # None, both <= x
      PROVE  Earlier(live, both) # None /\ Earlier(live, both) <= x
  <2>1. x \in Nat /\ both \in Nat /\ Earlier(live, both) \in Nat
    BY <1>1, <1>2, <1>3, <1>5, Numbers
  <2> QED
    BY <1>3, <1>5, <2>1
<1>6. first # None => Earlier(live, both) # None /\ Earlier(live, both) <= first
  BY <1>4, <1>5
<1>7. second # None => Earlier(live, both) # None /\ Earlier(live, both) <= second
  BY <1>4, <1>5
<1> QED
  BY <1>1, <1>6, <1>7

LEMMA PromiseInit == InitFlow => PromiseInv
<1> SUFFICES ASSUME InitFlow PROVE PromiseInv
  OBVIOUS
<1>1. EarliestRecorded
  BY DEF InitFlow, InitOrder, EarliestRecorded, Idle
<1>2. HeldToPromise
  BY DEF InitFlow, HeldToPromise, NotStarted, Past
<1>3. SentAsPromised
  BY DEF InitFlow, SentAsPromised
<1> QED
  BY <1>1, <1>2, <1>3 DEF PromiseInv

LEMMA RecordLeftAlone ==
  ASSUME EarliestRecorded, SameDeadlines, UNCHANGED <<creator, confirmed>>
  PROVE  EarliestRecorded'
BY DEF EarliestRecorded, SameDeadlines

(* What the record of a created order says of deadlines. *)
LEMMA CreatedDeadlines ==
  ASSUME NEW s \in Records \cup {None}, NEW d, NEW a, NEW usd, NEW q, NEW e,
         NEW r, r = CreateOrderRecord(s,
           [receiverAddress |-> d, amount |-> a,
            invoiceAmount |-> usd, quoteExpiresAt |-> q, invoiceExpiry |-> e])
  PROVE  /\ r.quoteExpiresAt = IF q # None \/ s = None THEN q ELSE LocalQuote(s)
         /\ r.invoiceExpiry = IF s = None THEN e ELSE Earlier(LocalExpiry(s), e)
BY DEF CreateOrderRecord, LocalQuote, LocalExpiry

LEMMA CreateKeepsEarliest ==
  ASSUME FlowInv, EarliestRecorded, InTurn, NEW c \in Creators, CreateStep(c)
  PROVE  EarliestRecorded'
<1> USE DEF FlowInv, OrderInv, TypeOKOrder
<1>0. /\ creator \in [Creators -> CreatorType] /\ creator[c] \in CreatorType
      /\ creator[c].lock \in Locks \cup {None} /\ now \in Times
      /\ store \in Records \cup {None}
  BY DEF CreatorType
<1>1. CASE CreateInvoice(c) \/ CreateBitrefill(c) \/ FetchPayment(c)
  <2>1. UNCHANGED <<store, confirmed>>
    BY <1>1 DEF CreateInvoice, CreateBitrefill, FetchPayment
  <2>2. PICK learnt, ok :
          /\ learnt.at \notin Window
          /\ creator' = [creator EXCEPT ![c] = IF ok THEN learnt ELSE Idle]
    <3>1. CASE CreateInvoice(c)
      BY <3>1 DEF CreateInvoice, Proceed, Idle, Window
    <3>2. CASE CreateBitrefill(c)
      BY <3>2 DEF CreateBitrefill, Proceed, Idle, Window
    <3>3. CASE FetchPayment(c)
      BY <1>0, <3>3 DEF FetchPayment, Proceed, CreatorType, Window
    <3> QED
      BY <1>1, <3>1, <3>2, <3>3
  <2>3. Idle.at \notin Window
    BY DEF Idle, Window
  <2>4. \A d \in Creators : creator'[d].at \in Window => creator'[d] = creator[d]
    BY <1>0, <2>2, <2>3
  <2> QED
    BY <2>1, <2>4 DEF EarliestRecorded, Window
<1>2. CASE CheckExpiry(c)
  <2> DEFINE limit == IF Kind = "bitrefill" THEN creator[c].lock
                     ELSE PriceLock(creator[c].lock, LocalQuote(store), ConfirmedQuote(store))
             ok == /\ IF Kind = "bitrefill" THEN InvoiceExpiryOk(now, limit) ELSE ExpiryOk(now, limit)
                   /\ creator[c].deposit.receiverAddress \notin Blacklisted
             learnt == [creator[c] EXCEPT !.lock = limit,
                          !.at = IF Kind = "bitrefill" THEN "record" ELSE "checked"]
  <2>1. /\ creator' = [creator EXCEPT ![c] = IF ok THEN learnt ELSE Idle]
        /\ UNCHANGED <<store, confirmed>>
    BY <1>2 DEF CheckExpiry, Proceed
  <2>2. learnt.lock = limit /\ (Kind = "native" => learnt.at = "checked")
    BY <1>0 DEF CreatorType
  <2>3. Kind = "native" /\ ok => limit # None
    BY DEF ExpiryOk
  <2>4. Kind = "native" /\ LocalQuote(store) # None => limit <= LocalQuote(store)
    BY <1>0, LocalLocksInRange, PriceLockBounds
  <2> HIDE DEF limit, ok, learnt
  <2>5. Idle.at = "start"
    BY DEF Idle
  <2>6. \A d \in Creators \ {c} : creator'[d] = creator[d]
    BY <1>0, <2>1
  <2>7. (creator'[c] = learnt /\ ok) \/ creator'[c] = Idle
    BY <1>0, <2>1
  <2> QED
    BY <2>1, <2>2, <2>3, <2>4, <2>5, <2>6, <2>7 DEF EarliestRecorded
<1>3. CASE CheckPayable(c)
  <2> DEFINE learnt == [creator[c] EXCEPT !.at = "record"]
  <2>1. /\ creator[c].at = "checked"
        /\ creator' = [creator EXCEPT ![c] = IF intent.payable THEN learnt ELSE Idle]
        /\ UNCHANGED <<store, confirmed>>
    BY <1>3 DEF CheckPayable, Proceed
  <2>2. learnt.lock = creator[c].lock /\ learnt.at = "record" /\ Idle.at = "start"
    BY <1>0 DEF CreatorType, Idle
  <2> HIDE DEF learnt
  <2> QED
    BY <1>0, <2>1, <2>2 DEF EarliestRecorded
<1>4. CASE RecordOrder(c)
  <2> DEFINE q == IF Kind = "native" THEN creator[c].lock ELSE None
             learnt == [creator[c] EXCEPT !.at = "confirm"]
  <2>1. PICK confirm \in BOOLEAN :
          /\ creator[c].at = "record"
          /\ creator' = [creator EXCEPT ![c] = IF confirm THEN learnt ELSE Idle]
    BY <1>4 DEF RecordOrder, RecordOrderOn, Proceed
  <2>2. learnt.lock = creator[c].lock /\ learnt.at = "confirm" /\ Idle.at = "start"
    BY <1>0 DEF CreatorType, Idle
  <2>3. UNCHANGED confirmed
    BY <1>4 DEF RecordOrder, RecordOrderOn
  <2>4. store' # None
    <3>1. store' \in Records \cup {None} /\ SendLeftAlone
      BY <1>4, CreateStepKeeps DEF CreateStep
    <3>2. store'.quoteExpiresAt = IF q # None \/ store = None THEN q ELSE LocalQuote(store)
      BY <1>0, <1>4, CreatedDeadlines DEF RecordOrder, RecordOrderOn
    <3>3. creator[c].deposit \in LiveDeposits
      BY <2>1 DEF DepositKnown
    <3>4. q \in Locks \cup {None}
      BY <1>0
    <3> DEFINE e == IF Kind = "bitrefill" THEN creator[c].lock ELSE None
    <3>5. e \in Locks \cup {None} /\ intent.invoiceUsd \in InvoiceUsd
      BY <1>0 DEF IntentType
    <3>6. store' = CreateOrderRecord(store,
             [receiverAddress |-> creator[c].deposit.receiverAddress,
              amount |-> creator[c].deposit.amount, invoiceAmount |-> intent.invoiceUsd,
              quoteExpiresAt |-> q, invoiceExpiry |-> e])
      BY <1>4 DEF RecordOrder, RecordOrderOn
    <3> HIDE DEF e, q
    <3>7. store' \in Records
      BY <1>0, <3>3, <3>4, <3>5, <3>6, CreateRecord
    <3> QED
      BY <3>7, Numbers
  <2>5. Kind = "native" => LocalQuote(store') = creator[c].lock /\ creator[c].lock # None
    <3>1. Kind = "native" => creator[c].lock # None
      BY <2>1 DEF EarliestRecorded
    <3>2. store'.quoteExpiresAt = IF q # None \/ store = None THEN q ELSE LocalQuote(store)
      BY <1>0, <1>4, CreatedDeadlines DEF RecordOrder, RecordOrderOn
    <3> QED
      BY <2>4, <3>1, <3>2 DEF LocalQuote
  <2>6. Kind = "native" => \A k \in confirmed : k.lock # None /\ creator[c].lock <= k.lock
    <3> SUFFICES ASSUME Kind = "native", NEW k \in confirmed
                 PROVE  k.lock # None /\ creator[c].lock <= k.lock
      OBVIOUS
    <3>1. store # None /\ k.lock # None /\ LocalQuote(store) <= k.lock
      BY DEF EarliestRecorded
    <3>2. LocalQuote(store) # None /\ creator[c].lock <= LocalQuote(store)
      BY <2>1, <3>1 DEF EarliestRecorded
    <3>3. /\ LocalQuote(store) \in Nat /\ creator[c].lock \in Nat /\ k.lock \in Nat
      BY <1>0, <2>5, <3>1, <3>2, LocalLocksInRange, Numbers
    <3> QED
      BY <3>1, <3>2, <3>3
  <2> HIDE DEF learnt, q
  <2>7. Kind = "native" => \A d \in Creators \ {c} : creator[d].at \notin Window
    BY <2>1 DEF InTurn, Window
  <2>8. \A d \in Creators \ {c} : creator'[d] = creator[d]
    BY <1>0, <2>1
  <2>9. creator'[c] = learnt \/ creator'[c] = Idle
    BY <1>0, <2>1
  <2> QED
    BY <2>2, <2>3, <2>4, <2>5, <2>6, <2>7, <2>8, <2>9 DEF EarliestRecorded, Window
<1>5. CASE RecordConfirmed(c)
  <2> DEFINE q == IF Kind = "native" THEN creator[c].lock ELSE None
             k == [digest |-> DepositDigest(creator[c].deposit), lock |-> q]
  <2>1. /\ creator[c].at = "confirm"
        /\ creator' = [creator EXCEPT ![c] = Idle]
        /\ store # None
        /\ confirmed' = confirmed \cup {k}
    BY <1>5 DEF RecordConfirmed, RecordConfirmedOn, Proceed
  <2>2. SameDeadlines
    <3>1. PICK x : store' = [store EXCEPT !.confirmation = x]
      BY <1>5 DEF RecordConfirmed, RecordConfirmedOn, RecordConfirmation
    <3>2. creator[c].deposit \in LiveDeposits /\ q \in Locks \cup {None}
      BY <1>0, <2>1 DEF DepositKnown
    <3>3. store' = RecordConfirmation(store, creator[c].deposit, q)
      BY <1>5 DEF RecordConfirmed, RecordConfirmedOn
    <3> HIDE DEF q
    <3>4. store' \in Records
      BY <1>0, <2>1, <3>2, <3>3, ConfirmRecord
    <3> QED
      BY <1>0, <2>1, <3>1, <3>4, Numbers
      DEF SameDeadlines, LocalQuote, LocalExpiry, Records, StateRecord
  <2>3. k.lock = q
    OBVIOUS
  <2>4. Kind = "native" =>
          q # None /\ q = LocalQuote(store) /\ LocalQuote(store) <= q
    <3> SUFFICES ASSUME Kind = "native"
                 PROVE  q # None /\ q = LocalQuote(store) /\ LocalQuote(store) <= q
      OBVIOUS
    <3>1. q # None /\ q = LocalQuote(store)
      BY <2>1 DEF EarliestRecorded
    <3>2. q \in Nat
      BY <1>0, <3>1, Numbers
    <3> QED
      BY <3>1, <3>2
  <2>5. Kind # "native" => q = None
    OBVIOUS
  <2> HIDE DEF k, q
  <2>6. Idle.at = "start" /\ \A d \in Creators \ {c} : creator'[d] = creator[d]
    BY <1>0, <2>1 DEF Idle
  <2>7. creator'[c] = Idle
    BY <1>0, <2>1
  <2> QED
    BY <2>1, <2>2, <2>3, <2>4, <2>5, <2>6, <2>7 DEF EarliestRecorded, SameDeadlines
<1> QED
  BY <1>1, <1>2, <1>3, <1>4, <1>5 DEF CreateStep
LEMMA PromisedInRecord ==
  ASSUME EarliestRecorded, store \in Records \cup {None}, store # None
  PROVE  /\ NoLater(DeadlineIn(store), Promised)
         /\ Promised # {} => Kind # "stable"
<1>1. CASE Kind = "bitrefill"
  <2>1. LocalExpiry(store) # None => LocalExpiry(store) \in Nat
    BY LocalLocksInRange, Numbers
  <2> QED
    BY <1>1, <2>1 DEF NoLater, DeadlineIn, Promised
<1>2. CASE Kind # "bitrefill"
  BY <1>2, CreateOrderAssumption
  DEF NoLater, DeadlineIn, Promised, EarliestRecorded, CreateOrderAssumption
<1> QED
  BY <1>1, <1>2

(* A run that moves on without a new deadline to keep. *)
LEMMA PromiseUntouched ==
  ASSUME HeldToPromise, SentAsPromised, UNCHANGED sent, NEW s \in Senders,
         sender \in [Senders -> SenderType],
         \A t \in Senders : t # s => sender'[t] = sender[t],
         sender'[s].due # {} => Kind # "stable",
         sender'[s].at = "state" => NoLater(DeadlineIn(sender'[s].state), sender'[s].due),
         sender'[s].at \in {"live", "prepare", "signed", "gated", "claimed"} =>
           NoLater(sender'[s].until, sender'[s].due),
         sender'[s].at \in Past => \A limit \in sender'[s].due : sender'[s].gate + Margin <= limit
  PROVE  HeldToPromise' /\ SentAsPromised'
BY DEF HeldToPromise, SentAsPromised, NoLater, DeadlineIn

LEMMA SendKeepsPromise ==
  ASSUME FlowInv, GateInv, PromiseInv, NEW s \in Senders, SendStep(s)
  PROVE  HeldToPromise' /\ SentAsPromised'
<1> USE DEF PromiseInv
<1>0. /\ sender \in [Senders -> SenderType] /\ sender[s] \in SenderType
      /\ now \in Times /\ intent \in IntentType /\ store \in Records \cup {None}
  BY DEF FlowInv, SendTypeOK, OrderInv, TypeOKOrder
<1>1. Ended.due = {} /\ Ended.at = "done"
  BY DEF Ended, NotStarted
<1>2. ASSUME NEW from, NEW ok, NEW learnt, Advance(s, from, ok, learnt)
      PROVE  /\ \A t \in Senders : t # s => sender'[t] = sender[t]
             /\ (sender'[s] = learnt /\ ok) \/ sender'[s] = Ended
             /\ sender[s].at = from
  BY <1>0, <1>2 DEF Advance
<1>3. CASE ReadLocalRecord(s)
  <2> DEFINE learnt == [sender[s] EXCEPT !.at = "state", !.state = store, !.due = Promised]
             ok == store # None /\ store.send = None /\ store.confirmation # None
  <2>1. Advance(s, "start", ok, learnt) /\ UNCHANGED sent
    BY <1>3 DEF ReadLocalRecord
  <2>2. learnt.at = "state" /\ learnt.state = store /\ learnt.due = Promised
    BY <1>0 DEF SenderType
  <2>3. ok => NoLater(DeadlineIn(store), Promised) /\ (Promised # {} => Kind # "stable")
    BY <1>0, PromisedInRecord
  <2>4. ok => store # None
    OBVIOUS
  <2> HIDE DEF learnt, ok
  <2>5. /\ \A t \in Senders : t # s => sender'[t] = sender[t]
        /\ (sender'[s] = learnt /\ ok) \/ sender'[s] = Ended
    BY <1>2, <2>1
  <2> QED
    BY <1>0, <1>1, <2>1, <2>2, <2>3, <2>5, PromiseUntouched DEF Past
<1>4. CASE FetchLive(s)
  <2> DEFINE live == intent.deposit
             state == sender[s].state
             until == IF Kind = "bitrefill" THEN state.invoiceExpiry
                      ELSE PriceLock(intent.quote, ConfirmedQuote(state), LocalQuote(state))
             learnt == [sender[s] EXCEPT !.at = IF Kind = "bitrefill" THEN "prepare" ELSE "live",
                          !.state = None, !.source = live, !.until = until]
             ok == /\ ~intent.funded
                   /\ DepositDigest(live) = state.confirmation.depositDigest
                   /\ live.receiverAddress = state.receiverAddress
                   /\ live.amount = state.amount
                   /\ Kind = "bitrefill" =>
                        InvoiceExpiryOk(now, until) /\ live.receiverAddress \notin Blacklisted
  <2>1. Advance(s, "state", ok, learnt) /\ UNCHANGED sent
    BY <1>4 DEF FetchLive
  <2>2. state \in Records
    BY <2>1 DEF Advance, FlowInv, Checked
  <2>3. NoLater(DeadlineIn(state), sender[s].due) /\ (sender[s].due # {} => Kind # "stable")
    BY <2>1 DEF Advance, HeldToPromise
  <2>4. NoLater(until, sender[s].due)
    <3> SUFFICES ASSUME NEW limit \in sender[s].due PROVE until # None /\ until <= limit
      BY DEF NoLater
    <3>1. DeadlineIn(state) # None /\ DeadlineIn(state) <= limit /\ limit \in Nat
      BY <1>0, <2>3, Numbers DEF NoLater, SenderType
    <3>2. CASE Kind = "bitrefill"
      BY <2>2, <3>1, <3>2, Numbers DEF DeadlineIn, LocalExpiry
    <3>3. CASE Kind = "native"
      <4>1. /\ LocalQuote(state) \in Locks \cup {None} /\ ConfirmedQuote(state) \in Locks \cup {None}
            /\ intent.quote \in Locks \cup {None}
        BY <1>0, <2>2, LocalLocksInRange DEF IntentType
      <4>2. LocalQuote(state) # None /\ LocalQuote(state) <= limit
        BY <3>1, <3>3 DEF DeadlineIn
      <4>3. until # None /\ until <= LocalQuote(state)
        BY <3>3, <4>1, <4>2, PriceLockBounds
      <4>4. until \in Locks \cup {None}
        BY <3>3, <4>1, PriceLockInRange
      <4> HIDE DEF until, state
      <4>5. until \in Nat /\ LocalQuote(state) \in Nat
        BY <4>1, <4>2, <4>3, <4>4, Numbers
      <4> QED
        BY <3>1, <4>2, <4>3, <4>5
    <3> QED
      BY <2>3, <3>2, <3>3, CreateOrderAssumption DEF CreateOrderAssumption
  <2> HIDE DEF until
  <2>5. learnt.at \in {"live", "prepare"} /\ learnt.until = until /\ learnt.due = sender[s].due
    BY <1>0 DEF SenderType
  <2> HIDE DEF learnt, ok
  <2>6. /\ \A t \in Senders : t # s => sender'[t] = sender[t]
        /\ (sender'[s] = learnt /\ ok) \/ sender'[s] = Ended
    BY <1>2, <2>1
  <2> QED
    BY <1>0, <1>1, <2>1, <2>3, <2>4, <2>5, <2>6, PromiseUntouched DEF Past
<1>5. CASE CheckLink(s) \/ Sign(s)
  <2>1. UNCHANGED sent
    BY <1>5 DEF CheckLink, Sign
  <2>2. PICK to \in {"prepare", "signed"} :
          /\ sender[s].at \in {"live", "prepare"}
          /\ \A t \in Senders : t # s => sender'[t] = sender[t]
          /\ sender'[s] = [sender[s] EXCEPT !.at = to] \/ sender'[s] = Ended
    <3>1. CASE CheckLink(s)
      BY <1>2, <3>1 DEF CheckLink
    <3>2. CASE Sign(s)
      BY <1>2, <3>2 DEF Sign
    <3> QED
      BY <1>5, <3>1, <3>2
  <2> DEFINE learnt == [sender[s] EXCEPT !.at = to]
  <2>3. learnt.at = to /\ learnt.until = sender[s].until /\ learnt.due = sender[s].due
    BY <1>0 DEF SenderType
  <2>4. sender'[s] = learnt \/ sender'[s] = Ended
    BY <2>2
  <2>5. NoLater(sender[s].until, sender[s].due) /\ (sender[s].due # {} => Kind # "stable")
    BY <2>2 DEF HeldToPromise
  <2> HIDE DEF learnt
  <2> QED
    BY <1>0, <1>1, <2>1, <2>2, <2>3, <2>4, <2>5, PromiseUntouched DEF Past
<1>6. CASE FinalCheck(s)
  <2> DEFINE learnt == [sender[s] EXCEPT !.at = "gated", !.gate = now]
             ok == IF Kind = "bitrefill"
                     THEN ~intent.funded /\ InvoiceExpiryOk(now, sender[s].until)
                     ELSE intent.payable /\ ExpiryOk(now, sender[s].until)
  <2>1. Advance(s, "signed", ok, learnt) /\ UNCHANGED sent
    BY <1>6 DEF FinalCheck
  <2>2. NoLater(sender[s].until, sender[s].due) /\ (sender[s].due # {} => Kind # "stable")
    BY <2>1 DEF Advance, HeldToPromise
  <2>3. ok => \A limit \in sender[s].due : now + Margin <= limit
    <3> SUFFICES ASSUME ok, NEW limit \in sender[s].due PROVE now + Margin <= limit
      OBVIOUS
    <3>1. sender[s].until # None /\ sender[s].until <= limit /\ limit \in Nat /\ now \in Nat
      BY <1>0, <2>2, Numbers DEF NoLater, SenderType
    <3>2. sender[s].until \in Nat
      BY <1>0, <3>1, Numbers DEF SenderType
    <3>3. sender[s].until - now >= Margin
      <4>1. Kind \in {"native", "bitrefill"}
        BY <2>2, CreateOrderAssumption DEF CreateOrderAssumption
      <4> QED
        BY <3>1, <3>2, <4>1, Numbers DEF ExpiryOk, InvoiceExpiryOk
    <3> QED
      BY <3>1, <3>2, <3>3, Numbers
  <2>4. /\ learnt.at = "gated" /\ learnt.gate = now
        /\ learnt.until = sender[s].until /\ learnt.due = sender[s].due
    BY <1>0 DEF SenderType
  <2> HIDE DEF learnt, ok
  <2>5. /\ \A t \in Senders : t # s => sender'[t] = sender[t]
        /\ (sender'[s] = learnt /\ ok) \/ sender'[s] = Ended
    BY <1>2, <2>1
  <2> QED
    BY <1>0, <1>1, <2>1, <2>2, <2>3, <2>4, <2>5, PromiseUntouched DEF Past
<1>7. CASE Claim(s)
  <2> DEFINE learnt == [sender[s] EXCEPT !.at = "claimed"]
  <2>1. Advance(s, "gated", MayClaim(store), learnt) /\ UNCHANGED sent
    BY <1>7 DEF Claim, ClaimOn
  <2>2. /\ NoLater(sender[s].until, sender[s].due) /\ (sender[s].due # {} => Kind # "stable")
        /\ \A limit \in sender[s].due : sender[s].gate + Margin <= limit
    BY <2>1 DEF Advance, HeldToPromise, Past
  <2>3. /\ learnt.at = "claimed" /\ learnt.gate = sender[s].gate
        /\ learnt.until = sender[s].until /\ learnt.due = sender[s].due
    BY <1>0 DEF SenderType
  <2> HIDE DEF learnt
  <2>4. /\ \A t \in Senders : t # s => sender'[t] = sender[t]
        /\ sender'[s] = learnt \/ sender'[s] = Ended
    BY <1>2, <2>1
  <2> QED
    BY <1>0, <1>1, <2>1, <2>2, <2>3, <2>4, PromiseUntouched DEF Past
<1>8. CASE Broadcast(s)
  <2> DEFINE r == [by |-> s, source |-> sender[s].source, at |-> now, due |-> sender[s].due]
  <2>1. /\ sender[s].at = "claimed"
        /\ sent' \subseteq sent \cup {r}
        /\ \A t \in Senders : t # s => sender'[t] = sender[t]
        /\ sender'[s].due = {} /\ sender'[s].at \notin {"state", "live", "prepare", "signed"} \cup Past
    BY <1>0, <1>8 DEF Broadcast, NotStarted, Past
  <2>2. r.at = now /\ r.due = sender[s].due
    OBVIOUS
  <2>3. ASSUME NEW limit \in sender[s].due PROVE now < limit
    <3>1. /\ sender[s].gate + Margin <= limit
          /\ sender[s].gate \in Times /\ now <= sender[s].gate + MaxGap
      BY <2>1 DEF HeldToPromise, GateInv, GateFresh, Past
    <3>2. limit \in Nat /\ now \in Nat /\ sender[s].gate \in Nat
      BY <1>0, <3>1, Numbers DEF SenderType
    <3> QED
      BY <3>1, <3>2, Numbers
  <2> HIDE DEF r
  <2>4. SentAsPromised'
    BY <2>1, <2>2, <2>3 DEF SentAsPromised
  <2>5. HeldToPromise'
    BY <2>1 DEF HeldToPromise, NoLater, DeadlineIn, Past
  <2> QED
    BY <2>4, <2>5
<1>9. CASE RecordUnheard(s) \/ RecordSubmitted(s) \/ RecordReceipt(s)
  <2>1. PICK from, status, next :
           next \in {"submitted", "done"} /\ RecordResultOn(store, s, from, status, next)
    BY <1>9
    DEF RecordUnheard, RecordUnheardOn, RecordSubmitted, RecordSubmittedOn, RecordReceipt,
        RecordReceiptOn
  <2>2. PICK to \in {"submitted", "done"} : sender' = [sender EXCEPT ![s].at = to]
    BY <2>1 DEF RecordResultOn
  <2>3. /\ UNCHANGED sent
        /\ \A t \in Senders : t # s => sender'[t] = sender[t]
        /\ sender'[s].due = sender[s].due /\ sender'[s].at = to
    BY <1>0, <2>1, <2>2 DEF RecordResultOn, SenderType
  <2>4. sender[s].due # {} => Kind # "stable"
    BY DEF HeldToPromise
  <2> QED
    BY <1>0, <2>3, <2>4, PromiseUntouched DEF Past
<1>10. CASE Stop(s)
  <2>1. sender' = [sender EXCEPT ![s] = Ended] /\ UNCHANGED sent
    BY <1>10 DEF Stop
  <2>2. sender'[s] = Ended /\ \A t \in Senders : t # s => sender'[t] = sender[t]
    BY <1>0, <2>1
  <2> QED
    BY <1>0, <1>1, <2>1, <2>2, PromiseUntouched DEF Past
<1> QED
  BY <1>3, <1>4, <1>5, <1>6, <1>7, <1>8, <1>9, <1>10 DEF SendStep

LEMMA PromiseStep ==
  FlowInv /\ GateInv /\ InTurn /\ PromiseInv /\ [NextFlow]_flowVars => PromiseInv'
<1> SUFFICES ASSUME FlowInv, GateInv, InTurn, PromiseInv, [NextFlow]_flowVars
             PROVE  PromiseInv'
  OBVIOUS
<1> USE DEF PromiseInv
<1>0. UNCHANGED <<sender, sent>> => HeldToPromise' /\ SentAsPromised'
  BY DEF HeldToPromise, SentAsPromised, NoLater, DeadlineIn
<1>1. ASSUME NEW c \in Creators, CreateStep(c), UNCHANGED sendVars PROVE PromiseInv'
  BY <1>0, <1>1, CreateKeepsEarliest DEF sendVars
<1>2. ASSUME NEW s \in Senders, SendStep(s) PROVE PromiseInv'
  <2>1. SameDeadlines
    BY <1>2, SendsLeaveDeadlines
  <2>2. UNCHANGED <<creator, confirmed>>
    BY <1>2
    DEF SendStep, ReadLocalRecord, FetchLive, CheckLink, Sign, FinalCheck, Claim, ClaimOn,
        Broadcast, RecordUnheard, RecordUnheardOn, RecordSubmitted, RecordSubmittedOn,
        RecordReceipt, RecordReceiptOn, RecordResultOn, Stop, orderVars
  <2> QED
    BY <1>2, <2>1, <2>2, RecordLeftAlone, SendKeepsPromise
<1>3. CASE \/ \E s \in Senders : Mine(s)
           \/ BackendMoves /\ UNCHANGED sendVars
           \/ TickFlow \/ Funded \/ Closed \/ UNCHANGED flowVars
  <2>1. UNCHANGED <<store, creator, confirmed, sender, sent>>
    BY <1>3 DEF Mine, BackendMoves, TickFlow, Tick, Funded, AnotherPayer, Closed, LinkConsumed,
                flowVars, orderVars, sendVars
  <2>2. SameDeadlines
    BY <2>1 DEF SameDeadlines
  <2> QED
    BY <1>0, <2>1, <2>2, RecordLeftAlone
<1> QED
  BY <1>1, <1>2, <1>3 DEF NextFlow

LEMMA PromiseAlways == SpecFlow /\ []InTurn => []PromiseInv
BY PromiseInit, PromiseStep, FlowInvAlways, GateInvAlways, PTL DEF SpecFlow

(* However the backend re-prices and however long signing takes, a         *)
(* transfer leaves before the order's deadline and before every lock that  *)
(* was confirmed when its run began, for any number of creators and        *)
(* senders; the create runs of a native order must take turns, those of    *)
(* other kinds (and all the senders) may interleave freely.                *)
THEOREM SentBeforePromised == SpecFlow /\ []InTurn => []SentInTime
<1>1. GateInv /\ PromiseInv => SentInTime
  BY DEF GateInv, SentBefore, PromiseInv, SentAsPromised, SentInTime
<1> QED
  BY <1>1, GateInvAlways, PromiseAlways, PTL

------------------------------------------------------------------------------
(* What a create leaves of the recorded deadlines. *)

LEMMA DeadlineSteps ==
  ASSUME FlowInv, [NextFlow]_flowVars
  PROVE  /\ ExpiryKept
         /\ InTurn /\ PromiseInv => LockKept
<1> USE DEF FlowInv, OrderInv, TypeOKOrder
<1>1. CASE SameDeadlines
  <2>1. /\ LocalQuote(store) # None => LocalQuote(store) \in Nat
        /\ LocalExpiry(store) # None => LocalExpiry(store) \in Nat
    BY LocalLocksInRange, Numbers
  <2> QED
    BY <1>1, <2>1 DEF SameDeadlines, ExpiryKept, LockKept
<1>2. ASSUME NEW c \in Creators, RecordOrder(c)
      PROVE  ExpiryKept /\ (PromiseInv => LockKept)
  <2> DEFINE d == creator[c].deposit
             q == IF Kind = "native" THEN creator[c].lock ELSE None
             e == IF Kind = "bitrefill" THEN creator[c].lock ELSE None
  <2>1. creator[c].at = "record"
    BY <1>2 DEF RecordOrder, RecordOrderOn, Proceed
  <2>2. d \in LiveDeposits /\ q \in Locks \cup {None} /\ e \in Locks \cup {None}
    BY <2>1 DEF DepositKnown, CreatorType
  <2>3. store' = CreateOrderRecord(store,
           [receiverAddress |-> d.receiverAddress, amount |-> d.amount,
            invoiceAmount |-> intent.invoiceUsd, quoteExpiresAt |-> q, invoiceExpiry |-> e])
    BY <1>2 DEF RecordOrder, RecordOrderOn
  <2>4. intent.invoiceUsd \in InvoiceUsd /\ store \in Records \cup {None}
    BY DEF IntentType
  <2>5. PromiseInv /\ Kind = "native" /\ store # None =>
          q # None /\ q <= LocalQuote(store)
    BY <2>1 DEF PromiseInv, EarliestRecorded
  <2>6. Kind # "native" => q = None
    OBVIOUS
  <2> HIDE DEF d, q, e
  <2>7. store' \in Records
    BY <2>2, <2>3, <2>4, CreateRecord
  <2>8. /\ store'.quoteExpiresAt = IF q # None \/ store = None THEN q ELSE LocalQuote(store)
        /\ store'.invoiceExpiry = IF store = None THEN e ELSE Earlier(LocalExpiry(store), e)
    BY <2>3, <2>4, CreatedDeadlines
  <2>9. /\ LocalQuote(store') = store'.quoteExpiresAt
        /\ LocalExpiry(store') = store'.invoiceExpiry
    BY <2>7, Numbers DEF LocalQuote, LocalExpiry
  <2>10. ExpiryKept
    <3> SUFFICES ASSUME LocalExpiry(store) # None
                 PROVE  LocalExpiry(store') # None /\ LocalExpiry(store') <= LocalExpiry(store)
      BY DEF ExpiryKept
    <3>1. store # None /\ LocalExpiry(store) \in Locks \cup {None}
      BY <2>4, LocalLocksInRange DEF LocalExpiry
    <3> QED
      BY <2>2, <2>8, <2>9, <3>1, EarlierBounds
  <2>11. ASSUME PromiseInv, LocalQuote(store) # None
         PROVE  LocalQuote(store') # None /\ LocalQuote(store') <= LocalQuote(store)
    <3>1. store # None /\ LocalQuote(store) \in Nat
      BY <2>4, <2>11, LocalLocksInRange, Numbers DEF LocalQuote
    <3> QED
      BY <2>5, <2>6, <2>8, <2>9, <2>11, <3>1
  <2> QED
    BY <2>10, <2>11 DEF LockKept
<1>3. ASSUME NEW c \in Creators, RecordConfirmed(c) PROVE SameDeadlines
  <2> DEFINE q == IF Kind = "native" THEN creator[c].lock ELSE None
  <2>1. /\ creator[c].at = "confirm" /\ store # None
        /\ store' = RecordConfirmation(store, creator[c].deposit, q)
    BY <1>3 DEF RecordConfirmed, RecordConfirmedOn, Proceed
  <2>2. creator[c].deposit \in LiveDeposits /\ q \in Locks \cup {None}
    BY <2>1 DEF DepositKnown, CreatorType
  <2>3. PICK x : store' = [store EXCEPT !.confirmation = x]
    BY <2>1 DEF RecordConfirmation
  <2> HIDE DEF q
  <2>4. store' \in Records
    BY <2>1, <2>2, ConfirmRecord
  <2> QED
    BY <2>1, <2>3, <2>4, Numbers DEF SameDeadlines, LocalQuote, LocalExpiry, Records, StateRecord
<1>4. ASSUME NEW c \in Creators,
             \/ CreateInvoice(c) \/ CreateBitrefill(c) \/ FetchPayment(c)
             \/ CheckExpiry(c) \/ CheckPayable(c)
      PROVE  SameDeadlines
  BY <1>4
  DEF CreateInvoice, CreateBitrefill, FetchPayment, CheckExpiry, CheckPayable, SameDeadlines
<1>5. ASSUME NEW s \in Senders, SendStep(s) PROVE SameDeadlines
  BY <1>5, SendsLeaveDeadlines
<1>6. CASE \/ \E s \in Senders : Mine(s)
           \/ BackendMoves \/ TickFlow \/ Funded \/ Closed \/ UNCHANGED flowVars
  BY <1>1, <1>6
  DEF Mine, BackendMoves, TickFlow, Tick, Funded, AnotherPayer, Closed, LinkConsumed,
      flowVars, orderVars, SameDeadlines
<1> QED
  BY <1>1, <1>2, <1>3, <1>4, <1>5, <1>6 DEF NextFlow, CreateStep

(* The expiry recorded of a Bitrefill invoice only ever moves earlier,     *)
(* whatever is typed on a resume and however resumes and sends interleave. *)
THEOREM RecordedExpiryEarliest == SpecFlow => InvoiceExpiryOnlyEarlier
<1>1. FlowInv /\ [NextFlow]_flowVars => [ExpiryKept]_orderVars
  BY DeadlineSteps
<1> QED
  BY <1>1, FlowInvAlways, PTL DEF SpecFlow, InvoiceExpiryOnlyEarlier

(* The price lock recorded of a native order only ever moves earlier,      *)
(* however often the backend re-prices it, while its create runs take      *)
(* turns (the run order_native_race shows that they must).                 *)
THEOREM RecordedLockEarliest == SpecFlow /\ []InTurn => PriceLockOnlyEarlier
<1>1. FlowInv /\ InTurn /\ PromiseInv /\ [NextFlow]_flowVars => [LockKept]_orderVars
  BY DeadlineSteps
<1> QED
  BY <1>1, FlowInvAlways, PromiseAlways, PTL DEF SpecFlow, PriceLockOnlyEarlier
==============================================================================
