----------------------------- MODULE CreateOrder -----------------------------
(***************************************************************************)
(* Creating and confirming one order: scripts/src/create-order.mjs and     *)
(* scripts/src/create-bitrefill-order.mjs, run by several invocations      *)
(* against the same Rozo intent and the same local state file, while the   *)
(* backend, other payers and the clock move between any two of their steps.*)
(* An invocation takes one step per answer it awaits and per state.mjs     *)
(* call; a crashed invocation is one that takes no further step.           *)
(*                                                                         *)
(* The state.mjs calls are atomic here, which LockedStore justifies.       *)
(***************************************************************************)
EXTENDS StateFile

CONSTANTS
  Creators,     \* create-order invocations
  Kind,         \* "stable", "native" (Coinbase links) or "bitrefill"
  Addresses, Amounts, Others,  \* fields of the deposit instructions
  Blacklisted,  \* compromised addresses
  InvoiceUsd,   \* amounts an invoice may have
  Deadline,     \* earlier of the intent's and the Coinbase expiry
  Margin,       \* marginFor(chain), or BITREFILL_MIN_PAY_WINDOW_MS
  NewMargin,    \* BITREFILL_MIN_EXPIRY_MS, for an invoice with no record yet
  Locks,        \* bound: price locks and invoice expiries there may be
  MaxTime       \* bound: the clock stops here

VARIABLES
  now,        \* the clock
  intent,     \* what the backend would answer now
  store,      \* the local state file
  creator,    \* what each create invocation is doing and has learnt
  confirmed   \* history: every confirmation ever recorded

backendVars == <<now, intent>>
orderVars   == <<now, intent, store, creator, confirmed>>

Times    == 0..MaxTime
LiveDeposits == Deposit(Addresses, Amounts, Others)

Records == StateRecord(Addresses, Amounts, Others, InvoiceUsd, Locks)

ASSUME CreateOrderAssumption ==
  /\ Kind \in {"stable", "native", "bitrefill"}
  /\ Deadline \in Nat /\ Margin \in Nat \ {0} /\ MaxTime \in Nat
  /\ NewMargin \in Nat /\ NewMargin >= Margin
  /\ Locks \subseteq 0..MaxTime
  /\ InvoiceUsd \subseteq Nat
  /\ Blacklisted \subseteq Addresses
  /\ None \notin Nat \cup LiveDeposits \cup Records
  /\ None \notin SendRecord(Addresses, Amounts)
  /\ None \notin ConfirmationRecord(Addresses, Amounts, Others, Locks)

(***************************************************************************)
(* The backend: payments/<id> (deposit, funded, price lock, the expiry the *)
(* router stored for a Bitrefill invoice) and the Coinbase resource.       *)
(***************************************************************************)
IntentType ==
  [deposit : LiveDeposits, funded : BOOLEAN, payable : BOOLEAN,
   invoiceUsd : InvoiceUsd,
   quote : Locks \cup {None}, invoiceExpiry : Locks \cup {None}]

CreatorStep == {"start", "created", "fetched", "checked", "record", "confirm"}

CreatorType ==
  [at : CreatorStep, deposit : LiveDeposits \cup {None}, lock : Locks \cup {None}]

TypeOKOrder ==
  /\ now \in Times
  /\ intent \in IntentType
  /\ store \in Records \cup {None}
  /\ creator \in [Creators -> CreatorType]
  /\ confirmed \subseteq
       [digest : Addresses \X Amounts \X Others, lock : Locks \cup {None}]

Idle == [at |-> "start", deposit |-> None, lock |-> None]

InitOrder ==
  /\ now = 0
  /\ intent \in
       {i \in IntentType :
          /\ ~i.funded /\ i.payable /\ i.invoiceExpiry = None
          /\ (i.quote = None) = (Kind # "native")}
  /\ store = None
  /\ creator = [c \in Creators |-> Idle]
  /\ confirmed = {}

------------------------------------------------------------------------------
(* The checks, each a pure function of what the caller has in hand. *)

(* checkExpiry: strictly more than the margin before every deadline; a     *)
(* native order without a price lock is refused.                           *)
ExpiryOk(t, limit) ==
  /\ Deadline - t > Margin
  /\ Kind = "native" => limit # None
  /\ Kind = "native" => limit - t > Margin

(* checkBitrefillExpiry: the invoice's own expiry, at least the margin. *)
InvoiceExpiryOk(t, expiry) ==
  /\ expiry # None
  /\ expiry - t > 0
  /\ expiry - t >= Margin

(* Mutant: the backend's lock, whatever was recorded before. *)
LiveLock(live, first, second) ==
  IF Kind = "native" THEN Earlier(live, second) ELSE None

(* priceLockFor: the earliest known lock, for a native coin only. *)
PriceLock(live, first, second) ==
  IF Kind = "native" THEN Earlier(live, Earlier(first, second)) ELSE None

LocalQuote(state)   == IF state = None THEN None ELSE state.quoteExpiresAt
ConfirmedQuote(state) ==
  IF state = None THEN None
  ELSE IF state.confirmation = None THEN None
  ELSE state.confirmation.quoteExpiresAt
LocalExpiry(state)  == IF state = None THEN None ELSE state.invoiceExpiry

------------------------------------------------------------------------------
(* One create invocation. *)

(* Move on when every check passes, else abort.  A run that ends, either   *)
(* way, leaves nothing in memory: "start" is also the next run of the      *)
(* command.                                                                *)
Proceed(c, from, ok, learnt) ==
  /\ creator[c].at = from
  /\ creator' = [creator EXCEPT ![c] = IF ok THEN learnt ELSE Idle]

(* Quote, create-invoice and verifyCreateAgainstQuote; the create response *)
(* carries a price lock.  A Bitrefill run brings the invoice expiry the    *)
(* user typed, which the router stores with a new intent.                  *)
CreateInvoice(c) ==
  /\ Kind # "bitrefill"
  /\ Proceed(c, "start", TRUE, [Idle EXCEPT !.at = "created", !.lock = intent.quote])
  /\ UNCHANGED <<now, intent, store, confirmed>>

(* create-bitrefill-order: input validation (stricter for an invoice this  *)
(* machine has no record of), create or 409 resume, then readState of the  *)
(* order, all before the intent is fetched.                                *)
CreateBitrefill(c) ==
  /\ Kind = "bitrefill"
  /\ \E typed \in Locks :
       LET valid == /\ InvoiceExpiryOk(now, typed)
                    /\ store = None => typed - now >= NewMargin
       IN
       /\ Proceed(c, "start", valid,
            [Idle EXCEPT !.at = "created", !.lock = Earlier(typed, LocalExpiry(store))])
       /\ intent' = IF intent.invoiceExpiry = None /\ valid
                      THEN [intent EXCEPT !.invoiceExpiry = typed] ELSE intent
  /\ UNCHANGED <<now, store, confirmed>>

(* getPayment and the reuse guard; "lock" becomes the earliest price lock  *)
(* (or invoice expiry) seen so far.                                        *)
FetchPayment(c) ==
  /\ Proceed(c, "created", ~intent.funded,
       [creator[c] EXCEPT !.at = "fetched", !.deposit = intent.deposit,
          !.lock = Earlier(@, IF Kind = "bitrefill" THEN intent.invoiceExpiry
                                                    ELSE intent.quote)])
  /\ UNCHANGED <<now, intent, store, confirmed>>

(* Native: readState for the locks already recorded or confirmed (outside  *)
(* the lock), then the expiry guard and the blacklist.                     *)
CheckExpiry(c) ==
  /\ LET limit == IF Kind = "bitrefill" THEN creator[c].lock
                 ELSE PriceLock(creator[c].lock, LocalQuote(store), ConfirmedQuote(store))
     IN Proceed(c, "fetched",
          /\ IF Kind = "bitrefill" THEN InvoiceExpiryOk(now, limit) ELSE ExpiryOk(now, limit)
          /\ creator[c].deposit.receiverAddress \notin Blacklisted,
          [creator[c] EXCEPT !.lock = limit,
             !.at = IF Kind = "bitrefill" THEN "record" ELSE "checked"])
  /\ UNCHANGED <<now, intent, store, confirmed>>

(* invoiceStatus: the Coinbase resource must still be payable. *)
CheckPayable(c) ==
  /\ Proceed(c, "checked", intent.payable, [creator[c] EXCEPT !.at = "record"])
  /\ UNCHANGED <<now, intent, store, confirmed>>

(* The state.mjs calls take the record they read: the file as it is, when  *)
(* nothing comes between their read and their write.                       *)

(* createOrderRecord; a run without --confirm ends here, the deposit       *)
(* address withheld.                                                       *)
RecordOrderOn(read, c) ==
  /\ \E confirm \in BOOLEAN :
       Proceed(c, "record", confirm, [creator[c] EXCEPT !.at = "confirm"])
  /\ store' = CreateOrderRecord(read,
       [receiverAddress |-> creator[c].deposit.receiverAddress,
        amount          |-> creator[c].deposit.amount,
        invoiceAmount   |-> intent.invoiceUsd,
        quoteExpiresAt  |-> IF Kind = "native" THEN creator[c].lock ELSE None,
        invoiceExpiry   |-> IF Kind = "bitrefill" THEN creator[c].lock ELSE None])
  /\ UNCHANGED <<now, intent, confirmed>>

RecordOrder(c) == RecordOrderOn(store, c)

(* recordConfirmation, after which the full deposit is shown. *)
RecordConfirmedOn(read, c) ==
  LET limit == IF Kind = "native" THEN creator[c].lock ELSE None IN
  /\ Proceed(c, "confirm", TRUE, Idle)
  /\ read # None
  /\ store' = RecordConfirmation(read, creator[c].deposit, limit)
  /\ confirmed' = confirmed \cup
       {[digest |-> DepositDigest(creator[c].deposit), lock |-> limit]}
  /\ UNCHANGED backendVars

RecordConfirmed(c) == RecordConfirmedOn(store, c)

CreateStep(c) ==
  \/ CreateInvoice(c) \/ CreateBitrefill(c)
  \/ FetchPayment(c) \/ CheckExpiry(c) \/ CheckPayable(c)
  \/ RecordOrder(c) \/ RecordConfirmed(c)

------------------------------------------------------------------------------
(* The world. *)

Tick ==
  /\ now < MaxTime
  /\ now' = now + 1
  /\ UNCHANGED <<intent, store, creator, confirmed>>

(* The backend re-prices a native order or changes where it is to be paid. *)
BackendMoves ==
  /\ \E d \in LiveDeposits, q \in Locks \cup {None} :
       /\ (q = None) = (Kind # "native")
       /\ intent' = [intent EXCEPT !.deposit = d, !.quote = q]
  /\ UNCHANGED <<now, store, creator, confirmed>>

(* Someone funds the deposit (another wallet, another machine) ... *)
AnotherPayer ==
  /\ ~intent.funded
  /\ intent' = [intent EXCEPT !.funded = TRUE]
  /\ UNCHANGED <<now, store, creator, confirmed>>

(* ... or uses up the Coinbase link by other means. *)
LinkConsumed ==
  /\ intent.payable
  /\ intent' = [intent EXCEPT !.payable = FALSE]
  /\ UNCHANGED <<now, store, creator, confirmed>>

NextOrder ==
  \/ \E c \in Creators : CreateStep(c)
  \/ Tick \/ BackendMoves \/ AnotherPayer \/ LinkConsumed

SpecOrder == InitOrder /\ [][NextOrder]_orderVars

------------------------------------------------------------------------------
LockKept   == LocalQuote(store) # None =>
                /\ LocalQuote(store') # None
                /\ LocalQuote(store') <= LocalQuote(store)
ExpiryKept == LocalExpiry(store) # None =>
                /\ LocalExpiry(store') # None
                /\ LocalExpiry(store') <= LocalExpiry(store)

(* The price lock kept for a native order only ever moves earlier, however *)
(* often the backend re-prices the order between two runs of the command   *)
(* (priceLockFor: "A lock can only ever move earlier, never later").       *)
PriceLockOnlyEarlier == [][LockKept]_orderVars

(* The expiry kept for a Bitrefill invoice only ever moves earlier,        *)
(* whatever expiry is typed on a resume and however resumes interleave     *)
(* (state.mjs, mergeBitrefill).                                            *)
InvoiceExpiryOnlyEarlier == [][ExpiryKept]_orderVars
==============================================================================
