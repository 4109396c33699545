------------------------------ MODULE StateFile ------------------------------
(***************************************************************************)
(* The local state file of one order, ~/.rozo-checkout/state/<id>.json, as *)
(* scripts/src/lib/state.mjs reads and writes it.  Every write is a temp   *)
(* file renamed over the target, so a reader sees a whole record or none:  *)
(* a record is one TLA+ value and each operator below is the contents one  *)
(* call of state.mjs leaves behind.  The lock those calls run under is in  *)
(* SendLock; the modules that use these operators say how they interleave. *)
(***************************************************************************)
EXTENDS Integers

CONSTANTS
  None,        \* null: no file, no confirmation, no send, no price lock
  PaymentIds   \* what names one signed transaction (its hash), one per send

(***************************************************************************)
(* Deposit instructions, as payments/<id>.source carries them.  "other"    *)
(* stands for the fields the digest covers and the record does not keep:   *)
(* token address, unit, BOLT11.                                            *)
(***************************************************************************)
Deposit(Addresses, Amounts, Others) ==
  [receiverAddress : Addresses, amount : Amounts, other : Others]

(* sha256 over the canonical JSON of every field: injective in all of them. *)
DepositDigest(source) ==
  <<source.receiverAddress, source.amount, source.other>>

(* MAX_PAYMENT_USD, and assertPaymentLimit's refusal of a missing amount. *)
MaxPaymentUsd == 1100
WithinPaymentLimit(usd) ==
  /\ usd # None
  /\ usd >= 0
  /\ usd <= MaxPaymentUsd

SendStatus == {"claimed", "submitted", "confirmed", "ambiguous", "failed"}

(***************************************************************************)
(* The earlier of two optional deadlines: mergeBitrefill keeps it for a    *)
(* stored invoice expiry, priceLockFor for a native coin's price lock.     *)
(***************************************************************************)
Earlier(a, b) ==
  IF a = None THEN b
  ELSE IF b = None THEN a
  ELSE IF a < b THEN a ELSE b

------------------------------------------------------------------------------
(***************************************************************************)
(* What each read-modify-write leaves in the file, given what it read.     *)
(***************************************************************************)

(* Mutant: a re-create forgets the send record. *)
RecreateForgets(existing, rec) ==
  [receiverAddress |-> rec.receiverAddress, amount |-> rec.amount,
   invoiceAmount   |-> rec.invoiceAmount,   quoteExpiresAt |-> rec.quoteExpiresAt,
   invoiceExpiry   |-> rec.invoiceExpiry,
   confirmation    |-> IF existing = None THEN None ELSE existing.confirmation,
   send            |-> None]

(* Mutant: a re-create replaces the invoice expiry. *)
RecreateExtends(existing, rec) ==
  [receiverAddress |-> rec.receiverAddress, amount |-> rec.amount,
   invoiceAmount   |-> rec.invoiceAmount,   quoteExpiresAt |-> rec.quoteExpiresAt,
   invoiceExpiry   |-> rec.invoiceExpiry,
   confirmation    |-> IF existing = None THEN None ELSE existing.confirmation,
   send            |-> IF existing = None THEN None ELSE existing.send]

(* createOrderRecordUnlocked: the order fields are overwritten, the        *)
(* confirmation and the send record survive a re-create.  A price lock is  *)
(* replaced when the caller brings one (state.mjs does not take the        *)
(* earlier of the two), an invoice expiry only ever moves earlier.         *)
CreateOrderRecord(existing, rec) ==
  [receiverAddress |-> rec.receiverAddress,
   amount          |-> rec.amount,
   invoiceAmount   |-> rec.invoiceAmount,
   quoteExpiresAt  |->
     IF rec.quoteExpiresAt # None \/ existing = None
       THEN rec.quoteExpiresAt ELSE existing.quoteExpiresAt,
   invoiceExpiry   |->
     IF existing = None THEN rec.invoiceExpiry
                        ELSE Earlier(existing.invoiceExpiry, rec.invoiceExpiry),
   confirmation    |-> IF existing = None THEN None ELSE existing.confirmation,
   send            |-> IF existing = None THEN None ELSE existing.send]

(* Mutant: the digest kept covers the address and the amount only. *)
ConfirmShort(state, source, quoteExpiresAt) ==
  [state EXCEPT !.confirmation =
     [depositDigest  |-> <<source.receiverAddress, source.amount>>,
      quoteExpiresAt |-> quoteExpiresAt]]

(* recordConfirmation: replaces any earlier confirmation, nothing else. *)
RecordConfirmation(state, source, quoteExpiresAt) ==
  [state EXCEPT !.confirmation =
     [depositDigest  |-> DepositDigest(source),
      quoteExpiresAt |-> quoteExpiresAt]]

(* Mutant: an earlier send is no obstacle. *)
MayClaimAgain(state) ==
  /\ state # None
  /\ WithinPaymentLimit(state.invoiceAmount)

(* claimSend refuses without a record, with any prior send, over the cap. *)
MayClaim(state) ==
  /\ state # None
  /\ state.send = None
  /\ WithinPaymentLimit(state.invoiceAmount)

ClaimSend(state, intent) ==
  [state EXCEPT !.send =
     [status         |-> "claimed",
      to             |-> intent.to,
      amount         |-> intent.amount,
      expectedTxHash |-> intent.expectedTxHash]]

(* recordSendResult refuses without a claim to update. *)
MayRecordResult(state) ==
  /\ state # None
  /\ state.send # None

RecordSendResult(state, status) ==
  [state EXCEPT !.send.status = status]

------------------------------------------------------------------------------
(* The values the file can hold. *)
ConfirmationRecord(Addresses, Amounts, Others, Times) ==
  [depositDigest  : Addresses \X Amounts \X Others,
   quoteExpiresAt : Times \cup {None}]

SendRecord(Addresses, Amounts) ==
  [status : SendStatus, to : Addresses, amount : Amounts, expectedTxHash : PaymentIds]

StateRecord(Addresses, Amounts, Others, Usd, Times) ==
  [receiverAddress : Addresses,
   amount          : Amounts,
   invoiceAmount   : Usd \cup {None},
   quoteExpiresAt  : Times \cup {None},
   invoiceExpiry   : Times \cup {None},
   confirmation    : ConfirmationRecord(Addresses, Amounts, Others, Times) \cup {None},
   send            : SendRecord(Addresses, Amounts) \cup {None}]
==============================================================================
