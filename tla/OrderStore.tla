------------------------------ MODULE OrderStore ------------------------------
(***************************************************************************)
(* What the state file of one order promises to the invocations that share *)
(* it: every createOrderRecord, recordConfirmation, claimSend and          *)
(* recordSendResult takes effect at once, on the file as it then is.       *)
(* "granted" is the set of invocations whose claimSend returned: each of   *)
(* them is about to broadcast a signed transfer.                           *)
(***************************************************************************)
EXTENDS StateFile

CONSTANTS
  Invocations,  \* processes that may send
  Deposits,     \* deposit instructions the backend may report
  OrderFields,  \* what a create call may bring: invoice amount, deadlines
  TxOf          \* TxOf[p]: hash of the transaction p signs

(* What the file's fields range over. *)
Receivers == {d.receiverAddress : d \in Deposits}
Sums      == {d.amount : d \in Deposits}
Extras    == {d.other : d \in Deposits}
Usd       == {f.invoiceAmount : f \in OrderFields}
Ends      == {f.quoteExpiresAt : f \in OrderFields} \cup {f.invoiceExpiry : f \in OrderFields}
Records   == StateRecord(Receivers, Sums, Extras, Usd, Ends)

(* Every invocation signs a transaction of its own; null is not a record. *)
ASSUME OrderStoreAssumption ==
  /\ TxOf \in [Invocations -> PaymentIds]
  /\ \A p, q \in Invocations : TxOf[p] = TxOf[q] => p = q
  /\ None \notin Records
  /\ None \notin SendRecord(Receivers, Sums)

VARIABLES
  store,        \* the order's record, or None before the first create
  granted       \* invocations that hold the right to broadcast

storeVars == <<store, granted>>

StoreInit ==
  /\ store = None
  /\ granted = {}

(* The record a create writes: the live deposit and the order's own fields. *)
OrderOf(d, f) ==
  [receiverAddress |-> d.receiverAddress,
   amount          |-> d.amount,
   invoiceAmount   |-> f.invoiceAmount,
   quoteExpiresAt  |-> f.quoteExpiresAt,
   invoiceExpiry   |-> f.invoiceExpiry]

Intent(p, d) ==
  [to |-> d.receiverAddress, amount |-> d.amount, expectedTxHash |-> TxOf[p]]

Create(d, f) ==
  /\ store' = CreateOrderRecord(store, OrderOf(d, f))
  /\ UNCHANGED granted

Confirm(d, lock) ==
  /\ store # None
  /\ store' = RecordConfirmation(store, d, lock)
  /\ UNCHANGED granted

Claim(p, d) ==
  /\ MayClaim(store)
  /\ store' = ClaimSend(store, Intent(p, d))
  /\ granted' = granted \cup {p}

Result(p, status) ==
  /\ p \in granted
  /\ MayRecordResult(store)
  /\ store' = RecordSendResult(store, status)
  /\ UNCHANGED granted

StoreNext ==
  \/ \E d \in Deposits, f \in OrderFields : Create(d, f) \/ Confirm(d, f.quoteExpiresAt)
  \/ \E p \in Invocations :
       \/ \E d \in Deposits : Claim(p, d)
       \/ \E s \in SendStatus \ {"claimed"} : Result(p, s)

StoreSpec == StoreInit /\ [][StoreNext]_storeVars

------------------------------------------------------------------------------
StoreTypeOK ==
  /\ granted \subseteq Invocations
  /\ store \in Records \cup {None}

(* Send-once: at most one invocation is ever granted the send, and the     *)
(* record names the transaction that invocation signed, however creates,   *)
(* confirmations and results are interleaved with the claim.               *)
SendOnce ==
  /\ \A p, q \in granted : p = q
  /\ \A p \in granted :
       /\ store # None
       /\ store.send # None
       /\ store.send.expectedTxHash = TxOf[p]

(* A send record is never erased nor retargeted: whatever is written later *)
(* (a re-create, a new confirmation, a result) keeps what was claimed.     *)
SendRecordKept ==
  [][store # None /\ store.send # None =>
       /\ store' # None
       /\ store'.send # None
       /\ store'.send.expectedTxHash = store.send.expectedTxHash
       /\ store'.send.to = store.send.to
       /\ store'.send.amount = store.send.amount]_storeVars
==============================================================================
