------------------------------ MODULE PayCommand ------------------------------
(***************************************************************************)
(* rozo-checkout pay <link> --send (cmdPay of scripts/src/cli.mjs): create *)
(* the order and show it with the address masked, ask a human, create      *)
(* again with --confirm, then hand the id of the FIRST run to the send     *)
(* script.  Several commands run on one Coinbase link and one machine.     *)
(* The router keeps one open order per link and replaces it once it has    *)
(* expired, so the two runs of one command may be handed different orders. *)
(*                                                                         *)
(* A run of create-order is one step here and a run of the send script     *)
(* three; CreateOrder and SendFlow look inside them.                       *)
(***************************************************************************)
EXTENDS StateFile

CONSTANTS
  Commands,   \* pay commands run on the link
  Addresses,  \* deposit addresses an order may be given
  Life,       \* how long the backend keeps an order open
  Margin,     \* marginFor(chain)
  MaxGap,     \* bound: time from the last gate to the broadcast
  Lag,        \* bound: time from a broadcast to the link being used up
  MaxOrders,  \* bound: orders made for the link
  MaxTime     \* bound: the clock stops here

ASSUME PayAssumption ==
  /\ Life \in Nat /\ Margin \in Nat /\ MaxGap \in Nat /\ Lag \in Nat
  /\ MaxOrders \in Nat /\ MaxTime \in Nat
  /\ MaxGap + Lag <= Margin
  /\ Commands \subseteq PaymentIds
  /\ None \notin Nat
  /\ None \notin StateRecord(Addresses, {1}, {1}, {1}, {})
  /\ None \notin SendRecord(Addresses, {1})

VARIABLES
  now,      \* the clock
  payable,  \* would invoice-status still call the link payable?
  orders,   \* the backend: every order made for the link
  latest,   \* the last of them, 0 before the first
  files,    \* the local state file of each order
  cmd,      \* what each command is doing and has learnt
  tx        \* what became of the transaction each command signed

payVars == <<now, payable, orders, latest, files, cmd, tx>>

OrderIds == 1..MaxOrders
Instructions == Deposit(Addresses, {1}, {1})
RecordsPay  == StateRecord(Addresses, {1}, {1}, {1}, {})

(* An order the backend knows; "seen" once it reports money received. *)
OrderType == [deposit : Instructions, expiry : Nat, seen : BOOLEAN]

(* "first" and "second" are the orders the two create runs returned,       *)
(* "shown" what the human was shown of the first before answering.         *)
CommandType ==
  [at     : {"start", "shown", "yes", "send", "ready", "gated", "done"},
   first  : OrderIds \cup {None},
   second : OrderIds \cup {None},
   shown  : Instructions \cup {None},
   source : Instructions \cup {None},
   gate   : Nat \cup {None}]

TxType ==
  [fate : {"unsent", "posted", "seen", "settled", "dropped"}, time : Nat \cup {None}]

TypeOKPay ==
  /\ now \in 0..MaxTime
  /\ payable \in BOOLEAN
  /\ latest \in 0..MaxOrders
  /\ orders \in [1..latest -> OrderType]
  /\ files \in [OrderIds -> RecordsPay \cup {None}]
  /\ cmd \in [Commands -> CommandType]
  /\ tx \in [Commands -> TxType]

NewCommand ==
  [at |-> "start", first |-> None, second |-> None, shown |-> None, source |-> None,
   gate |-> None]

InitPay ==
  /\ now = 0
  /\ payable = TRUE
  /\ latest = 0
  /\ orders = [o \in {} |-> None]
  /\ files = [o \in OrderIds |-> None]
  /\ cmd = [c \in Commands |-> NewCommand]
  /\ tx = [c \in Commands |-> [fate |-> "unsent", time |-> None]]

------------------------------------------------------------------------------
(* The backend's create-invoice: the open order of the link if there is    *)
(* one, paid or not, else a new one; the state after it is passed on.      *)
Open == latest > 0 /\ now < orders[latest].expiry

CreateInvoice(o) ==
  /\ o = IF Open THEN latest ELSE latest + 1
  /\ o \in OrderIds
  /\ latest' = o
  /\ IF Open
       THEN UNCHANGED orders
       ELSE \E d \in Instructions :
              orders' = [i \in 1..o |-> IF i = o
                           THEN [deposit |-> d, expiry |-> now + Life, seen |-> FALSE]
                           ELSE orders[i]]

(* Mutant: the margin is added to the deadline. *)
InTimeAfter(order) == order.expiry + Margin > now

(* checkExpiry: strictly more than the margin is left. *)
InTime(order) == order.expiry - now > Margin

(* reuseGuard, checkExpiry and checkPayable, in create-order as in the     *)
(* send script's preflight.                                                *)
MayRelease(order) ==
  /\ ~order.seen
  /\ InTime(order)
  /\ payable

RecordOf(order) ==
  [receiverAddress |-> order.deposit.receiverAddress, amount |-> order.deposit.amount,
   invoiceAmount |-> 1, quoteExpiresAt |-> None, invoiceExpiry |-> None]

(* The first run of create-order; the deposit is shown, its address masked. *)
Show(c) ==
  /\ cmd[c].at = "start"
  /\ \E o \in OrderIds :
       /\ CreateInvoice(o)
       /\ IF MayRelease(orders'[o])
            THEN /\ files' = [files EXCEPT ![o] = CreateOrderRecord(@, RecordOf(orders'[o]))]
                 /\ cmd' = [cmd EXCEPT ![c].at = "shown", ![c].first = o,
                                       ![c].shown = orders'[o].deposit]
            ELSE /\ cmd' = [cmd EXCEPT ![c].at = "done"]
                 /\ UNCHANGED files
  /\ UNCHANGED <<now, payable, tx>>

(* "Pay this? [y/N]": the prompt waits as long as the human does. *)
Answer(c) ==
  /\ cmd[c].at = "shown"
  /\ \E yes \in BOOLEAN : cmd' = [cmd EXCEPT ![c].at = IF yes THEN "yes" ELSE "done"]
  /\ UNCHANGED <<now, payable, orders, latest, files, tx>>

(* The run with --confirm: it creates again, checks again and confirms     *)
(* whatever order it was handed.  The command keeps the id of the first.   *)
ConfirmAnswered(c) ==
  /\ cmd[c].at = "yes"
  /\ \E o \in OrderIds :
       /\ CreateInvoice(o)
       /\ IF MayRelease(orders'[o])
            THEN /\ files' = [files EXCEPT ![o] = RecordConfirmation(
                       CreateOrderRecord(@, RecordOf(orders'[o])), orders'[o].deposit, None)]
                 /\ cmd' = [cmd EXCEPT ![c].at = "send", ![c].second = o]
            ELSE /\ cmd' = [cmd EXCEPT ![c].at = "done"]
                 /\ UNCHANGED files
  /\ UNCHANGED <<now, payable, tx>>

(* preflight of the send script, on the id of the first run. *)
Preflight(c) ==
  LET o    == cmd[c].first
      live == orders[o]
      ok   == /\ files[o].send = None
              /\ files[o].confirmation # None
              /\ MayRelease(live)
              /\ DepositDigest(live.deposit) = files[o].confirmation.depositDigest
  IN
  /\ cmd[c].at = "send"
  /\ cmd' = [cmd EXCEPT ![c].at = IF ok THEN "ready" ELSE "done",
                        ![c].source = IF ok THEN live.deposit ELSE None]
  /\ UNCHANGED <<now, payable, orders, latest, files, tx>>

(* Mutant: the last check re-reads the link and not the clock. *)
FinalCheckLinkOnly(c) ==
  /\ cmd[c].at = "ready"
  /\ cmd' = [cmd EXCEPT ![c].at = IF payable THEN "gated" ELSE "done", ![c].gate = now]
  /\ UNCHANGED <<now, payable, orders, latest, files, tx>>

(* finalPayabilityCheck after signing: the link and the deadlines again. *)
FinalCheck(c) ==
  /\ cmd[c].at = "ready"
  /\ LET ok == payable /\ InTime(orders[cmd[c].first])
     IN cmd' = [cmd EXCEPT ![c].at = IF ok THEN "gated" ELSE "done",
                           ![c].gate = IF ok THEN now ELSE None]
  /\ UNCHANGED <<now, payable, orders, latest, files, tx>>

(* claimSend, then the broadcast, which the network may take or not (the   *)
(* process may also have died in between).                                 *)
Send(c) ==
  LET o == cmd[c].first IN
  /\ cmd[c].at = "gated"
  /\ IF MayClaim(files[o])
       THEN /\ files' = [files EXCEPT ![o] = ClaimSend(@,
                 [to |-> cmd[c].source.receiverAddress, amount |-> cmd[c].source.amount,
                  expectedTxHash |-> c])]
            /\ \E taken \in BOOLEAN :
                 tx' = IF taken THEN [tx EXCEPT ![c] = [fate |-> "posted", time |-> now]]
                                ELSE tx
       ELSE UNCHANGED <<files, tx>>
  /\ cmd' = [cmd EXCEPT ![c].at = "done"]
  /\ UNCHANGED <<now, payable, orders, latest>>

(* The command is killed, or throws, after its last gate.  Anywhere else   *)
(* that is a command that never goes on; here the clock waits for it.      *)
Killed(c) ==
  /\ cmd[c].at = "gated"
  /\ cmd' = [cmd EXCEPT ![c].at = "done"]
  /\ UNCHANGED <<now, payable, orders, latest, files, tx>>

PayStep(c) ==
  \/ Show(c) \/ Answer(c) \/ ConfirmAnswered(c)
  \/ Preflight(c) \/ FinalCheck(c) \/ Send(c) \/ Killed(c)

------------------------------------------------------------------------------
(* The world: a transaction reaches the backend, which then pays the       *)
(* merchant and so uses up the link; or it is never included.              *)
Progress(c, from, to) ==
  /\ tx[c].fate = from
  /\ tx' = [tx EXCEPT ![c].fate = to]
  /\ UNCHANGED <<now, latest, files, cmd>>

Arrive(c) ==
  /\ Progress(c, "posted", "seen")
  /\ orders' = [orders EXCEPT ![cmd[c].first].seen = TRUE]
  /\ UNCHANGED payable

Settle(c) ==
  /\ Progress(c, "seen", "settled")
  /\ payable' = FALSE
  /\ UNCHANGED orders

Drop(c) ==
  /\ Progress(c, "posted", "dropped")
  /\ UNCHANGED <<orders, payable>>

(* The backend moves the deposit of an open order. *)
MoveDeposit ==
  /\ latest > 0
  /\ \E d \in Instructions : orders' = [orders EXCEPT ![latest].deposit = d]
  /\ UNCHANGED <<now, payable, latest, files, cmd, tx>>

(* Someone else pays the merchant. *)
LinkPaidElsewhere ==
  /\ payable
  /\ payable' = FALSE
  /\ UNCHANGED <<now, orders, latest, files, cmd, tx>>

(* The clock.  The margin is there so that a payment has settled before    *)
(* its order can be replaced: that it does is assumed here.                *)
TickPay ==
  /\ now < MaxTime
  /\ \A c \in Commands :
       /\ cmd[c].at = "gated" => now - cmd[c].gate < MaxGap
       /\ tx[c].fate \in {"posted", "seen"} => now - tx[c].time < Lag
  /\ now' = now + 1
  /\ UNCHANGED <<payable, orders, latest, files, cmd, tx>>

NextPay ==
  \/ \E c \in Commands : PayStep(c) \/ Arrive(c) \/ Settle(c) \/ Drop(c)
  \/ MoveDeposit \/ LinkPaidElsewhere \/ TickPay

SpecPay == InitPay /\ [][NextPay]_payVars

------------------------------------------------------------------------------
InFlightOrPaid(c) == tx[c].fate \in {"posted", "seen", "settled"}

(* The merchant of one link is paid at most once by this machine, over all *)
(* commands and all the orders the backend makes for the link: an order is *)
(* paid early enough to have settled before the backend replaces it        *)
(* (expiry.mjs, the margins; reuseGuard).                                  *)
LinkPaidOnce ==
  \A c, d \in Commands : InFlightOrPaid(c) /\ InFlightOrPaid(d) => c = d

(* A command never pays an order other than the one its own confirm run    *)
(* released, even when that run was handed a new order and an older        *)
(* command had confirmed the old one (cmdPay sends with the first id).     *)
PaysReleasedOrder ==
  \A c \in Commands : tx[c].fate # "unsent" => cmd[c].first = cmd[c].second

(* The confirm run confirms the order that was shown (cmdPay: "it is       *)
(* always true: confirming never creates a second order").                 *)
ConfirmsSameOrder ==
  \A c \in Commands : cmd[c].second # None => cmd[c].second = cmd[c].first

(* What is paid is what the human was shown before answering               *)
(* (depositDigest: "Digest over the deposit instructions a human was       *)
(* actually shown").                                                       *)
PaidAsShown ==
  \A c \in Commands : tx[c].fate # "unsent" => cmd[c].source = cmd[c].shown
==============================================================================
