--------------------------- MODULE PayCommandProofs ---------------------------
(***************************************************************************)
(* Theorems about pay commands on one link, for any number of commands,    *)
(* orders, deposit addresses and times: the merchant is paid at most once, *)
(* and each command pays the order its own confirm run released.           *)
(*                                                                         *)
(* The argument is about time.  An order that is paid was far enough from  *)
(* its expiry at the last gate to be still open while its transfer is      *)
(* under way, so two transfers under way are of the latest order, whose    *)
(* file takes one claim; and once a transfer has settled the gate is shut. *)
(***************************************************************************)
EXTENDS PayCommand, TLAPS

(* Only the latest order of the link may still be open.                    *)
OthersExpired == \A i \in 1..latest : i < latest => orders[i].expiry <= now

UnderWay(c) == tx[c].fate \in {"posted", "seen"}

(* What a command holds while it goes on, and when it has sent.            *)
HasFirst(c) == cmd[c].first \in 1..latest /\ files[cmd[c].first] # None

CmdInv(c) ==
  /\ cmd[c].at \in {"shown", "yes", "send", "ready", "gated"} => HasFirst(c)
  /\ cmd[c].at \in {"send", "ready", "gated"} =>
       cmd[c].second \in 1..latest /\ cmd[c].first <= cmd[c].second
  /\ cmd[c].at \in {"ready", "gated"} =>
       cmd[c].first = cmd[c].second /\ cmd[c].source \in Instructions
  /\ cmd[c].at = "gated" =>
       /\ cmd[c].gate \in Nat /\ cmd[c].gate <= now /\ now <= cmd[c].gate + MaxGap
       /\ orders[cmd[c].first].expiry > cmd[c].gate + Margin
  /\ tx[c].fate # "unsent" =>
       /\ cmd[c].at = "done" /\ HasFirst(c) /\ cmd[c].first = cmd[c].second
       /\ files[cmd[c].first].send # None
  /\ UnderWay(c) =>
       /\ tx[c].time \in Nat /\ now <= tx[c].time + Lag
       /\ orders[cmd[c].first].expiry > tx[c].time + Lag
  /\ tx[c].fate = "settled" => ~payable

(* Whoever has passed the last gate is about to pay the very order that    *)
(* any transfer under way or settled pays, and its claim will be refused.  *)
GatedAlone ==
  \A c, d \in Commands :
    cmd[c].at = "gated" /\ InFlightOrPaid(d) => cmd[c].first = cmd[d].first

PayCommandInv ==
  /\ TypeOKPay
  /\ OthersExpired
  /\ \A c \in Commands : CmdInv(c)
  /\ GatedAlone
  /\ LinkPaidOnce

LEMMA InitPayInv == InitPay => PayCommandInv
<1> SUFFICES ASSUME InitPay PROVE PayCommandInv
  OBVIOUS
<1>1. 0 \in 0..MaxTime /\ 0 \in 0..MaxOrders /\ 1..0 = {}
  BY PayAssumption DEF PayAssumption
<1>2. orders \in [1..latest -> OrderType]
  BY <1>1 DEF InitPay
<1>3. TypeOKPay
  BY <1>1, <1>2 DEF InitPay, TypeOKPay, CommandType, NewCommand, TxType
<1>4. \A c \in Commands : CmdInv(c)
  BY DEF InitPay, NewCommand, CmdInv, UnderWay
<1>5. OthersExpired /\ GatedAlone /\ LinkPaidOnce
  BY <1>1 DEF InitPay, OthersExpired, GatedAlone, LinkPaidOnce, InFlightOrPaid
<1> QED
  BY <1>3, <1>4, <1>5 DEF PayCommandInv

------------------------------------------------------------------------------
(* The operators of StateFile on the files of the link: the type is kept,  *)
(* and no send record is lost.                                             *)
KeepsSend(old, new) ==
  /\ new \in RecordsPay /\ new # None
  /\ old # None /\ old.send # None => new.send # None

LEMMA CreatedKeepsSend ==
  ASSUME NEW old \in RecordsPay \cup {None}, NEW order \in OrderType
  PROVE  KeepsSend(old, CreateOrderRecord(old, RecordOf(order)))
<1> DEFINE rec == RecordOf(order)
           new == CreateOrderRecord(old, rec)
<1>1. /\ order.deposit.receiverAddress \in Addresses /\ order.deposit.amount = 1
  BY DEF OrderType, Instructions, Deposit
<1>2. rec = [receiverAddress |-> order.deposit.receiverAddress, amount |-> order.deposit.amount,
             invoiceAmount |-> 1, quoteExpiresAt |-> None, invoiceExpiry |-> None]
  BY DEF RecordOf
<1>3. CASE old = None
  <2>1. new = [receiverAddress |-> order.deposit.receiverAddress, amount |-> order.deposit.amount,
               invoiceAmount |-> 1, quoteExpiresAt |-> None, invoiceExpiry |-> None,
               confirmation |-> None, send |-> None]
    BY <1>2, <1>3 DEF CreateOrderRecord
  <2>2. new \in RecordsPay
    BY <1>1, <2>1 DEF RecordsPay, StateRecord
  <2> QED
    BY <1>3, <2>2, PayAssumption DEF PayAssumption, RecordsPay, KeepsSend
<1>4. CASE old \in RecordsPay
  <2>1. old # None
    BY <1>4, PayAssumption DEF PayAssumption, RecordsPay
  <2>2. old.quoteExpiresAt = None /\ old.invoiceExpiry = None
    BY <1>4 DEF RecordsPay, StateRecord
  <2>3. new = [receiverAddress |-> order.deposit.receiverAddress, amount |-> order.deposit.amount,
               invoiceAmount |-> 1, quoteExpiresAt |-> None, invoiceExpiry |-> None,
               confirmation |-> old.confirmation, send |-> old.send]
    BY <1>2, <2>1, <2>2 DEF CreateOrderRecord, Earlier
  <2>4. new \in RecordsPay /\ new.send = old.send
    BY <1>1, <1>4, <2>3 DEF RecordsPay, StateRecord
  <2> QED
    BY <2>4, PayAssumption DEF PayAssumption, RecordsPay, KeepsSend
<1> QED
  BY <1>3, <1>4

LEMMA ConfirmedKeepsSend ==
  ASSUME NEW old \in RecordsPay, NEW d \in Instructions
  PROVE  /\ RecordConfirmation(old, d, None) \in RecordsPay
         /\ RecordConfirmation(old, d, None).send = old.send
<1> DEFINE con == [depositDigest |-> DepositDigest(d), quoteExpiresAt |-> None]
<1>1. con \in ConfirmationRecord(Addresses, {1}, {1}, {})
  BY DEF Instructions, Deposit, DepositDigest, ConfirmationRecord
<1>2. RecordConfirmation(old, d, None) = [old EXCEPT !.confirmation = con]
  BY DEF RecordConfirmation
<1> HIDE DEF con
<1> QED
  BY <1>1, <1>2 DEF RecordsPay, StateRecord

LEMMA ClaimedKeepsSend ==
  ASSUME NEW old \in RecordsPay, NEW d \in Instructions, NEW c \in Commands
  PROVE  LET new == ClaimSend(old, [to |-> d.receiverAddress, amount |-> d.amount,
                                    expectedTxHash |-> c])
         IN  KeepsSend(old, new) /\ new.send # None
<1> DEFINE sent == [status |-> "claimed", to |-> d.receiverAddress, amount |-> d.amount,
                    expectedTxHash |-> c]
           new == [old EXCEPT !.send = sent]
<1>1. sent \in SendRecord(Addresses, {1})
  BY PayAssumption DEF PayAssumption, Instructions, Deposit, SendRecord, SendStatus
<1>2. sent # None
  BY <1>1, PayAssumption DEF PayAssumption
<1>3. ClaimSend(old, [to |-> d.receiverAddress, amount |-> d.amount, expectedTxHash |-> c]) = new
  BY DEF ClaimSend
<1> HIDE DEF sent
<1>4. new \in RecordsPay /\ new.send = sent
  BY <1>1 DEF RecordsPay, StateRecord
<1> QED
  BY <1>2, <1>3, <1>4, PayAssumption DEF PayAssumption, RecordsPay, KeepsSend

------------------------------------------------------------------------------
(* What no step of another command takes away from a command: the link's   *)
(* orders only grow, with the expiry each was given, and no file is lost.  *)
Grows ==
  /\ latest' \in Nat /\ latest <= latest'
  /\ \A i \in 1..latest :
       /\ orders'[i].expiry = orders[i].expiry
       /\ files[i] # None =>
            files'[i] # None /\ (files[i].send # None => files'[i].send # None)

LEMMA CarryCmd ==
  ASSUME TypeOKPay, Grows, now' = now, payable' => payable,
         NEW d \in Commands, CmdInv(d), cmd'[d] = cmd[d], tx'[d] = tx[d]
  PROVE  CmdInv(d)'
<1>1. latest \in Nat /\ 1..latest \subseteq 1..latest'
  BY DEF TypeOKPay, Grows
<1>2. HasFirst(d) =>
        /\ HasFirst(d)'
        /\ orders'[cmd[d].first].expiry = orders[cmd[d].first].expiry
        /\ files[cmd[d].first].send # None => files'[cmd[d].first].send # None
  BY <1>1 DEF HasFirst, Grows
<1>3. cmd[d].at = "gated" => HasFirst(d)
  BY DEF CmdInv
<1>4. UnderWay(d) => HasFirst(d)
  BY DEF CmdInv, UnderWay
<1> QED
  BY <1>1, <1>2, <1>3, <1>4 DEF CmdInv, UnderWay

(* A step that lets nobody past the last gate and starts no transfer keeps *)
(* both facts about two commands.                                          *)
NobodyNew ==
  \A d \in Commands :
    /\ cmd'[d].at = "gated" => cmd[d].at = "gated" /\ cmd'[d].first = cmd[d].first
    /\ InFlightOrPaid(d)' => InFlightOrPaid(d) /\ cmd'[d].first = cmd[d].first

LEMMA CarryAlone ==
  ASSUME GatedAlone, LinkPaidOnce, NobodyNew
  PROVE  GatedAlone' /\ LinkPaidOnce'
BY DEF GatedAlone, LinkPaidOnce, NobodyNew, InFlightOrPaid

(* create-invoice hands out the link's latest order, an old one only when  *)
(* it is still open, and so leaves every other order expired.              *)
LEMMA CreateInvoiceGrows ==
  ASSUME TypeOKPay, OthersExpired, now' = now, NEW o \in OrderIds, CreateInvoice(o)
  PROVE  /\ latest' = o /\ latest' \in 0..MaxOrders /\ latest <= latest'
         /\ orders' \in [1..latest' -> OrderType]
         /\ OthersExpired'
         /\ \A i \in 1..latest : orders'[i].expiry = orders[i].expiry
<1>1. /\ latest \in 0..MaxOrders /\ now \in Nat /\ MaxOrders \in Nat /\ Life \in Nat
      /\ orders \in [1..latest -> OrderType]
  BY PayAssumption DEF PayAssumption, TypeOKPay
<1>2. latest' = o /\ o \in 1..MaxOrders
  BY DEF CreateInvoice, OrderIds
<1>3. CASE Open
  <2>1. o = latest /\ orders' = orders
    BY <1>3 DEF CreateInvoice
  <2> QED
    BY <1>1, <1>2, <2>1 DEF OthersExpired
<1>4. CASE ~Open
  <2>1. o = latest + 1
    BY <1>4 DEF CreateInvoice
  <2>2. PICK d \in Instructions :
          orders' = [i \in 1..o |-> IF i = o
                       THEN [deposit |-> d, expiry |-> now + Life, seen |-> FALSE]
                       ELSE orders[i]]
    BY <1>4 DEF CreateInvoice
  <2>3. \A i \in 1..latest : i # o /\ i \in 1..o /\ orders'[i] = orders[i]
    BY <1>1, <2>1, <2>2
  <2>4. orders' \in [1..latest' -> OrderType]
    <3>1. [deposit |-> d, expiry |-> now + Life, seen |-> FALSE] \in OrderType
      BY <1>1 DEF OrderType
    <3>2. \A i \in 1..o : i # o => i \in 1..latest
      BY <1>1, <2>1
    <3> QED
      BY <1>1, <1>2, <2>2, <3>1, <3>2
  <2>5. \A i \in 1..latest : orders[i].expiry <= now
    <3> SUFFICES ASSUME NEW i \in 1..latest PROVE orders[i].expiry <= now
      OBVIOUS
    <3>1. orders[i].expiry \in Nat
      BY <1>1 DEF OrderType
    <3>2. CASE i < latest
      BY <3>2 DEF OthersExpired
    <3>3. CASE i = latest
      BY <1>1, <1>4, <3>1, <3>3 DEF Open
    <3> QED
      BY <1>1, <3>2, <3>3
  <2>6. OthersExpired'
    <3> SUFFICES ASSUME NEW i \in 1..o, i < o PROVE orders'[i].expiry <= now
      BY <1>2 DEF OthersExpired
    <3>1. i \in 1..latest
      BY <1>1, <2>1
    <3> QED
      BY <2>3, <2>5, <3>1
  <2> QED
    BY <1>1, <1>2, <2>1, <2>3, <2>4, <2>6
<1> QED
  BY <1>3, <1>4

(* An order that has not expired is the latest of its link.                *)
LEMMA UnexpiredIsLatest ==
  ASSUME TypeOKPay, OthersExpired, NEW i \in 1..latest, orders[i].expiry > now
  PROVE  i = latest
<1>1. latest \in Nat /\ now \in Nat /\ orders[i].expiry \in Nat
  BY DEF TypeOKPay, OrderType
<1> QED
  BY <1>1 DEF OthersExpired

(* Both the order about to be paid past the last gate and the order of a   *)
(* transfer under way are still open (the margin covers gap and lag).      *)
LEMMA GatedIsLatest ==
  ASSUME TypeOKPay, OthersExpired, NEW c \in Commands, CmdInv(c), cmd[c].at = "gated"
  PROVE  cmd[c].first = latest /\ orders[cmd[c].first].expiry > now + Lag
<1>1. /\ cmd[c].first \in 1..latest
      /\ cmd[c].gate \in Nat /\ now <= cmd[c].gate + MaxGap
      /\ orders[cmd[c].first].expiry > cmd[c].gate + Margin
  BY DEF CmdInv, HasFirst
<1>2. /\ now \in Nat /\ orders[cmd[c].first].expiry \in Nat
      /\ Margin \in Nat /\ MaxGap \in Nat /\ Lag \in Nat /\ MaxGap + Lag <= Margin
  BY <1>1, PayAssumption DEF PayAssumption, TypeOKPay, OrderType
<1>3. orders[cmd[c].first].expiry > now + Lag
  BY <1>1, <1>2
<1>4. orders[cmd[c].first].expiry > now
  BY <1>2, <1>3
<1> QED
  BY <1>1, <1>3, <1>4, UnexpiredIsLatest

LEMMA UnderWayIsLatest ==
  ASSUME TypeOKPay, OthersExpired, NEW d \in Commands, CmdInv(d), UnderWay(d)
  PROVE  cmd[d].first = latest
<1>1. /\ cmd[d].first \in 1..latest
      /\ tx[d].time \in Nat /\ now <= tx[d].time + Lag
      /\ orders[cmd[d].first].expiry > tx[d].time + Lag
  BY DEF CmdInv, HasFirst, UnderWay
<1>2. now \in Nat /\ orders[cmd[d].first].expiry \in Nat /\ Lag \in Nat
  BY <1>1, PayAssumption DEF PayAssumption, TypeOKPay, OrderType
<1>3. orders[cmd[d].first].expiry > now
  BY <1>1, <1>2
<1> QED
  BY <1>1, <1>3, UnexpiredIsLatest
------------------------------------------------------------------------------
(* One lemma per action.                                                   *)

(* A run of create-order for the command leaves it without the gate, its   *)
(* order and file in place and its transaction unsigned, or done.          *)
LEMMA CreatedRuns ==
  ASSUME PayCommandInv, NEW c \in Commands, cmd[c].at \in {"start", "yes"},
         NEW o \in OrderIds, CreateInvoice(o), UNCHANGED <<now, payable, tx>>,
         NEW r \in CommandType, cmd' = [cmd EXCEPT ![c] = r], r.at # "gated",
         \/ r.at = "done" /\ files' = files
         \/ \E f : files' = [files EXCEPT ![o] = f] /\ KeepsSend(files[o], f),
         tx[c].fate = "unsent" /\ latest' = o => CmdInv(c)'
  PROVE  PayCommandInv'
<1>1. TypeOKPay /\ OthersExpired /\ GatedAlone /\ LinkPaidOnce /\ \A d \in Commands : CmdInv(d)
  BY DEF PayCommandInv
<1>2. /\ latest' = o /\ latest' \in 0..MaxOrders /\ latest <= latest'
      /\ orders' \in [1..latest' -> OrderType]
      /\ OthersExpired'
      /\ \A i \in 1..latest : orders'[i].expiry = orders[i].expiry
  BY <1>1, CreateInvoiceGrows
<1>3. /\ files' \in [OrderIds -> RecordsPay \cup {None}]
      /\ \A i \in OrderIds : files[i] # None =>
           files'[i] # None /\ (files[i].send # None => files'[i].send # None)
  BY <1>1 DEF TypeOKPay, KeepsSend
<1>4. Grows
  BY <1>1, <1>2, <1>3, PayAssumption DEF PayAssumption, Grows, TypeOKPay, OrderIds
<1>5. TypeOKPay'
  BY <1>1, <1>2, <1>3 DEF TypeOKPay
<1>6. cmd \in [Commands -> CommandType]
  BY <1>1 DEF TypeOKPay
<1>7. \A d \in Commands : CmdInv(d)'
  <2> TAKE d \in Commands
  <2>1. CASE d = c
    <3>1. tx[c].fate = "unsent"
      BY <1>1 DEF CmdInv
    <3> QED
      BY <1>2, <2>1, <3>1
  <2>2. CASE d # c
    <3>1. cmd'[d] = cmd[d] /\ tx'[d] = tx[d]
      BY <1>6, <2>2
    <3>2. CmdInv(d) /\ now' = now /\ (payable' => payable)
      BY <1>1
    <3> QED
      BY <1>1, <1>4, <3>1, <3>2, CarryCmd
  <2> QED
    BY <2>1, <2>2
<1>8. NobodyNew
  <2> SUFFICES ASSUME NEW d \in Commands
               PROVE  /\ cmd'[d].at = "gated" =>
                           cmd[d].at = "gated" /\ cmd'[d].first = cmd[d].first
                      /\ InFlightOrPaid(d)' => InFlightOrPaid(d) /\ cmd'[d].first = cmd[d].first
    BY DEF NobodyNew
  <2>1. CASE d = c
    <3>1. tx[c].fate = "unsent"
      BY <1>1 DEF CmdInv
    <3> QED
      BY <1>6, <2>1, <3>1 DEF InFlightOrPaid
  <2>2. CASE d # c
    BY <1>6, <2>2 DEF InFlightOrPaid
  <2> QED
    BY <2>1, <2>2
<1>9. GatedAlone' /\ LinkPaidOnce'
  BY <1>1, <1>8, CarryAlone
<1> QED
  BY <1>2, <1>5, <1>7, <1>9 DEF PayCommandInv

LEMMA ShowKeepsInv ==
  ASSUME PayCommandInv, NEW c \in Commands, Show(c)
  PROVE  PayCommandInv'
<1>1. TypeOKPay /\ OthersExpired /\ CmdInv(c)
  BY DEF PayCommandInv
<1>2. /\ cmd[c] \in CommandType /\ cmd[c].at = "start"
      /\ files \in [OrderIds -> RecordsPay \cup {None}]
  BY <1>1 DEF TypeOKPay, Show
<1>3. PICK o \in OrderIds :
        /\ CreateInvoice(o)
        /\ IF MayRelease(orders'[o])
             THEN /\ files' = [files EXCEPT ![o] = CreateOrderRecord(@, RecordOf(orders'[o]))]
                  /\ cmd' = [cmd EXCEPT ![c].at = "shown", ![c].first = o,
                                        ![c].shown = orders'[o].deposit]
             ELSE cmd' = [cmd EXCEPT ![c].at = "done"] /\ UNCHANGED files
  BY DEF Show
<1>4. UNCHANGED <<now, payable, tx>>
  BY DEF Show
<1>5. CASE MayRelease(orders'[o])
  <2> DEFINE r == [cmd[c] EXCEPT !.at = "shown", !.first = o, !.shown = orders'[o].deposit]
             f == CreateOrderRecord(files[o], RecordOf(orders'[o]))
  <2>1. latest' = o /\ o \in 1..o /\ orders'[o] \in OrderType
    BY <1>1, <1>3, <1>4, CreateInvoiceGrows DEF OrderIds
  <2>2. cmd' = [cmd EXCEPT ![c] = r] /\ files' = [files EXCEPT ![o] = f]
    BY <1>3, <1>5
  <2>3. r \in CommandType /\ r.at = "shown" /\ r.first = o
    BY <1>2, <2>1 DEF CommandType, OrderType
  <2>4. KeepsSend(files[o], f)
    BY <1>2, <2>1, CreatedKeepsSend
  <2> HIDE DEF r, f
  <2>5. files'[o] # None /\ cmd'[c] = r
    BY <1>1, <1>2, <2>2, <2>4 DEF KeepsSend, TypeOKPay
  <2>6. tx[c].fate = "unsent" /\ latest' = o => CmdInv(c)'
    BY <1>4, <2>1, <2>3, <2>5 DEF CmdInv, HasFirst, UnderWay
  <2>7. cmd[c].at \in {"start", "yes"} /\ r.at # "gated"
    BY <1>2, <2>3
  <2>8. \E g : files' = [files EXCEPT ![o] = g] /\ KeepsSend(files[o], g)
    BY <2>2, <2>4
  <2> QED
    BY <1>3, <1>4, <2>2, <2>3, <2>6, <2>7, <2>8, CreatedRuns
<1>6. CASE ~MayRelease(orders'[o])
  <2> DEFINE r == [cmd[c] EXCEPT !.at = "done"]
  <2>1. cmd' = [cmd EXCEPT ![c] = r] /\ files' = files
    BY <1>3, <1>6
  <2>2. r \in CommandType /\ r.at = "done"
    BY <1>2 DEF CommandType
  <2> HIDE DEF r
  <2>3. cmd'[c] = r
    BY <1>1, <2>1 DEF TypeOKPay
  <2>4. tx[c].fate = "unsent" /\ latest' = o => CmdInv(c)'
    BY <1>4, <2>2, <2>3 DEF CmdInv, UnderWay
  <2>5. cmd[c].at \in {"start", "yes"} /\ r.at # "gated"
    BY <1>2, <2>2
  <2> QED
    BY <1>3, <1>4, <2>1, <2>2, <2>4, <2>5, CreatedRuns
<1> QED
  BY <1>5, <1>6

LEMMA ConfirmAnsweredKeepsInv ==
  ASSUME PayCommandInv, NEW c \in Commands, ConfirmAnswered(c)
  PROVE  PayCommandInv'
<1>1. TypeOKPay /\ OthersExpired /\ CmdInv(c)
  BY DEF PayCommandInv
<1>2. /\ cmd[c] \in CommandType /\ cmd[c].at = "yes"
      /\ files \in [OrderIds -> RecordsPay \cup {None}]
      /\ cmd[c].first \in 1..latest /\ files[cmd[c].first] # None
  BY <1>1 DEF TypeOKPay, ConfirmAnswered, CmdInv, HasFirst
<1>3. PICK o \in OrderIds :
        /\ CreateInvoice(o)
        /\ IF MayRelease(orders'[o])
             THEN /\ files' = [files EXCEPT ![o] = RecordConfirmation(
                        CreateOrderRecord(@, RecordOf(orders'[o])), orders'[o].deposit, None)]
                  /\ cmd' = [cmd EXCEPT ![c].at = "send", ![c].second = o]
             ELSE cmd' = [cmd EXCEPT ![c].at = "done"] /\ UNCHANGED files
  BY DEF ConfirmAnswered
<1>4. UNCHANGED <<now, payable, tx>>
  BY DEF ConfirmAnswered
<1>5. CASE MayRelease(orders'[o])
  <2> DEFINE r == [cmd[c] EXCEPT !.at = "send", !.second = o]
             e == CreateOrderRecord(files[o], RecordOf(orders'[o]))
             f == RecordConfirmation(e, orders'[o].deposit, None)
  <2>1. /\ latest' = o /\ o \in 1..o /\ orders'[o] \in OrderType /\ latest <= o
        /\ latest \in Nat /\ o \in Nat
    BY <1>1, <1>3, <1>4, CreateInvoiceGrows, PayAssumption
    DEF PayAssumption, OrderIds, TypeOKPay
  <2>2. cmd' = [cmd EXCEPT ![c] = r] /\ files' = [files EXCEPT ![o] = f]
    BY <1>3, <1>5
  <2>3. r \in CommandType /\ r.at = "send" /\ r.first = cmd[c].first /\ r.second = o
    BY <1>2, <2>1 DEF CommandType
  <2>4. KeepsSend(files[o], e)
    BY <1>2, <2>1, CreatedKeepsSend
  <2>5. orders'[o].deposit \in Instructions
    BY <2>1 DEF OrderType
  <2> HIDE DEF r, e
  <2>6. f \in RecordsPay /\ f.send = e.send
    BY <2>4, <2>5, ConfirmedKeepsSend DEF KeepsSend
  <2> HIDE DEF f
  <2>7. KeepsSend(files[o], f)
    BY <2>4, <2>6, PayAssumption DEF KeepsSend, RecordsPay, PayAssumption
  <2>8. files'[cmd[c].first] # None /\ cmd'[c] = r
    BY <1>1, <1>2, <2>2, <2>7 DEF KeepsSend, TypeOKPay
  <2>9. cmd[c].first \in 1..o /\ cmd[c].first <= o
    BY <1>2, <2>1
  <2>10. tx[c].fate = "unsent" /\ latest' = o => CmdInv(c)'
    BY <1>4, <2>1, <2>3, <2>8, <2>9 DEF CmdInv, HasFirst, UnderWay
  <2>11. cmd[c].at \in {"start", "yes"} /\ r.at # "gated"
    BY <1>2, <2>3
  <2>12. \E g : files' = [files EXCEPT ![o] = g] /\ KeepsSend(files[o], g)
    BY <2>2, <2>7
  <2> QED
    BY <1>3, <1>4, <2>2, <2>3, <2>10, <2>11, <2>12, CreatedRuns
<1>6. CASE ~MayRelease(orders'[o])
  <2> DEFINE r == [cmd[c] EXCEPT !.at = "done"]
  <2>1. cmd' = [cmd EXCEPT ![c] = r] /\ files' = files
    BY <1>3, <1>6
  <2>2. r \in CommandType /\ r.at = "done"
    BY <1>2 DEF CommandType
  <2> HIDE DEF r
  <2>3. cmd'[c] = r
    BY <1>1, <2>1 DEF TypeOKPay
  <2>4. tx[c].fate = "unsent" /\ latest' = o => CmdInv(c)'
    BY <1>4, <2>2, <2>3 DEF CmdInv, UnderWay
  <2>5. cmd[c].at \in {"start", "yes"} /\ r.at # "gated"
    BY <1>2, <2>2
  <2> QED
    BY <1>3, <1>4, <2>1, <2>2, <2>4, <2>5, CreatedRuns
<1> QED
  BY <1>5, <1>6
(* A step of the command alone that does not pass it through the last gate. *)
LEMMA CommandRuns ==
  ASSUME PayCommandInv, NEW c \in Commands,
         UNCHANGED <<now, payable, orders, latest, files, tx>>,
         NEW r \in CommandType, cmd' = [cmd EXCEPT ![c] = r],
         r.at = "gated" => \A d \in Commands :
            d # c /\ InFlightOrPaid(d) => r.first = cmd[d].first,
         cmd[c].at \in {"start", "shown", "yes", "send", "ready", "gated"},
         tx[c].fate = "unsent" => CmdInv(c)'
  PROVE  PayCommandInv'
<1>1. TypeOKPay /\ OthersExpired /\ GatedAlone /\ LinkPaidOnce /\ \A d \in Commands : CmdInv(d)
  BY DEF PayCommandInv
<1>2. cmd \in [Commands -> CommandType] /\ tx[c].fate = "unsent"
  BY <1>1 DEF TypeOKPay, CmdInv
<1>3. TypeOKPay' /\ OthersExpired'
  BY <1>1 DEF TypeOKPay, OthersExpired
<1>4. Grows
  BY <1>1, PayAssumption DEF PayAssumption, Grows, TypeOKPay
<1>5. \A d \in Commands : CmdInv(d)'
  <2> TAKE d \in Commands
  <2>1. CASE d = c
    BY <1>2, <2>1
  <2>2. CASE d # c
    <3>1. cmd'[d] = cmd[d] /\ tx'[d] = tx[d]
      BY <1>2, <2>2
    <3>2. CmdInv(d) /\ now' = now /\ (payable' => payable)
      BY <1>1
    <3> QED
      BY <1>1, <1>4, <3>1, <3>2, CarryCmd
  <2> QED
    BY <2>1, <2>2
<1>6. \A d \in Commands : /\ cmd'[d] = IF d = c THEN r ELSE cmd[d]
                          /\ InFlightOrPaid(d)' <=> InFlightOrPaid(d)
  BY <1>2 DEF InFlightOrPaid
<1>7. ~InFlightOrPaid(c)
  BY <1>2 DEF InFlightOrPaid
<1>8. GatedAlone'
  <2> SUFFICES ASSUME NEW a \in Commands, NEW b \in Commands,
                      cmd'[a].at = "gated", InFlightOrPaid(b)'
               PROVE  cmd'[a].first = cmd'[b].first
    BY DEF GatedAlone
  <2>1. b # c /\ InFlightOrPaid(b) /\ cmd'[b] = cmd[b]
    BY <1>6, <1>7
  <2>2. CASE a = c
    BY <1>6, <2>1, <2>2
  <2>3. CASE a # c
    BY <1>1, <1>6, <2>1, <2>3 DEF GatedAlone
  <2> QED
    BY <2>2, <2>3
<1>9. LinkPaidOnce'
  BY <1>1, <1>6 DEF LinkPaidOnce
<1> QED
  BY <1>3, <1>5, <1>8, <1>9 DEF PayCommandInv

LEMMA AnswerKeepsInv ==
  ASSUME PayCommandInv, NEW c \in Commands, Answer(c)
  PROVE  PayCommandInv'
<1>1. TypeOKPay /\ CmdInv(c) /\ cmd[c] \in CommandType
  BY DEF PayCommandInv, TypeOKPay
<1>2. PICK yes \in BOOLEAN : cmd' = [cmd EXCEPT ![c].at = IF yes THEN "yes" ELSE "done"]
  BY DEF Answer
<1> DEFINE r == [cmd[c] EXCEPT !.at = IF yes THEN "yes" ELSE "done"]
<1>3. cmd' = [cmd EXCEPT ![c] = r] /\ cmd[c].at = "shown"
  BY <1>2 DEF Answer
<1>4. r \in CommandType /\ r.at \in {"yes", "done"} /\ r.first = cmd[c].first
  BY <1>1 DEF CommandType
<1> HIDE DEF r
<1>5. UNCHANGED <<now, payable, orders, latest, files, tx>> /\ cmd'[c] = r
  BY <1>1, <1>3 DEF Answer, TypeOKPay
<1>6. tx[c].fate = "unsent" => CmdInv(c)'
  BY <1>1, <1>3, <1>4, <1>5 DEF CmdInv, HasFirst, UnderWay
<1>7. cmd[c].at \in {"start", "shown", "yes", "send", "ready"} /\ r.at # "gated"
  BY <1>3, <1>4
<1> QED
  BY <1>3, <1>4, <1>5, <1>6, <1>7, CommandRuns

LEMMA KilledKeepsInv ==
  ASSUME PayCommandInv, NEW c \in Commands, Killed(c)
  PROVE  PayCommandInv'
<1>1. TypeOKPay /\ CmdInv(c) /\ cmd[c] \in CommandType
  BY DEF PayCommandInv, TypeOKPay
<1> DEFINE r == [cmd[c] EXCEPT !.at = "done"]
<1>2. cmd' = [cmd EXCEPT ![c] = r] /\ cmd[c].at = "gated"
  BY DEF Killed
<1>3. r \in CommandType /\ r.at = "done"
  BY <1>1 DEF CommandType
<1> HIDE DEF r
<1>4. UNCHANGED <<now, payable, orders, latest, files, tx>> /\ cmd'[c] = r
  BY <1>1, <1>2 DEF Killed, TypeOKPay
<1>5. tx[c].fate = "unsent" => CmdInv(c)'
  BY <1>3, <1>4 DEF CmdInv, UnderWay
<1> QED
  BY <1>2, <1>3, <1>4, <1>5, CommandRuns

(* The preflight passes on the first order only while that is still open,  *)
(* and then it is the latest, so the confirm run was handed the same.      *)
LEMMA PreflightKeepsInv ==
  ASSUME PayCommandInv, NEW c \in Commands, Preflight(c)
  PROVE  PayCommandInv'
<1> DEFINE o  == cmd[c].first
           ok == /\ files[o].send = None
                 /\ files[o].confirmation # None
                 /\ MayRelease(orders[o])
                 /\ DepositDigest(orders[o].deposit) = files[o].confirmation.depositDigest
           r == [cmd[c] EXCEPT !.at = IF ok THEN "ready" ELSE "done",
                               !.source = IF ok THEN orders[o].deposit ELSE None]
<1>1. TypeOKPay /\ OthersExpired /\ CmdInv(c) /\ cmd[c] \in CommandType /\ cmd[c].at = "send"
  BY DEF PayCommandInv, TypeOKPay, Preflight
<1>2. /\ o \in 1..latest /\ files[o] # None
      /\ cmd[c].second \in 1..latest /\ o <= cmd[c].second
      /\ orders[o] \in OrderType
  BY <1>1 DEF CmdInv, HasFirst, TypeOKPay
<1>3. ok => o = cmd[c].second
  <2> SUFFICES ASSUME ok PROVE o = cmd[c].second
    OBVIOUS
  <2>1. orders[o].expiry - now > Margin
    BY DEF MayRelease, InTime
  <2>2. orders[o].expiry > now
    BY <1>1, <1>2, <2>1, PayAssumption DEF PayAssumption, OrderType, TypeOKPay
  <2>3. o = latest
    BY <1>1, <1>2, <2>2, UnexpiredIsLatest
  <2> QED
    BY <1>1, <1>2, <2>3 DEF TypeOKPay
<1>4. cmd' = [cmd EXCEPT ![c] = r] /\ UNCHANGED <<now, payable, orders, latest, files, tx>>
  BY DEF Preflight
<1>5. orders[o].deposit \in Instructions
  BY <1>2 DEF OrderType
<1> HIDE DEF ok
<1>6. /\ r \in CommandType /\ r.at \in {"ready", "done"}
      /\ r.first = o /\ r.second = cmd[c].second
      /\ r.at = "ready" => ok /\ r.source \in Instructions
  BY <1>1, <1>5 DEF CommandType
<1> HIDE DEF r, o
<1>7. cmd'[c] = r
  BY <1>1, <1>4 DEF TypeOKPay
<1>8. tx[c].fate = "unsent" => CmdInv(c)'
  BY <1>2, <1>3, <1>4, <1>6, <1>7 DEF CmdInv, HasFirst, UnderWay
<1>9. cmd[c].at \in {"start", "shown", "yes", "send", "ready"} /\ r.at # "gated"
  BY <1>1, <1>6
<1> QED
  BY <1>4, <1>6, <1>8, <1>9, CommandRuns

(* The last gate is passed only while the link is payable, so no transfer  *)
(* has settled, and only on an order still open, as is the order of every  *)
(* transfer under way.                                                     *)
LEMMA FinalCheckKeepsInv ==
  ASSUME PayCommandInv, NEW c \in Commands, FinalCheck(c)
  PROVE  PayCommandInv'
<1> DEFINE o  == cmd[c].first
           ok == payable /\ InTime(orders[o])
           r  == [cmd[c] EXCEPT !.at = IF ok THEN "gated" ELSE "done",
                                !.gate = IF ok THEN now ELSE None]
<1>1. /\ TypeOKPay /\ OthersExpired /\ CmdInv(c) /\ \A d \in Commands : CmdInv(d)
      /\ cmd[c] \in CommandType /\ cmd[c].at = "ready"
  BY DEF PayCommandInv, TypeOKPay, FinalCheck
<1>2. /\ o \in 1..latest /\ files[o] # None
      /\ cmd[c].second \in 1..latest /\ o = cmd[c].second
      /\ cmd[c].source \in Instructions
      /\ orders[o] \in OrderType /\ now \in Nat
  BY <1>1 DEF CmdInv, HasFirst, TypeOKPay
<1>3. cmd' = [cmd EXCEPT ![c] = r] /\ UNCHANGED <<now, payable, orders, latest, files, tx>>
  BY DEF FinalCheck
<1>4. ok => /\ payable /\ o = latest
            /\ orders[o].expiry > now + Margin /\ now <= now + MaxGap
  <2> SUFFICES ASSUME ok
               PROVE  /\ payable /\ o = latest
                      /\ orders[o].expiry > now + Margin /\ now <= now + MaxGap
    OBVIOUS
  <2>1. orders[o].expiry - now > Margin
    BY DEF InTime
  <2>2. /\ orders[o].expiry > now /\ orders[o].expiry > now + Margin
        /\ now <= now + MaxGap
    BY <1>2, <2>1, PayAssumption DEF PayAssumption, OrderType
  <2> QED
    BY <1>1, <1>2, <2>2, UnexpiredIsLatest
<1> HIDE DEF ok
<1>5. /\ r \in CommandType /\ r.at \in {"gated", "done"}
      /\ r.first = o /\ r.second = cmd[c].second /\ r.source = cmd[c].source
      /\ r.at = "gated" => ok /\ r.gate = now
  BY <1>1, <1>2 DEF CommandType
<1> HIDE DEF r, o
<1>6. cmd'[c] = r
  BY <1>1, <1>3 DEF TypeOKPay
<1>7. tx[c].fate = "unsent" => CmdInv(c)'
  <2> SUFFICES ASSUME tx[c].fate = "unsent" PROVE CmdInv(c)'
    OBVIOUS
  <2>1. r.at = "done" => CmdInv(c)'
    BY <1>3, <1>6 DEF CmdInv, HasFirst, UnderWay
  <2>2. ASSUME r.at = "gated" PROVE CmdInv(c)'
    <3>1. cmd'[c].gate \in Nat /\ cmd'[c].gate <= now /\ now <= cmd'[c].gate + MaxGap
      BY <1>2, <1>4, <1>5, <1>6, <2>2
    <3>2. orders[cmd'[c].first].expiry > cmd'[c].gate + Margin
      BY <1>4, <1>5, <1>6, <2>2
    <3> QED
      BY <1>2, <1>3, <1>5, <1>6, <2>2, <3>1, <3>2 DEF CmdInv, HasFirst, UnderWay
  <2> QED
    BY <1>5, <2>1, <2>2
<1>8. r.at = "gated" => \A d \in Commands :
        d # c /\ InFlightOrPaid(d) => r.first = cmd[d].first
  <2> SUFFICES ASSUME r.at = "gated", NEW d \in Commands, InFlightOrPaid(d)
               PROVE  r.first = cmd[d].first
    OBVIOUS
  <2>1. UnderWay(d)
    BY <1>1, <1>4, <1>5 DEF CmdInv, InFlightOrPaid, UnderWay
  <2>2. cmd[d].first = latest
    BY <1>1, <2>1, UnderWayIsLatest
  <2> QED
    BY <1>4, <1>5, <2>2
<1>9. cmd[c].at \in {"start", "shown", "yes", "send", "ready"}
  BY <1>1
<1> QED
  BY <1>3, <1>5, <1>7, <1>8, <1>9, CommandRuns
(* The claim and the broadcast.  Whoever is in flight or paid has a claim  *)
(* in the file of the same order, so the claim is taken only when nobody is. *)
LEMMA SendKeepsInv ==
  ASSUME PayCommandInv, NEW c \in Commands, Send(c)
  PROVE  PayCommandInv'
<1> DEFINE o == cmd[c].first
           r == [cmd[c] EXCEPT !.at = "done"]
           f == ClaimSend(files[o], [to |-> cmd[c].source.receiverAddress,
                                     amount |-> cmd[c].source.amount, expectedTxHash |-> c])
           t == [fate |-> "posted", time |-> now]
<1>1. /\ TypeOKPay /\ OthersExpired /\ GatedAlone /\ LinkPaidOnce
      /\ CmdInv(c) /\ \A d \in Commands : CmdInv(d)
      /\ cmd[c] \in CommandType /\ cmd[c].at = "gated" /\ tx[c].fate = "unsent"
  BY DEF PayCommandInv, TypeOKPay, Send, CmdInv
<1>2. /\ o \in 1..latest /\ files[o] # None /\ o = cmd[c].second
      /\ cmd[c].source \in Instructions
      /\ cmd \in [Commands -> CommandType] /\ tx \in [Commands -> TxType]
      /\ files \in [OrderIds -> RecordsPay \cup {None}] /\ o \in OrderIds
  BY <1>1, PayAssumption DEF PayAssumption, CmdInv, HasFirst, TypeOKPay, OrderIds
<1>3. cmd' = [cmd EXCEPT ![c] = r] /\ UNCHANGED <<now, payable, orders, latest>>
  BY DEF Send
<1>4. orders[o].expiry > now + Lag /\ o = latest
  BY <1>1, GatedIsLatest
<1>5. r \in CommandType /\ r.at = "done" /\ r.first = o /\ r.second = o
  BY <1>1, <1>2 DEF CommandType
<1>6. files[o] \in RecordsPay
  BY <1>2
<1>7. KeepsSend(files[o], f) /\ f.send # None
  BY <1>2, <1>6, ClaimedKeepsSend
<1>8. MayClaim(files[o]) => \A d \in Commands : ~InFlightOrPaid(d)
  <2> SUFFICES ASSUME MayClaim(files[o]), NEW d \in Commands, InFlightOrPaid(d)
               PROVE  FALSE
    OBVIOUS
  <2>1. o = cmd[d].first
    BY <1>1 DEF GatedAlone
  <2>2. files[cmd[d].first].send # None
    BY <1>1 DEF CmdInv, InFlightOrPaid
  <2> QED
    BY <2>1, <2>2 DEF MayClaim
<1>9. t \in TxType /\ t.fate = "posted" /\ t.time = now /\ now \in Nat
  BY <1>1 DEF TxType, TypeOKPay
<1>10. \/ MayClaim(files[o]) /\ files' = [files EXCEPT ![o] = f] /\ tx' = [tx EXCEPT ![c] = t]
       \/ files' = [files EXCEPT ![o] = f] /\ tx' = tx
       \/ files' = files /\ tx' = tx
  <2>1. CASE MayClaim(files[o])
    <3>1. /\ files' = [files EXCEPT ![o] = f]
          /\ \E taken \in BOOLEAN : tx' = IF taken THEN [tx EXCEPT ![c] = t] ELSE tx
      BY <2>1 DEF Send
    <3> QED
      BY <2>1, <3>1
  <2>2. CASE ~MayClaim(files[o])
    BY <2>2 DEF Send
  <2> QED
    BY <2>1, <2>2
<1> HIDE DEF f, r, t, o
<1>11. /\ files' \in [OrderIds -> RecordsPay \cup {None}]
       /\ \A i \in OrderIds : files[i] # None =>
            files'[i] # None /\ (files[i].send # None => files'[i].send # None)
  <2>1. CASE files' = [files EXCEPT ![o] = f]
    BY <1>2, <1>7, <2>1 DEF KeepsSend
  <2>2. CASE files' = files
    BY <1>2, <2>2
  <2> QED
    BY <1>10, <2>1, <2>2
<1>12. \A d \in Commands : cmd'[d] = IF d = c THEN r ELSE cmd[d]
  BY <1>2, <1>3
<1>13. TypeOKPay'
  <2>1. cmd' \in [Commands -> CommandType] /\ tx' \in [Commands -> TxType]
    BY <1>2, <1>3, <1>5, <1>9, <1>10
  <2> QED
    BY <1>1, <1>3, <1>11, <2>1 DEF TypeOKPay
<1>14. OthersExpired'
  BY <1>1, <1>3 DEF OthersExpired
<1>15. Grows
  BY <1>1, <1>3, <1>11, PayAssumption DEF PayAssumption, Grows, TypeOKPay, OrderIds
<1>16. \A d \in Commands : CmdInv(d)'
  <2> TAKE d \in Commands
  <2>1. CASE d = c /\ tx' = tx
    BY <1>1, <1>5, <1>12, <2>1 DEF CmdInv, UnderWay
  <2>2. CASE d = c /\ tx' = [tx EXCEPT ![c] = t] /\ files' = [files EXCEPT ![o] = f]
    <3>1. tx'[d] = t /\ files'[o] = f /\ f # None /\ cmd'[d] = r
      BY <1>2, <1>7, <1>12, <2>2 DEF KeepsSend
    <3>2. now <= now + Lag
      BY <1>9, PayAssumption DEF PayAssumption
    <3> QED
      BY <1>2, <1>3, <1>4, <1>5, <1>7, <1>9, <3>1, <3>2 DEF CmdInv, HasFirst, UnderWay
  <2>3. CASE d # c
    <3>1. cmd'[d] = cmd[d] /\ tx'[d] = tx[d]
      BY <1>2, <1>10, <1>12, <2>3
    <3>2. CmdInv(d) /\ now' = now /\ (payable' => payable)
      BY <1>1, <1>3
    <3> QED
      BY <1>1, <1>15, <3>1, <3>2, CarryCmd
  <2> QED
    BY <1>10, <2>1, <2>2, <2>3
<1>17. GatedAlone' /\ LinkPaidOnce'
  <2>1. CASE tx' = tx
    <3>1. NobodyNew
      BY <1>1, <1>5, <1>12, <2>1 DEF NobodyNew, InFlightOrPaid
    <3> QED
      BY <1>1, <3>1, CarryAlone
  <2>2. CASE MayClaim(files[o]) /\ tx' = [tx EXCEPT ![c] = t]
    <3>1. \A d \in Commands : InFlightOrPaid(d)' => d = c
      BY <1>2, <1>8, <2>2 DEF InFlightOrPaid
    <3>2. \A d \in Commands : cmd'[d].at = "gated" => cmd'[d].first = cmd'[c].first
      <4> SUFFICES ASSUME NEW d \in Commands, cmd'[d].at = "gated"
                   PROVE  cmd'[d].first = cmd'[c].first
        OBVIOUS
      <4>1. cmd'[d] = cmd[d] /\ cmd[d].at = "gated" /\ cmd'[c].first = latest
        BY <1>4, <1>5, <1>12
      <4>2. cmd[d].first = latest
        BY <1>1, <4>1, GatedIsLatest
      <4> QED
        BY <4>1, <4>2
    <3> QED
      BY <3>1, <3>2 DEF GatedAlone, LinkPaidOnce
  <2> QED
    BY <1>10, <2>1, <2>2
<1> QED
  BY <1>13, <1>14, <1>16, <1>17 DEF PayCommandInv

------------------------------------------------------------------------------
(* The world's steps: they touch one transaction, the flags of the link's  *)
(* orders and the link, and no command.                                    *)
LEMMA WorldRuns ==
  ASSUME PayCommandInv, UNCHANGED <<now, latest, files, cmd>>,
         tx' \in [Commands -> TxType], payable' \in BOOLEAN, payable' => payable,
         orders' \in [1..latest -> OrderType],
         \A i \in 1..latest : orders'[i].expiry = orders[i].expiry,
         \A d \in Commands :
           \/ tx'[d] = tx[d]
           \/ /\ UnderWay(d) /\ tx'[d].time = tx[d].time /\ tx'[d].fate # "unsent"
              /\ tx'[d].fate = "settled" => ~payable'
  PROVE  PayCommandInv'
<1>1. TypeOKPay /\ OthersExpired /\ GatedAlone /\ LinkPaidOnce /\ \A d \in Commands : CmdInv(d)
  BY DEF PayCommandInv
<1>2. TypeOKPay' /\ OthersExpired'
  BY <1>1 DEF TypeOKPay, OthersExpired
<1>3. Grows
  BY <1>1, PayAssumption DEF PayAssumption, Grows, TypeOKPay
<1>4. \A d \in Commands : CmdInv(d)'
  <2> TAKE d \in Commands
  <2>1. CmdInv(d) /\ cmd'[d] = cmd[d] /\ now' = now
    BY <1>1
  <2>2. CASE tx'[d] = tx[d]
    BY <1>1, <1>3, <2>1, <2>2, CarryCmd
  <2>3. CASE /\ UnderWay(d) /\ tx'[d].time = tx[d].time /\ tx'[d].fate # "unsent"
             /\ tx'[d].fate = "settled" => ~payable'
    <3>1. cmd[d].at = "done" /\ HasFirst(d)
      BY <2>1, <2>3 DEF CmdInv, UnderWay
    <3>2. orders'[cmd[d].first].expiry = orders[cmd[d].first].expiry
      BY <3>1 DEF HasFirst
    <3> QED
      BY <2>1, <2>3, <3>1, <3>2 DEF CmdInv, HasFirst, UnderWay
  <2> QED
    BY <2>2, <2>3
<1>5. NobodyNew
  BY DEF NobodyNew, InFlightOrPaid, UnderWay
<1>6. GatedAlone' /\ LinkPaidOnce'
  BY <1>1, <1>5, CarryAlone
<1> QED
  BY <1>2, <1>4, <1>6 DEF PayCommandInv

LEMMA WorldKeepsInv ==
  ASSUME PayCommandInv, NEW c \in Commands, Arrive(c) \/ Settle(c) \/ Drop(c)
  PROVE  PayCommandInv'
<1>1. TypeOKPay /\ CmdInv(c)
  BY DEF PayCommandInv
<1>2. /\ tx \in [Commands -> TxType] /\ orders \in [1..latest -> OrderType]
      /\ payable \in BOOLEAN
  BY <1>1 DEF TypeOKPay
<1>3. UNCHANGED <<now, latest, files, cmd>>
  BY DEF Arrive, Settle, Drop, Progress
<1>4. PICK fate \in {"seen", "settled", "dropped"} :
        /\ UnderWay(c) /\ tx' = [tx EXCEPT ![c].fate = fate]
        /\ fate = "settled" => ~payable'
  BY DEF Arrive, Settle, Drop, Progress, UnderWay
<1>5. /\ tx' \in [Commands -> TxType]
      /\ tx'[c].fate = fate /\ tx'[c].time = tx[c].time
      /\ \A d \in Commands : d # c => tx'[d] = tx[d]
  BY <1>2, <1>4 DEF TxType
<1>6. /\ orders' \in [1..latest -> OrderType]
      /\ \A i \in 1..latest : orders'[i].expiry = orders[i].expiry
  <2>1. CASE orders' = orders
    BY <1>2, <2>1
  <2>2. CASE orders' = [orders EXCEPT ![cmd[c].first].seen = TRUE]
    <3>1. cmd[c].first \in 1..latest
      BY <1>1, <1>4 DEF CmdInv, HasFirst, UnderWay
    <3> QED
      BY <1>2, <2>2, <3>1 DEF OrderType
  <2> QED
    BY <2>1, <2>2 DEF Arrive, Settle, Drop
<1>7. payable' \in BOOLEAN /\ (payable' => payable)
  <2>1. payable' = payable \/ payable' = FALSE
    BY DEF Arrive, Settle, Drop
  <2>2. CASE payable' = payable
    BY <1>2, <2>2
  <2>3. CASE payable' = FALSE
    BY <2>3
  <2> QED
    BY <2>1, <2>2, <2>3
<1>8. \A d \in Commands :
        \/ tx'[d] = tx[d]
        \/ /\ UnderWay(d) /\ tx'[d].time = tx[d].time /\ tx'[d].fate # "unsent"
           /\ tx'[d].fate = "settled" => ~payable'
  BY <1>4, <1>5
<1> QED
  BY <1>3, <1>5, <1>6, <1>7, <1>8, WorldRuns

LEMMA LinkKeepsInv ==
  ASSUME PayCommandInv, MoveDeposit \/ LinkPaidElsewhere
  PROVE  PayCommandInv'
<1>1. TypeOKPay
  BY DEF PayCommandInv
<1>2. /\ tx \in [Commands -> TxType] /\ orders \in [1..latest -> OrderType]
      /\ payable \in BOOLEAN /\ latest \in Nat
  BY <1>1, PayAssumption DEF PayAssumption, TypeOKPay
<1>3. UNCHANGED <<now, latest, files, cmd, tx>> /\ payable' \in BOOLEAN /\ (payable' => payable)
  <2>1. UNCHANGED <<now, latest, files, cmd, tx>>
    BY DEF MoveDeposit, LinkPaidElsewhere
  <2>2. CASE payable' = payable
    BY <1>2, <2>1, <2>2
  <2>3. CASE payable' = FALSE
    BY <2>1, <2>3
  <2> QED
    BY <2>2, <2>3 DEF MoveDeposit, LinkPaidElsewhere
<1>4. /\ orders' \in [1..latest -> OrderType]
      /\ \A i \in 1..latest : orders'[i].expiry = orders[i].expiry
  <2>1. CASE MoveDeposit
    <3>1. PICK d \in Instructions : orders' = [orders EXCEPT ![latest].deposit = d]
      BY <2>1 DEF MoveDeposit
    <3>2. latest \in 1..latest
      BY <1>2, <2>1 DEF MoveDeposit
    <3> QED
      BY <1>2, <3>1, <3>2 DEF OrderType
  <2>2. CASE LinkPaidElsewhere
    BY <1>2, <2>2 DEF LinkPaidElsewhere
  <2> QED
    BY <2>1, <2>2
<1>5. tx' \in [Commands -> TxType] /\ \A d \in Commands : tx'[d] = tx[d]
  BY <1>2, <1>3
<1> QED
  BY <1>3, <1>4, <1>5, WorldRuns

(* The clock runs while no gap and no lag is used up.                      *)
LEMMA TickKeepsInv ==
  ASSUME PayCommandInv, TickPay
  PROVE  PayCommandInv'
<1>1. TypeOKPay /\ OthersExpired /\ GatedAlone /\ LinkPaidOnce /\ \A d \in Commands : CmdInv(d)
  BY DEF PayCommandInv
<1>2. /\ now \in Nat /\ now < MaxTime /\ now' = now + 1 /\ MaxTime \in Nat
      /\ latest \in Nat /\ orders \in [1..latest -> OrderType]
      /\ MaxGap \in Nat /\ Lag \in Nat
      /\ UNCHANGED <<payable, orders, latest, files, cmd, tx>>
  BY <1>1, PayAssumption DEF PayAssumption, TypeOKPay, TickPay
<1>3. TypeOKPay'
  <2>1. now' \in 0..MaxTime
    BY <1>1, <1>2 DEF TypeOKPay
  <2> QED
    BY <1>1, <1>2, <2>1 DEF TypeOKPay
<1>4. OthersExpired'
  <2> SUFFICES ASSUME NEW i \in 1..latest, i < latest PROVE orders[i].expiry <= now + 1
    BY <1>2 DEF OthersExpired
  <2>1. orders[i].expiry <= now /\ orders[i].expiry \in Nat
    BY <1>1, <1>2 DEF OthersExpired, OrderType
  <2> QED
    BY <1>2, <2>1
<1>5. \A d \in Commands : CmdInv(d)'
  <2> TAKE d \in Commands
  <2>1. cmd[d].at = "gated" =>
          /\ cmd[d].gate \in Nat /\ cmd[d].gate <= now + 1 /\ now + 1 <= cmd[d].gate + MaxGap
    <3> SUFFICES ASSUME cmd[d].at = "gated"
                 PROVE  /\ cmd[d].gate \in Nat /\ cmd[d].gate <= now + 1
                        /\ now + 1 <= cmd[d].gate + MaxGap
      OBVIOUS
    <3>1. cmd[d].gate \in Nat /\ cmd[d].gate <= now
      BY <1>1 DEF CmdInv
    <3>2. now - cmd[d].gate < MaxGap
      BY DEF TickPay
    <3> QED
      BY <1>2, <3>1, <3>2
  <2>2. UnderWay(d) => tx[d].time \in Nat /\ now + 1 <= tx[d].time + Lag
    <3> SUFFICES ASSUME UnderWay(d)
                 PROVE  tx[d].time \in Nat /\ now + 1 <= tx[d].time + Lag
      OBVIOUS
    <3>1. tx[d].time \in Nat
      BY <1>1 DEF CmdInv
    <3>2. now - tx[d].time < Lag
      BY DEF TickPay, UnderWay
    <3> QED
      BY <1>2, <3>1, <3>2
  <2> QED
    BY <1>1, <1>2, <2>1, <2>2 DEF CmdInv, HasFirst, UnderWay
<1>6. NobodyNew
  BY <1>2 DEF NobodyNew, InFlightOrPaid
<1>7. GatedAlone' /\ LinkPaidOnce'
  BY <1>1, <1>6, CarryAlone
<1> QED
  BY <1>3, <1>4, <1>5, <1>7 DEF PayCommandInv

------------------------------------------------------------------------------
LEMMA NextKeepsPayInv == PayCommandInv /\ [NextPay]_payVars => PayCommandInv'
<1> SUFFICES ASSUME PayCommandInv, [NextPay]_payVars PROVE PayCommandInv'
  OBVIOUS
<1>1. ASSUME NEW c \in Commands, PayStep(c) PROVE PayCommandInv'
  BY <1>1, ShowKeepsInv, AnswerKeepsInv, ConfirmAnsweredKeepsInv, PreflightKeepsInv,
     FinalCheckKeepsInv, SendKeepsInv, KilledKeepsInv DEF PayStep
<1>2. ASSUME NEW c \in Commands, Arrive(c) \/ Settle(c) \/ Drop(c) PROVE PayCommandInv'
  BY <1>2, WorldKeepsInv
<1>3. ASSUME MoveDeposit \/ LinkPaidElsewhere PROVE PayCommandInv'
  BY <1>3, LinkKeepsInv
<1>4. ASSUME TickPay PROVE PayCommandInv'
  BY <1>4, TickKeepsInv
<1>5. ASSUME UNCHANGED payVars PROVE PayCommandInv'
  BY <1>5 DEF payVars, PayCommandInv, TypeOKPay, OthersExpired, CmdInv, HasFirst, UnderWay,
              GatedAlone, LinkPaidOnce, InFlightOrPaid
<1> QED
  BY <1>1, <1>2, <1>3, <1>4, <1>5 DEF NextPay

LEMMA PayCommandInvariant == SpecPay => []PayCommandInv
BY InitPayInv, NextKeepsPayInv, PTL DEF SpecPay

(* The state of the commands, the orders and the files always has the      *)
(* shape cli.mjs and state.mjs give it.                                    *)
THEOREM PayTypeCorrect == SpecPay => []TypeOKPay
<1>1. PayCommandInv => TypeOKPay
  BY DEF PayCommandInv
<1> QED
  BY <1>1, PayCommandInvariant, PTL

(* However many commands run on a link and however many orders the backend *)
(* makes for it, the merchant is paid at most once from this machine: the  *)
(* expiry margin of expiry.mjs and the claim of state.mjs together.        *)
THEOREM LinkNeverPaidTwice == SpecPay => []LinkPaidOnce
<1>1. PayCommandInv => LinkPaidOnce
  BY DEF PayCommandInv
<1> QED
  BY <1>1, PayCommandInvariant, PTL

(* cmdPay sends with the id of its first run; whenever that pays, its      *)
(* confirm run had been handed the same order.                             *)
THEOREM ReleasedOrderIsPaid == SpecPay => []PaysReleasedOrder
<1>1. PayCommandInv => PaysReleasedOrder
  BY DEF PayCommandInv, CmdInv, PaysReleasedOrder
<1> QED
  BY <1>1, PayCommandInvariant, PTL
==============================================================================
