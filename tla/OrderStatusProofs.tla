--------------------------- MODULE OrderStatusProofs ---------------------------
(***************************************************************************)
(* Theorems about asking what became of an order (OrderStatus), for every  *)
(* order, time limit, margin and history of the world: what a result calls *)
(* settled is settled, status and resume judge alike, nobody is invited to *)
(* pay again, and nobody is invited to pay too late.                       *)
(*                                                                         *)
(* The world only ever adds evidence, and an answer that is in hand may be *)
(* older than the world but never ahead of it.  The invariants say what an *)
(* answer in hand still vouches for when it is judged.                     *)
(***************************************************************************)
EXTENDS OrderStatus, WellFoundedInduction, TLAPS

(* What a command can find a result to be. *)
States == {"awaiting_deposit", "settled", "deadline_unknown", "underpaid",
           "stuck_after_payment", "unknown"} \cup Processing \cup Expired
Flags  == {"terminal", "escalate", "unknown"}
WindowCodes == {"EXPIRY_UNPARSABLE", "EXPIRED", "QUOTE_EXPIRED", "EXPIRY_MARGIN",
                "QUOTE_EXPIRY_MARGIN", "LINK_NO_LONGER_PAYABLE", "LINK_PAYABILITY_UNKNOWN"}

ResultType ==
  [bitrefill : BOOLEAN, authoritative : BOOLEAN, state : States, flags : SUBSET Flags,
   money : BOOLEAN, router : RouterStatus, settled : BOOLEAN \cup {None},
   localSend : BOOLEAN, window : WindowCodes \cup {None, Absent},
   deadline : Nat \cup {None}, expiresAt : Nat \cup {None},
   quote : Nat \cup {None, Absent}, confirmed : BOOLEAN]

ReaderType ==
  [at : ReaderStep, cmd : {"query", "watch", "resume", None}, byId : BOOLEAN,
   named : BOOLEAN, timeout : Nat \cup {None}, started : Nat \cup {None},
   bitrefill : BOOLEAN, payment : PaymentType \cup {None}, view : ViewType \cup {None},
   result : ResultType \cup {None}, until : Nat \cup {None}, wake : Nat \cup {None},
   asked : BOOLEAN, shown : BOOLEAN]

ReaderTypeOK ==
  /\ reader \in ReaderType
  /\ reader.at # "idle" => reader.started \in Nat

------------------------------------------------------------------------------
(* The evidence that an order was paid: on the backend, and here. *)
Evidence(p) ==
  \/ MoneySeen(p)
  \/ ZecMoneySeen(p.zec)
  \/ p.status \notin {"unpaid", "expired"}

SentHere == local.exists /\ (local.send \/ ~local.readable)

PaidOut(p) == p.status \in {"payout_completed", "completed"}

(* The intent, now or when it was read, still states what the order was    *)
(* made with; so does its link.                                            *)
IntentOf(p) ==
  /\ p \in PaymentType
  /\ p.status \in Status
  /\ p.expiresAt = order.expiresAt
  /\ p.zec # None => order.family = "zec"
  /\ order.family \notin {"native", "zec"} => p.quote = order.lock

LinkOf(cb) ==
  IF order.bitrefill THEN cb = None ELSE cb \in Coinbase /\ cb.expiry = order.linkExpiry

WorldInv ==
  /\ now \in 0..MaxTime
  /\ order \in Orders
  /\ IntentOf(payment)
  /\ router \in RouterStatus
  /\ LinkOf(coinbase)
  /\ local \in [exists : BOOLEAN, readable : BOOLEAN, send : BOOLEAN]
  /\ local.exists = order.here
  /\ local.send => local.exists
  /\ usedBy \in {None, "rozo", "other"}
  /\ order.bitrefill => usedBy = None

(* No answer in hand is ahead of the world, and none read since the        *)
(* snapshot began hides what was visible then.                             *)
IntentRead ==
  /\ IntentOf(reader.payment)
  /\ reader.byId
  /\ PaidOut(reader.payment) => PaidOut(payment)
  /\ reader.asked => SentHere \/ Evidence(reader.payment)

LinkRead ==
  /\ LinkOf(reader.view.coinbase)
  /\ PaidOut(reader.view.payment) => PaidOut(payment)
  /\ ~order.bitrefill /\ reader.view.coinbase.settled => coinbase.settled

AnswersInv ==
  /\ reader.payment # None => IntentRead
  /\ reader.view # None => LinkRead
  /\ reader.asked => SentHere \/ Evidence(payment)
  /\ reader.bitrefill => order.bitrefill

(* What a result that was given stays true to. *)
ResultInv ==
  reader.result # None =>
    /\ reader.result.bitrefill => order.bitrefill
    /\ reader.result.bitrefill /\ reader.result.state = "settled" => PaidOut(payment)
    /\ reader.result.settled = TRUE => ~order.bitrefill /\ coinbase.settled

(* The deadline of a result that invites is bounded by every deadline that *)
(* cannot move.                                                            *)
Bounds(d) ==
  /\ d \in Nat
  /\ ~order.bitrefill => d <= order.linkExpiry
  /\ order.kept # None => d <= order.kept
  /\ order.bitrefill /\ order.family \notin {"native", "zec"} /\ order.lock # None =>
       d <= order.lock

StepInv ==
  /\ reader.at \in {"provider", "payment"} => reader.byId
  /\ reader.at = "sleep" => reader.payment = None /\ reader.view = None
  /\ reader.at \in {"fresh", "show"} =>
       /\ reader.byId
       /\ ~reader.asked
       /\ reader.result \in ResultType
       /\ Bounds(reader.result.deadline)
  /\ reader.at = "show" => IntentOf(reader.payment)

StatusInv == WorldInv /\ ReaderTypeOK /\ AnswersInv /\ ResultInv /\ StepInv
------------------------------------------------------------------------------
(* Lemmas about deadlines.  A nonempty set of naturals has a least element. *)
LEMMA LeastDeadline ==
  ASSUME NEW S \in SUBSET Nat, S # {}
  PROVE  Min(S) \in S /\ \A d \in S : Min(S) <= d
<1> DEFINE R == OpToRel(<, Nat)
<1>1. R = {ss \in Nat \X Nat : ss[1] < ss[2]}
  BY DEF OpToRel
<1>2. IsWellFoundedOn(R, Nat)
  BY NatLessThanWellFounded
<1> HIDE DEF R
<1>3. PICK x \in S : \A y \in S : ~(<<y, x>> \in R)
  BY <1>2, WFMin
<1>4. \A y \in S : ~(y < x)
  BY <1>1, <1>3
<1>5. \A y \in S : x <= y
  BY <1>4
<1> QED
  BY <1>5 DEF Min

(* The earliest deadline is unknown only when none is known, and no known  *)
(* one comes before it.                                                    *)
LEMMA EarliestKnown ==
  ASSUME NEW D \in SUBSET (Nat \cup {None, Absent})
  PROVE  /\ Earliest(D) \in Nat \cup {None}
         /\ \A d \in D : d \in Nat => Earliest(D) \in Nat /\ Earliest(D) <= d
         /\ Earliest(D) \in Nat => Earliest(D) \in D
<1> DEFINE known == D \ {None, Absent}
<1>1. known \in SUBSET Nat
  OBVIOUS
<1>2. {None, Absent} \cap Nat = {}
  BY DeadlinesAssumption DEF DeadlinesAssumption
<1>3. CASE known = {}
  <2>1. Earliest(D) = None
    BY <1>3 DEF Earliest
  <2> QED
    BY <2>1, <1>2, <1>3
<1>4. CASE known # {}
  <2>1. Earliest(D) = Min(known)
    BY <1>4 DEF Earliest
  <2>2. Min(known) \in known /\ \A d \in known : Min(known) <= d
    BY <1>1, <1>4, LeastDeadline
  <2> QED
    BY <2>1, <2>2, <1>1, <1>2
<1> QED
  BY <1>3, <1>4

(* checkExpiry: an order that may be paid has the margin left before every *)
(* deadline it was given; what it is refused with is one of the codes.     *)
ExpiryOK(j, t, intent, cb, quote) ==
  /\ j = [code |-> j.code, deadline |-> j.deadline]
  /\ j.code \in WindowCodes \cup {None}
  /\ j.deadline \in Nat \cup {None}
  /\ j.code = None =>
       /\ j.deadline \in Nat
       /\ intent \in Nat
       /\ cb # None /\ quote # None
       /\ \A d \in {intent, cb, quote} : d \in Nat => j.deadline <= d /\ d - t > Margin

LEMMA ExpiryChecked ==
  ASSUME NEW t \in Nat, NEW intent \in Nat \cup {None}, NEW cb \in Nat \cup {None, Absent},
         NEW quote \in Nat \cup {None, Absent}
  PROVE  ExpiryOK(CheckExpiry(t, intent, cb, Absent, quote), t, intent, cb, quote)
<1> DEFINE D == {intent, cb, quote}
           e == Earliest(D)
           remaining == e - t
           lockBinds == quote \in Nat /\ quote = e
           code == CASE remaining <= 0 -> IF lockBinds THEN "QUOTE_EXPIRED" ELSE "EXPIRED"
                     [] remaining \in 1..Margin ->
                          IF lockBinds THEN "QUOTE_EXPIRY_MARGIN" ELSE "EXPIRY_MARGIN"
                     [] remaining > Margin /\ Absent = None -> "EXPIRY_UNPARSABLE"
                     [] remaining > Margin /\ Absent \in Nat ->
                          IF Absent - t < Bolt11Validity THEN "BOLT11_TOO_SHORT" ELSE None
                     [] OTHER -> None
           j == CheckExpiry(t, intent, cb, Absent, quote)
<1> SUFFICES ExpiryOK(j, t, intent, cb, quote)
  OBVIOUS
<1> USE DEF ExpiryOK
<1>1. Margin \in Nat /\ None # Absent /\ None \notin Nat /\ Absent \notin Nat
  BY DeadlinesAssumption DEF DeadlinesAssumption
<1>2. CASE None \in D
  <2>1. j = [code |-> "EXPIRY_UNPARSABLE", deadline |-> None]
    BY <1>2 DEF CheckExpiry, Judged
  <2>2. "EXPIRY_UNPARSABLE" # None
    BY OrderStatusAssumption DEF OrderStatusAssumption
  <2> QED
    BY <2>1, <2>2 DEF WindowCodes
<1>3. CASE None \notin D
  <2>1. j = [code |-> code, deadline |-> e]
    BY <1>3 DEF CheckExpiry, Judged
  <2>2. D \in SUBSET (Nat \cup {None, Absent})
    OBVIOUS
  <2>3. intent \in Nat
    BY <1>3
  <2>4. e \in Nat /\ \A d \in D : d \in Nat => e <= d
    BY <2>2, <2>3, EarliestKnown
  <2> HIDE DEF e
  <2>5. CASE remaining <= 0
    <3>1. code = IF lockBinds THEN "QUOTE_EXPIRED" ELSE "EXPIRED"
      BY <2>4, <2>5, <1>1
    <3>2. code \in WindowCodes /\ code # None
      BY <3>1, OrderStatusAssumption DEF OrderStatusAssumption, WindowCodes
    <3> QED
      BY <2>1, <2>4, <3>2
  <2>6. CASE remaining \in 1..Margin
    <3>1. code = IF lockBinds THEN "QUOTE_EXPIRY_MARGIN" ELSE "EXPIRY_MARGIN"
      BY <2>4, <2>6, <1>1
    <3>2. code \in WindowCodes /\ code # None
      BY <3>1, OrderStatusAssumption DEF OrderStatusAssumption, WindowCodes
    <3> QED
      BY <2>1, <2>4, <3>2
  <2>7. CASE remaining > Margin
    <3>1. code = None
      BY <2>4, <2>7, <1>1
    <3>2. \A d \in D : d \in Nat => d - t > Margin
      BY <2>4, <2>7, <1>1
    <3> QED
      BY <2>1, <2>3, <2>4, <1>3, <3>1, <3>2
  <2> QED
    BY <2>4, <2>5, <2>6, <2>7, <1>1
<1> QED
  BY <1>2, <1>3
(* priceLockFor: for a native coin the earliest lock known, none otherwise. *)
LEMMA LockOfNative ==
  ASSUME NEW native \in BOOLEAN, NEW live \in Nat \cup {None},
         NEW other \in Nat \cup {None, Absent}
  PROVE  LET l == PriceLockFor(native, live, {other})
         IN /\ l \in Nat \cup {None, Absent}
            /\ native => l \in Nat \cup {None}
            /\ native => \A d \in {live, other} : d \in Nat => l \in Nat /\ l <= d
<1>1. {live} \cup {other} \in SUBSET (Nat \cup {None, Absent})
  OBVIOUS
<1> DEFINE e == Earliest({live} \cup {other})
<1>2. /\ e \in Nat \cup {None}
      /\ \A d \in {live} \cup {other} : d \in Nat => e \in Nat /\ e <= d
  BY <1>1, EarliestKnown
<1> HIDE DEF e
<1>3. PriceLockFor(native, live, {other}) = IF native THEN e ELSE Absent
  BY DEF PriceLockFor, e
<1> QED
  BY <1>2, <1>3

(* The limit of a watch is a time.                                         *)
LEMMA WatchTimed ==
  ASSUME NEW t \in Nat, NEW explicit \in Nat \cup {None}, NEW lightning \in BOOLEAN,
         NEW expiresAt \in Nat \cup {None}, NEW quote \in Nat \cup {None, Absent}
  PROVE  WatchTimeout(t, explicit, lightning, expiresAt, quote) \in Nat
<1>1. DefaultWatch \in Nat /\ WatchCap \in Nat
  BY DeadlinesAssumption DEF DeadlinesAssumption
<1>2. ASSUME NEW d \in Nat \cup {None}
      PROVE  WatchUntil(t, d, DefaultWatch) \in Nat
  <2>1. CASE d = None
    BY <1>1, <2>1 DEF WatchUntil
  <2>2. CASE d # None /\ d <= t
    BY <1>1, <2>2 DEF WatchUntil
  <2>3. CASE d # None /\ ~(d <= t)
    <3>1. {d - t, WatchCap} \in SUBSET Nat /\ {d - t, WatchCap} # {}
      BY <1>1, <2>3
    <3>2. Min({d - t, WatchCap}) \in {d - t, WatchCap}
      BY <3>1, LeastDeadline
    <3> QED
      BY <2>3, <3>1, <3>2 DEF WatchUntil
  <2> QED
    BY <2>1, <2>2, <2>3
<1> QED
  BY <1>1, <1>2 DEF WatchTimeout

(* Only the first and the last two stages of the pipeline matter here: an  *)
(* intent that paid out can no longer leave it.                            *)
LEMMA RankOf ==
  /\ Rank \in [Status -> Nat]
  /\ Rank["unpaid"] = 1
  /\ Rank["expired"] = 0
  /\ Rank["payout_completed"] = 6
  /\ Rank["completed"] = 7
  /\ \A s \in Status : Rank[s] >= 6 => s \in {"payout_completed", "completed"}
<1> DEFINE I(s) == {i \in 1..7 : Pipeline[i] = s}
<1>1. ASSUME NEW s \in Status
      PROVE  Rank[s] = IF I(s) # {} THEN Min(I(s)) ELSE 0
  <2>1. Len(Pipeline) = 7
    BY DEF Pipeline
  <2> QED
    BY <2>1 DEF Rank, SelectInSeq
<1>2. \A s \in Status : I(s) \in SUBSET Nat
  OBVIOUS
<1>3. \A s \in Status : I(s) # {} => Min(I(s)) \in I(s)
  BY <1>2, LeastDeadline
<1>4. /\ Pipeline[1] = "unpaid" /\ Pipeline[2] = "started" /\ Pipeline[3] = "payin_completed"
      /\ Pipeline[4] = "bridging" /\ Pipeline[5] = "payout_started"
      /\ Pipeline[6] = "payout_completed" /\ Pipeline[7] = "completed"
  BY DEF Pipeline
<1>5. \A s \in Status : Rank[s] \in Nat
  <2> SUFFICES ASSUME NEW s \in Status PROVE Rank[s] \in Nat
    OBVIOUS
  <2>1. I(s) \subseteq Nat /\ (I(s) # {} => Min(I(s)) \in I(s))
    BY <1>2, <1>3
  <2> HIDE DEF I
  <2>2. Rank[s] = IF I(s) # {} THEN Min(I(s)) ELSE 0
    BY <1>1
  <2> QED
    BY <2>1, <2>2
<1>6. Rank \in [Status -> Nat]
  BY <1>5 DEF Rank
<1>7. /\ I("unpaid") = {1} /\ I("expired") = {} /\ I("payout_completed") = {6}
      /\ I("completed") = {7}
  BY <1>4
<1>8. {"unpaid", "expired", "payout_completed", "completed"} \subseteq Status
  BY DEF Status
<1>9. Rank["unpaid"] = 1 /\ Rank["expired"] = 0
  BY <1>1, <1>3, <1>7, <1>8
<1>10. Rank["payout_completed"] = 6 /\ Rank["completed"] = 7
  BY <1>1, <1>3, <1>7, <1>8
<1>11. ASSUME NEW s \in Status, Rank[s] >= 6
       PROVE  s \in {"payout_completed", "completed"}
  <2>1. I(s) # {} /\ Rank[s] \in I(s)
    <3>1. I(s) # {} => Min(I(s)) \in I(s)
      BY <1>3
    <3> HIDE DEF I
    <3>2. Rank[s] = IF I(s) # {} THEN Min(I(s)) ELSE 0
      BY <1>1
    <3> QED
      BY <3>1, <3>2, <1>11
  <2>2. Rank[s] \in {6, 7}
    BY <2>1, <1>11
  <2> QED
    BY <2>1, <2>2, <1>4
<1> QED
  BY <1>6, <1>9, <1>10, <1>11

------------------------------------------------------------------------------
(* Lemmas about classifyStatus and what a snapshot makes of its verdict.   *)
VerdictOK(v, p, bitrefill) ==
  /\ v = [state |-> v.state, flags |-> v.flags]
  /\ v.state \in States /\ v.flags \in SUBSET Flags
  /\ v.state = "settled" /\ bitrefill => PaidOut(p)
  /\ v.state \in {"awaiting_deposit", "expired_unfunded", "invoice_expired"} =>
       ~MoneySeen(p) /\ p.status \in {"unpaid", "expired"}

(* The intent's status alone never says settled, and calls only an unpaid  *)
(* or an expired order unfunded, without money.                            *)
LEMMA StatusAloneClassified ==
  ASSUME NEW p \in PaymentType, NEW routed \in RouterStatus, NEW t \in Nat,
         NEW bitrefill \in BOOLEAN
  PROVE  LET v == StateOfStatus(p, routed, MoneySeen(p), t)
         IN VerdictOK(v, p, bitrefill) /\ v.state # "settled"
<1> DEFINE v == StateOfStatus(p, routed, MoneySeen(p), t)
<1>1. p.status \in Status \cup {None}
  BY DEF PaymentType
<1>2. CASE p.status = "unpaid"
  BY <1>2 DEF StateOfStatus, VerdictOK, State, States, Flags, Processing, Expired
<1>3. CASE p.status = "expired"
  BY <1>3 DEF StateOfStatus, VerdictOK, State, States, Flags, Processing, Expired
<1>4. CASE p.status \in {"started", "payin_completed", "bridging", "payout_started",
                         "payout_completed", "completed", "bounced", "refunded"}
  BY <1>4 DEF StateOfStatus, VerdictOK, State, States, Flags, Processing, Expired
<1>5. CASE p.status \in {"other", None} /\ p.status \notin Status \ {"other"}
  BY <1>5 DEF StateOfStatus, VerdictOK, State, States, Flags, Processing, Expired, Status
<1> QED
  BY <1>1, <1>2, <1>3, <1>4, <1>5 DEF Status
(* The same of the whole chain: an order of Bitrefill is settled only when *)
(* the intent paid out.                                                    *)
LEMMA Classified ==
  ASSUME NEW p \in PaymentType, NEW f, NEW routed \in RouterStatus,
         NEW cb \in Coinbase \cup {None}, NEW failed \in BOOLEAN,
         NEW bitrefill \in BOOLEAN, NEW t \in Nat
  PROVE  VerdictOK(ClassifyStatus(p, f, routed, cb, failed, bitrefill, t), p, bitrefill)
<1> DEFINE v == ClassifyStatus(p, f, routed, cb, failed, bitrefill, t)
           alone == StateOfStatus(p, routed, MoneySeen(p), t)
<1> SUFFICES VerdictOK(v, p, bitrefill)
  OBVIOUS
<1>1. VerdictOK(alone, p, bitrefill) /\ alone.state # "settled"
  BY StatusAloneClassified
<1> HIDE DEF alone
<1>2. \/ v = State("unknown", {"unknown"})
      \/ v = State("stuck_after_payment", {"escalate"})
      \/ v = State("settled", {"terminal"}) /\ ~bitrefill
      \/ v = State("settled", {"terminal"}) /\ PaidOut(p)
      \/ v = State("underpaid", {"escalate"})
      \/ v = State("payin_detected", {"escalate"})
      \/ v = State("bridging", {})
      \/ v = alone
  BY DEF ClassifyStatus, PaidOut, alone
<1> HIDE DEF v
<1>3. CASE v = alone
  BY <1>1, <1>3
<1>4. CASE v = State("settled", {"terminal"}) /\ (~bitrefill \/ PaidOut(p))
  BY <1>4 DEF VerdictOK, State, States, Flags
<1>5. CASE v \in {State("unknown", {"unknown"}), State("stuck_after_payment", {"escalate"}),
                  State("underpaid", {"escalate"}), State("payin_detected", {"escalate"}),
                  State("bridging", {})}
  BY <1>5 DEF VerdictOK, State, States, Flags, Processing
<1> QED
  BY <1>2, <1>3, <1>4, <1>5

(* An answer that carries no payment says nothing.                         *)
LEMMA NothingPaidOut == NoPayment \in PaymentType /\ ~PaidOut(NoPayment)
BY OrderStatusAssumption
   DEF OrderStatusAssumption, NoPayment, PaymentType, Received, PaidOut, Status

(* The money that only the custody rail of a ZEC order sees takes it out   *)
(* of what waits for a deposit; only the expiry of an invoice is judged    *)
(* regardless of it.                                                       *)
LEMMA StateJudged ==
  ASSUME WorldInv, ReaderTypeOK, AnswersInv,
         NEW p \in PaymentType, NEW zecMoney \in BOOLEAN, NEW invoice
  PROVE  VerdictOK(StateOf(reader, p, zecMoney, invoice), p, reader.bitrefill)
<1> DEFINE routed  == IF reader.view = None THEN None ELSE reader.view.router
           cb      == IF reader.view = None THEN None ELSE reader.view.coinbase
           failed  == reader.payment = None /\ reader.view = None
           verdict == ClassifyStatus(p, order.family, routed, cb, failed, reader.bitrefill, now)
           waiting == reader.bitrefill /\ ~MoneySeen(p)
                      /\ verdict.state \in {"awaiting_deposit", "expired_unfunded"}
           railed  == CASE zecMoney /\ verdict.state = "expired_unfunded" ->
                             State("stuck_after_payment", {"escalate"})
                        [] zecMoney /\ verdict.state = "awaiting_deposit" ->
                             State("payin_detected", {})
                        [] OTHER -> verdict
           st      == StateOf(reader, p, zecMoney, invoice)
<1>1. now \in Nat /\ reader.bitrefill \in BOOLEAN
  BY OrderStatusAssumption DEF WorldInv, ReaderTypeOK, ReaderType, OrderStatusAssumption
<1>2. reader.view # None => reader.view \in ViewType
  BY DEF ReaderTypeOK, ReaderType
<1>3. routed \in RouterStatus /\ cb \in Coinbase \cup {None} /\ failed \in BOOLEAN
  BY <1>2 DEF ViewType, RouterStatus
<1>4. VerdictOK(verdict, p, reader.bitrefill)
  BY <1>1, <1>3, Classified
<1>5. st = CASE waiting /\ invoice # None /\ invoice <= now ->
                  State("invoice_expired", railed.flags \cup {"terminal"})
             [] waiting /\ invoice = None /\ verdict.state = "awaiting_deposit" ->
                  State("deadline_unknown", railed.flags)
             [] OTHER -> railed
  BY DEF StateOf
<1> HIDE DEF verdict, st
<1>6. VerdictOK(railed, p, reader.bitrefill)
  <2>1. railed \in {State("stuck_after_payment", {"escalate"}), State("payin_detected", {}), verdict}
    OBVIOUS
  <2> QED
    BY <2>1, <1>4 DEF VerdictOK, State, States, Flags, Processing
<1>7. waiting => ~MoneySeen(p) /\ p.status \in {"unpaid", "expired"}
  BY <1>4 DEF VerdictOK
<1> HIDE DEF waiting, railed
<1>8. \/ st = State("invoice_expired", railed.flags \cup {"terminal"}) /\ waiting
      \/ st = State("deadline_unknown", railed.flags)
      \/ st = railed
  BY <1>5
<1>9. VerdictOK(st, p, reader.bitrefill)
  BY <1>6, <1>7, <1>8 DEF VerdictOK, State, States, Flags, Expired
<1> QED
  BY <1>9 DEF st
------------------------------------------------------------------------------
(* Lemmas about one snapshot.  What is fixed about the order, and what an  *)
(* answer in hand can be.                                                  *)
LEMMA InHand ==
  ASSUME WorldInv, ReaderTypeOK
  PROVE  /\ now \in Nat
         /\ order \in OrderType
         /\ order.kept # None => local.exists /\ (order.bitrefill \/ order.family = "native")
         /\ reader.payment # None => reader.payment \in PaymentType
         /\ reader.view # None => reader.view \in ViewType
         /\ reader.bitrefill \in BOOLEAN /\ reader.byId \in BOOLEAN
         /\ KeptLock(reader) \in Nat \cup {None}
<1>1. order \in OrderType /\ order.kept \in Nat \cup {None}
  BY OrderStatusAssumption DEF OrderStatusAssumption, WorldInv, OrderType
<1>2. order.kept # None => order.here /\ (order.bitrefill \/ order.family = "native")
  BY OrderStatusAssumption DEF OrderStatusAssumption, WorldInv
<1> QED
  BY <1>1, <1>2, OrderStatusAssumption
     DEF OrderStatusAssumption, WorldInv, ReaderTypeOK, ReaderType, KeptLock

(* A window that is open has the margin left before every deadline it was  *)
(* judged on, the link's among them.                                       *)
LEMMA WindowJudged ==
  ASSUME WorldInv, ReaderTypeOK, AnswersInv,
         NEW quote \in Nat \cup {None, Absent}, NEW expiresAt \in Nat \cup {None},
         reader.bitrefill => quote \in Nat \cup {None}
  PROVE  LET w == SendWindow(reader, quote, expiresAt)
         IN /\ w.code \in WindowCodes \cup {None}
            /\ w.deadline \in Nat \cup {None}
            /\ w.code = None =>
                 /\ w.deadline \in Nat
                 /\ quote # None
                 /\ \A d \in {quote, expiresAt} : d \in Nat => w.deadline <= d /\ d - now > Margin
                 /\ ~reader.bitrefill =>
                      /\ ~order.bitrefill
                      /\ expiresAt \in Nat
                      /\ w.deadline <= order.linkExpiry /\ order.linkExpiry - now > Margin
<1> DEFINE w == SendWindow(reader, quote, expiresAt)
<1> USE InHand
<1>1. CASE reader.bitrefill
  <2> DEFINE intent == IF expiresAt = None THEN quote ELSE expiresAt
             j == CheckExpiry(now, intent, quote, Absent, Absent)
  <2>1. w = j
    BY <1>1 DEF SendWindow
  <2>2. intent \in Nat \cup {None} /\ quote \in Nat \cup {None, Absent}
    BY <1>1
  <2>3. now \in Nat /\ Absent \in Nat \cup {None, Absent}
    OBVIOUS
  <2>4. ExpiryOK(j, now, intent, quote, Absent)
    BY <2>2, <2>3, ExpiryChecked
  <2>5. {None, Absent} \cap Nat = {}
    BY DeadlinesAssumption DEF DeadlinesAssumption
  <2> HIDE DEF j
  <2> QED
    BY <1>1, <2>1, <2>4, <2>5 DEF ExpiryOK
<1>2. CASE ~reader.bitrefill
  <2>1. None \notin WindowCodes /\ {"LINK_NO_LONGER_PAYABLE", "LINK_PAYABILITY_UNKNOWN"} \subseteq WindowCodes
    BY OrderStatusAssumption DEF OrderStatusAssumption, WindowCodes
  <2>2. CASE reader.view = None
    BY <1>2, <2>1, <2>2 DEF SendWindow, Judged
  <2>3. CASE reader.view # None /\ CheckPayable(reader.view.coinbase) # None
    <3>1. CheckPayable(reader.view.coinbase) \in WindowCodes
      BY <2>1, <2>3 DEF CheckPayable
    <3> QED
      BY <1>2, <2>1, <2>3, <3>1 DEF SendWindow, Judged
  <2>4. CASE reader.view # None /\ CheckPayable(reader.view.coinbase) = None
    <3> DEFINE cb == reader.view.coinbase
               expiry == cb.expiry
               j  == CheckExpiry(now, expiresAt, expiry, Absent, quote)
    <3>1. w = j
      BY <1>2, <2>4 DEF SendWindow
    <3>2. cb # None
      BY <2>1, <2>4 DEF CheckPayable
    <3>3. ~order.bitrefill /\ expiry = order.linkExpiry
      BY <2>4, <3>2 DEF AnswersInv, LinkRead, LinkOf
    <3>4. order.linkExpiry \in Nat
      BY DEF OrderType
    <3>5. /\ now \in Nat /\ expiry \in Nat \cup {None, Absent}
          /\ expiresAt \in Nat \cup {None} /\ quote \in Nat \cup {None, Absent}
      BY <3>3, <3>4
    <3> HIDE DEF expiry
    <3>6. ExpiryOK(j, now, expiresAt, expiry, quote)
      BY <3>5, ExpiryChecked
    <3> HIDE DEF j
    <3> QED
      BY <1>2, <3>1, <3>3, <3>4, <3>6 DEF ExpiryOK
  <2> QED
    BY <2>2, <2>3, <2>4
<1> QED
  BY <1>1, <1>2
(* What a result promises is true of the answers it was made from, and of  *)
(* the world now: a result can be older than the world, never ahead of it. *)
InTime(p) == \A d \in PromisedDeadlines(p) : d - now > Margin

Invites(r) ==
  r.state = "awaiting_deposit" /\ r.window = None /\ r.authoritative /\ ~r.localSend

ResultOK(r) ==
  /\ r \in ResultType
  /\ r.bitrefill => reader.bitrefill
  /\ r.authoritative => reader.payment # None
  /\ ~r.localSend => ~LocalSend(reader)
  /\ r.bitrefill /\ r.state = "settled" => PaidOut(payment)
  /\ r.settled = TRUE => ~order.bitrefill /\ coinbase.settled
  /\ r.authoritative /\ ~r.money =>
       ~MoneySeen(reader.payment) /\ ~ZecMoneySeen(reader.payment.zec)
  /\ r.authoritative /\ r.state \in {"awaiting_deposit"} \cup Expired =>
       reader.payment.status \in {"unpaid", "expired"}
  /\ Invites(r) => Bounds(r.deadline) /\ InTime(reader.payment)

LEMMA ResultJudged ==
  ASSUME WorldInv, ReaderTypeOK, AnswersInv
  PROVE  ResultOK(Result(reader))
<1> DEFINE p == IF reader.payment # None THEN reader.payment
                ELSE IF reader.view # None THEN reader.view.payment ELSE NoPayment
           zecMoney == RailMoney(p)
           offered  == IF reader.payment = None THEN None ELSE reader.payment.quote
           invoice  == Earliest({KeptLock(reader), offered})
           native   == order.family = "native" /\ p # NoPayment
           lock     == IF order.family = "zec" THEN p.quote
                       ELSE PriceLockFor(native, p.quote, {KeptLock(reader)})
           verdict  == StateOf(reader, p, zecMoney, invoice)
           quote    == IF reader.bitrefill THEN invoice ELSE lock
           window   == SendWindow(reader, quote, p.expiresAt)
           asks     == verdict.state = "awaiting_deposit"
           res      == Result(reader)
<1>1. res = [bitrefill     |-> reader.bitrefill,
             authoritative |-> reader.payment # None,
             state         |-> verdict.state,
             flags         |-> verdict.flags,
             money         |-> MoneySeen(p) \/ zecMoney,
             router        |-> IF reader.view = None THEN None ELSE reader.view.router,
             settled       |-> IF reader.view = None THEN None
                               ELSE IF reader.view.coinbase = None THEN None
                               ELSE reader.view.coinbase.settled,
             localSend     |-> LocalSend(reader),
             window        |-> IF asks THEN window.code ELSE Absent,
             deadline      |-> IF asks THEN window.deadline ELSE None,
             expiresAt     |-> IF reader.bitrefill THEN invoice ELSE p.expiresAt,
             quote         |-> IF reader.bitrefill THEN Absent ELSE lock,
             confirmed     |-> p.confirmed]
  BY DEF Result
<1>2. /\ now \in Nat
      /\ order \in OrderType
      /\ order.kept # None => local.exists /\ (order.bitrefill \/ order.family = "native")
      /\ reader.payment # None => reader.payment \in PaymentType
      /\ reader.view # None => reader.view \in ViewType
      /\ reader.bitrefill \in BOOLEAN /\ reader.byId \in BOOLEAN
      /\ KeptLock(reader) \in Nat \cup {None}
  BY InHand
<1>3. p \in PaymentType
  BY <1>2, NothingPaidOut DEF ViewType
<1>4. /\ p.expiresAt \in Nat \cup {None} /\ p.quote \in Nat \cup {None}
      /\ p.confirmed \in BOOLEAN /\ p.hash \in BOOLEAN
  BY <1>3 DEF PaymentType
<1>5. zecMoney \in BOOLEAN
  BY DEF RailMoney
<1>6. offered \in Nat \cup {None}
  BY <1>2 DEF PaymentType
<1>7. /\ invoice \in Nat \cup {None}
      /\ \A d \in {KeptLock(reader), offered} : d \in Nat => invoice \in Nat /\ invoice <= d
  <2>1. {KeptLock(reader), offered} \in SUBSET (Nat \cup {None, Absent})
    BY <1>2, <1>6
  <2> QED
    BY <2>1, EarliestKnown
<1>8. /\ lock \in Nat \cup {None, Absent}
      /\ native => \A d \in {p.quote, KeptLock(reader)} :
                     d \in Nat => lock \in Nat /\ lock <= d
  <2> DEFINE l == PriceLockFor(native, p.quote, {KeptLock(reader)})
  <2>1. native \in BOOLEAN
    OBVIOUS
  <2>2. p.quote \in Nat \cup {None} /\ KeptLock(reader) \in Nat \cup {None, Absent}
    BY <1>2, <1>4
  <2> HIDE DEF native, p
  <2>3. /\ l \in Nat \cup {None, Absent}
        /\ native => \A d \in {p.quote, KeptLock(reader)} : d \in Nat => l \in Nat /\ l <= d
    BY <2>1, <2>2, LockOfNative
  <2> HIDE DEF l
  <2>4. lock = IF order.family = "zec" THEN p.quote ELSE l
    BY DEF l
  <2>5. native => order.family = "native"
    BY DEF native
  <2> QED
    BY <2>2, <2>3, <2>4, <2>5
<1>9. VerdictOK(verdict, p, reader.bitrefill)
  BY <1>3, <1>5, StateJudged
<1>10. quote \in Nat \cup {None, Absent} /\ (reader.bitrefill => quote \in Nat \cup {None})
  BY <1>7, <1>8
<1> HIDE DEF verdict, lock, invoice, zecMoney, res
<1>11. /\ window.code \in WindowCodes \cup {None}
       /\ window.deadline \in Nat \cup {None}
       /\ window.code = None =>
            /\ window.deadline \in Nat
            /\ quote # None
            /\ \A d \in {quote, p.expiresAt} : d \in Nat => window.deadline <= d /\ d - now > Margin
            /\ ~reader.bitrefill =>
                 /\ ~order.bitrefill
                 /\ p.expiresAt \in Nat
                 /\ window.deadline <= order.linkExpiry /\ order.linkExpiry - now > Margin
  <2> HIDE DEF quote, p
  <2>1. p.expiresAt \in Nat \cup {None}
    BY <1>4
  <2> QED
    BY <1>10, <2>1, WindowJudged
<1> HIDE DEF window, quote
<1>12. res \in ResultType
  <2>1. verdict.state \in States /\ verdict.flags \in SUBSET Flags
    BY <1>9 DEF VerdictOK
  <2>2. reader.view # None =>
          /\ reader.view.router \in RouterStatus
          /\ reader.view.coinbase # None => reader.view.coinbase.settled \in BOOLEAN
    BY <1>2 DEF ViewType, Coinbase
  <2>3. None \in RouterStatus
    BY DEF RouterStatus
  <2>4. MoneySeen(p) \/ zecMoney \in BOOLEAN
    BY <1>4, <1>5 DEF MoneySeen, ReceiptSeen
  <2>5. LocalSend(reader) \in BOOLEAN
    BY DEF LocalSend
  <2> DEFINE settled == IF reader.view = None THEN None
                        ELSE IF reader.view.coinbase = None THEN None
                        ELSE reader.view.coinbase.settled
             routed  == IF reader.view = None THEN None ELSE reader.view.router
             money   == MoneySeen(p) \/ zecMoney
  <2>6. settled \in BOOLEAN \cup {None} /\ routed \in RouterStatus /\ money \in BOOLEAN
    BY <2>2, <2>3, <2>4
  <2>7. res = [bitrefill |-> reader.bitrefill, authoritative |-> reader.payment # None,
               state |-> verdict.state, flags |-> verdict.flags, money |-> money,
               router |-> routed, settled |-> settled, localSend |-> LocalSend(reader),
               window |-> IF asks THEN window.code ELSE Absent,
               deadline |-> IF asks THEN window.deadline ELSE None,
               expiresAt |-> IF reader.bitrefill THEN invoice ELSE p.expiresAt,
               quote |-> IF reader.bitrefill THEN Absent ELSE lock,
               confirmed |-> p.confirmed]
    BY <1>1
  <2> HIDE DEF settled, routed, money
  <2> QED
    BY <1>2, <1>4, <1>7, <1>8, <1>11, <2>1, <2>5, <2>6, <2>7 DEF ResultType
<1>13. (res.bitrefill => reader.bitrefill) /\ (res.authoritative => reader.payment # None)
  BY <1>1
<1>14. ~res.localSend => ~LocalSend(reader)
  BY <1>1
<1>15. res.bitrefill /\ res.state = "settled" => PaidOut(payment)
  <2>1. res.bitrefill /\ res.state = "settled" => PaidOut(p)
    BY <1>1, <1>9 DEF VerdictOK
  <2>2. PaidOut(p) => PaidOut(payment)
    BY NothingPaidOut DEF AnswersInv, IntentRead, LinkRead
  <2> QED
    BY <2>1, <2>2
<1>16. res.settled = TRUE => ~order.bitrefill /\ coinbase.settled
  <2>1. None # TRUE
    BY OrderStatusAssumption DEF OrderStatusAssumption
  <2>2. res.settled = TRUE => /\ reader.view # None
                              /\ reader.view.coinbase # None
                              /\ reader.view.coinbase.settled = TRUE
    BY <1>1, <2>1
  <2>3. reader.view # None /\ reader.view.coinbase # None => ~order.bitrefill
    BY DEF AnswersInv, LinkRead, LinkOf
  <2> QED
    BY <2>2, <2>3 DEF AnswersInv, LinkRead
<1>17. res.authoritative /\ ~res.money =>
         ~MoneySeen(reader.payment) /\ ~ZecMoneySeen(reader.payment.zec)
  <2>1. res.authoritative => reader.payment # None
    BY <1>13
  <2>2. ~res.money => ~MoneySeen(p) /\ ~zecMoney
    BY <1>1
  <2>3. ~zecMoney /\ reader.payment # None => ~ZecMoneySeen(reader.payment.zec)
    BY DEF zecMoney, RailMoney, ZecMoneySeen, AnswersInv, IntentRead, IntentOf
  <2> QED
    BY <2>1, <2>2, <2>3
<1>18. res.authoritative /\ res.state \in {"awaiting_deposit"} \cup Expired =>
         reader.payment.status \in {"unpaid", "expired"}
  BY <1>1, <1>9 DEF VerdictOK, Expired
<1>19. ASSUME Invites(res)
       PROVE  Bounds(res.deadline) /\ InTime(reader.payment)
  <2>1. /\ verdict.state = "awaiting_deposit" /\ window.code = None
        /\ res.deadline = window.deadline
        /\ reader.payment # None /\ ~LocalSend(reader)
    <3>1. res.authoritative /\ ~res.localSend
      BY <1>19 DEF Invites
    <3>2. verdict.state = "awaiting_deposit"
      BY <1>1, <1>19 DEF Invites
    <3>3. res.window = window.code /\ res.deadline = window.deadline
      BY <1>1, <3>2
    <3> QED
      BY <1>13, <1>14, <1>19, <3>1, <3>2, <3>3 DEF Invites
  <2>2. p = reader.payment /\ IntentOf(p) /\ reader.byId
    BY <2>1 DEF AnswersInv, IntentRead
  <2>3. /\ order.expiresAt \in Nat /\ order.linkExpiry \in Nat
        /\ order.kept \in Nat \cup {None} /\ order.lock \in Nat \cup {None}
        /\ order.bitrefill \in BOOLEAN
    BY <1>2 DEF OrderType
  <2>4. None \notin Nat /\ Margin \in Nat
    BY DeadlinesAssumption DEF DeadlinesAssumption
  <2> DEFINE w == window.deadline
             Far(d) == d \in Nat => w <= d /\ d - now > Margin
  <2>5. w \in Nat /\ quote # None /\ Far(quote) /\ Far(order.expiresAt)
    BY <1>11, <2>1, <2>2 DEF IntentOf
  <2>6. ~reader.bitrefill => ~order.bitrefill /\ Far(order.linkExpiry)
    BY <1>11, <2>1
  <2>7. KeptLock(reader) = order.kept
    <3>1. local.exists => local.readable
      BY <2>1, <2>2 DEF LocalSend, Recorded
    <3> QED
      BY <1>2, <2>2, <3>1 DEF KeptLock, Recorded, WorldInv
  <2> HIDE DEF p, w
  <2>8. CASE reader.bitrefill
    <3>1. order.bitrefill
      BY <2>8 DEF AnswersInv
    <3>2. invoice \in Nat /\ Far(invoice)
      BY <1>7, <2>5, <2>8 DEF quote
    <3>3. offered = p.quote
      BY <2>1, <2>2
    <3>4. \A d \in {order.kept, p.quote} : d \in Nat => invoice <= d
      BY <1>7, <2>7, <3>3
    <3>5. Far(order.kept) /\ Far(p.quote)
      BY <1>2, <2>4, <2>5, <3>2, <3>4
    <3>6. Bounds(w)
      BY <2>2, <2>3, <2>5, <3>1, <3>5 DEF Bounds, IntentOf
    <3>7. \A d \in PromisedDeadlines(p) : d \in Nat /\ Far(d)
      BY <1>4, <2>3, <2>5, <3>1, <3>5 DEF PromisedDeadlines
    <3> QED
      BY <2>1, <2>2, <3>6, <3>7 DEF InTime, w
  <2>9. CASE ~reader.bitrefill
    <3>1. ~order.bitrefill /\ Far(order.linkExpiry)
      BY <2>6, <2>9
    <3>2. lock # None /\ Far(lock)
      BY <2>5, <2>9 DEF quote
    <3>3. order.family = "native" =>
            native /\ (\A d \in {p.quote, order.kept} : d \in Nat => lock \in Nat /\ lock <= d)
      <4>1. NoPayment.status = None /\ None \notin Status
        BY OrderStatusAssumption DEF OrderStatusAssumption, NoPayment
      <4>2. p # NoPayment
        BY <2>2, <4>1 DEF IntentOf
      <4>3. order.family = "native" => native
        BY <4>2
      <4> QED
        BY <1>8, <2>7, <4>3
    <3>4. order.kept # None => order.family = "native"
      BY <1>2, <3>1
    <3>5. Far(order.kept)
      BY <1>2, <2>3, <2>4, <2>5, <3>2, <3>3, <3>4
    <3>6. order.family \in {"native", "zec"} => Far(p.quote)
      <4>1. CASE order.family = "native"
        BY <1>2, <2>4, <2>5, <3>2, <3>3, <4>1
      <4>2. CASE order.family = "zec"
        BY <3>2, <4>2 DEF lock
      <4> QED
        BY <4>1, <4>2
    <3>7. Bounds(w)
      BY <2>3, <2>4, <2>5, <3>1, <3>5 DEF Bounds
    <3>8. \A d \in PromisedDeadlines(p) : d \in Nat /\ Far(d)
      BY <1>4, <2>3, <2>5, <3>1, <3>5, <3>6 DEF PromisedDeadlines
    <3> QED
      BY <2>1, <2>2, <3>7, <3>8 DEF InTime, w
  <2> QED
    BY <2>8, <2>9
<1> QED
  BY <1>12, <1>13, <1>14, <1>15, <1>16, <1>17, <1>18, <1>19 DEF ResultOK, res
------------------------------------------------------------------------------
(* The world only moves on: what was paid out, settled, sent or seen stays *)
(* so, and a command's answers remain true of it.                          *)
Onward ==
  /\ order' = order /\ reader' = reader
  /\ PaidOut(payment) => PaidOut(payment)'
  /\ Evidence(payment) => Evidence(payment)'
  /\ SentHere => SentHere'
  /\ ~order.bitrefill /\ coinbase.settled => coinbase'.settled

LEMMA WorldMovesOn ==
  ASSUME StatusInv, WorldInv', Onward
  PROVE  StatusInv'
<1> USE DEF StatusInv, Onward
<1>1. ReaderTypeOK'
  BY DEF ReaderTypeOK
<1>2. AnswersInv'
  <2>1. reader'.payment # None => IntentRead'
    <3>1. reader.payment # None => IntentRead
      BY DEF AnswersInv
    <3>2. Evidence(reader.payment)' <=> Evidence(reader.payment)
      BY DEF Evidence, MoneySeen, ReceiptSeen, ZecMoneySeen
    <3> QED
      BY <3>1, <3>2 DEF IntentRead, IntentOf, PaidOut
  <2>2. reader'.view # None => LinkRead'
    <3>1. reader.view # None => LinkRead
      BY DEF AnswersInv
    <3> QED
      BY <3>1 DEF LinkRead, LinkOf, PaidOut
  <2> QED
    BY <2>1, <2>2 DEF AnswersInv
<1>3. ResultInv'
  BY DEF ResultInv
<1>4. StepInv'
  BY DEF StepInv, Bounds, IntentOf
<1> QED
  BY <1>1, <1>2, <1>3, <1>4

LEMMA InitStatusInv == InitStatus => StatusInv
<1> SUFFICES ASSUME InitStatus PROVE StatusInv
  OBVIOUS
<1> USE DEF InitStatus
<1>1. order \in OrderType
  BY OrderStatusAssumption DEF OrderStatusAssumption
<1>2. /\ order.expiresAt \in Nat /\ order.linkExpiry \in Nat /\ order.lock \in Nat \cup {None}
      /\ order.v3 \in BOOLEAN /\ order.here \in BOOLEAN /\ order.bitrefill \in BOOLEAN
  BY <1>1 DEF OrderType
<1>3. IntentOf(payment)
  <2>1. PICK ready \in BOOLEAN :
          payment = [NoPayment EXCEPT !.status = "unpaid", !.ready = ready,
                       !.expiresAt = order.expiresAt, !.quote = order.lock,
                       !.zec = IF order.family = "zec"
                                 THEN [receive |-> "shielded", payin |-> "awaiting", zat |-> FALSE]
                                 ELSE None]
    OBVIOUS
  <2> DEFINE z == IF order.family = "zec"
                    THEN [receive |-> "shielded", payin |-> "awaiting", zat |-> FALSE] ELSE None
  <2>2. payment = [status |-> "unpaid", received |-> "absent", hash |-> FALSE,
                   confirmed |-> FALSE, zec |-> z, ready |-> ready,
                   expiresAt |-> order.expiresAt, quote |-> order.lock, payout |-> FALSE]
    BY <2>1 DEF NoPayment
  <2>3. z \in ZecBlock \cup {None} /\ (z # None => order.family = "zec")
    BY DEF ZecBlock, PayinStates
  <2> HIDE DEF z
  <2>4. payment \in PaymentType
    BY <1>2, <2>2, <2>3 DEF PaymentType, Status, Received
  <2> QED
    BY <2>2, <2>3, <2>4 DEF IntentOf, Status
<1>4. LinkOf(coinbase)
  BY <1>2 DEF LinkOf, Coinbase, Session
<1>5. WorldInv
  BY <1>2, <1>3, <1>4, OrderStatusAssumption DEF WorldInv, OrderStatusAssumption, RouterStatus
<1>6. reader = Idle
  OBVIOUS
<1>7. ReaderTypeOK
  BY <1>6 DEF ReaderTypeOK, ReaderType, Idle, ReaderStep
<1>8. AnswersInv /\ ResultInv /\ StepInv
  BY <1>6 DEF AnswersInv, ResultInv, StepInv, Idle
<1> QED
  BY <1>5, <1>7, <1>8 DEF StatusInv
(* One field of what payments/<id> reports moves.                          *)
LEMMA PaymentMoves ==
  ASSUME StatusInv, UNCHANGED <<now, order, router, coinbase, local, usedBy, reader>>,
         IntentOf(payment)',
         PaidOut(payment) => PaidOut(payment)',
         Evidence(payment) => Evidence(payment)'
  PROVE  WorldInv' /\ Onward
<1>1. WorldInv'
  BY DEF StatusInv, WorldInv, LinkOf
<1>2. Onward
  BY DEF Onward, SentHere
<1> QED
  BY <1>1, <1>2

LEMMA SendHereOnward ==
  ASSUME StatusInv, SendHere \/ RecordLost
  PROVE  WorldInv' /\ Onward
<1> USE DEF Moves
<1>1. UNCHANGED <<now, order, reader, payment, router, coinbase, usedBy>>
  BY DEF SendHere, RecordLost
<1>2. /\ local' \in [exists : BOOLEAN, readable : BOOLEAN, send : BOOLEAN]
      /\ local'.exists = local.exists
      /\ local'.send => local.exists
      /\ SentHere => SentHere'
  BY DEF StatusInv, WorldInv, SendHere, RecordLost, SentHere
<1>3. WorldInv'
  BY <1>1, <1>2 DEF StatusInv, WorldInv, IntentOf, LinkOf
<1>4. Onward
  BY <1>1, <1>2 DEF Onward, PaidOut, Evidence, MoneySeen, ReceiptSeen, ZecMoneySeen
<1> QED
  BY <1>3, <1>4

LEMMA EvidenceArrivesOnward ==
  ASSUME StatusInv, EvidenceArrives
  PROVE  WorldInv' /\ Onward
<1>1. UNCHANGED <<now, order, reader, router, coinbase, local, usedBy>>
  BY DEF EvidenceArrives, Moves
<1>2. payment \in PaymentType /\ IntentOf(payment)
  BY DEF StatusInv, WorldInv, IntentOf
<1> SUFFICES /\ IntentOf(payment)'
             /\ PaidOut(payment) => PaidOut(payment)'
             /\ Evidence(payment) => Evidence(payment)'
  BY <1>1, PaymentMoves
<1>3. CASE \E r \in Receipts : payment' = [payment EXCEPT !.received = r]
  <2>1. PICK r \in Receipts : payment' = [payment EXCEPT !.received = r]
    BY <1>3
  <2>2. r \in Received \ {"absent", "zero"}
    BY OrderStatusAssumption DEF OrderStatusAssumption
  <2>3. payment' \in PaymentType
    BY <1>2, <2>1, <2>2 DEF PaymentType
  <2>4. payment'.received = r
    BY <1>2, <2>1 DEF PaymentType
  <2>5. Evidence(payment)'
    BY <2>2, <2>4 DEF Evidence, MoneySeen, ReceiptSeen
  <2> QED
    BY <1>1, <1>2, <2>1, <2>3, <2>5 DEF IntentOf, PaidOut, PaymentType
<1>4. CASE payment' = [payment EXCEPT !.hash = TRUE]
  <2>1. payment' \in PaymentType /\ payment'.hash
    BY <1>2, <1>4 DEF PaymentType
  <2> QED
    BY <1>1, <1>2, <1>4, <2>1 DEF IntentOf, PaidOut, PaymentType, Evidence, MoneySeen
<1>5. CASE payment' = [payment EXCEPT !.confirmed = TRUE]
  <2>1. payment' \in PaymentType /\ payment'.confirmed
    BY <1>2, <1>5 DEF PaymentType
  <2> QED
    BY <1>1, <1>2, <1>5, <2>1 DEF IntentOf, PaidOut, PaymentType, Evidence, MoneySeen
<1>6. CASE /\ payment.zec # None
           /\ \E s \in {"seen", "confirming", "eligible", None} :
                payment' = [payment EXCEPT !.zec.payin = s]
  <2>1. PICK s \in {"seen", "confirming", "eligible", None} :
          payment' = [payment EXCEPT !.zec.payin = s]
    BY <1>6
  <2> DEFINE z == [payment.zec EXCEPT !.payin = s]
  <2>2. payment.zec \in ZecBlock
    BY <1>2, <1>6 DEF PaymentType
  <2>3. z \in ZecBlock /\ z.payin = s
    BY <2>2 DEF ZecBlock, PayinStates
  <2>4. payment' = [payment EXCEPT !.zec = z]
    BY <2>1
  <2> HIDE DEF z
  <2>5. payment' \in PaymentType /\ payment'.zec = z
    BY <1>2, <2>3, <2>4 DEF PaymentType
  <2>6. ZecMoneySeen(z)
    BY <2>3, OrderStatusAssumption DEF OrderStatusAssumption, ZecMoneySeen
  <2> QED
    BY <1>1, <1>2, <1>6, <2>4, <2>5, <2>6
       DEF IntentOf, PaidOut, PaymentType, Evidence, MoneySeen, ReceiptSeen
<1> QED
  BY <1>3, <1>4, <1>5, <1>6 DEF EvidenceArrives
LEMMA IntentMovesOnward ==
  ASSUME StatusInv, IntentMoves
  PROVE  WorldInv' /\ Onward
<1>1. UNCHANGED <<now, order, reader, router, coinbase, local, usedBy>>
  BY DEF IntentMoves, Moves
<1>2. payment \in PaymentType /\ IntentOf(payment) /\ payment.status \in Status
  BY DEF StatusInv, WorldInv, IntentOf
<1> SUFFICES /\ IntentOf(payment)'
             /\ PaidOut(payment) => PaidOut(payment)'
             /\ Evidence(payment) => Evidence(payment)'
  BY <1>1, PaymentMoves
<1>3. ASSUME NEW s \in Status, payment' = [payment EXCEPT !.status = s],
             PaidOut(payment) => s \in {"payout_completed", "completed"},
             payment.status # "unpaid" => s \notin {"unpaid", "expired"}
      PROVE  /\ IntentOf(payment)'
             /\ PaidOut(payment) => PaidOut(payment)'
             /\ Evidence(payment) => Evidence(payment)'
  <2>1. payment' \in PaymentType /\ payment'.status = s
    BY <1>2, <1>3 DEF PaymentType
  <2>2. /\ payment'.expiresAt = payment.expiresAt /\ payment'.zec = payment.zec
        /\ payment'.quote = payment.quote /\ payment'.hash = payment.hash
        /\ payment'.confirmed = payment.confirmed /\ payment'.received = payment.received
    BY <1>2, <1>3 DEF PaymentType
  <2>3. IntentOf(payment)'
    BY <1>1, <1>2, <2>1, <2>2 DEF IntentOf
  <2>4. Evidence(payment) => Evidence(payment)'
    BY <1>2, <1>3, <2>1, <2>2 DEF Evidence, MoneySeen, ReceiptSeen
  <2> QED
    BY <1>3, <2>1, <2>3, <2>4 DEF PaidOut
<1>4. CASE \E s \in Statuses :
             /\ \/ Rank[s] > Rank[payment.status]
                \/ /\ s \in {"bounced", "refunded", "other"}
                   /\ Rank[payment.status] < Rank["payout_completed"]
             /\ payment' = [payment EXCEPT !.status = s]
  <2>1. PICK s \in Statuses :
          /\ \/ Rank[s] > Rank[payment.status]
             \/ /\ s \in {"bounced", "refunded", "other"}
                /\ Rank[payment.status] < Rank["payout_completed"]
          /\ payment' = [payment EXCEPT !.status = s]
    BY <1>4
  <2>2. s \in Status /\ Rank[s] \in Nat /\ Rank[payment.status] \in Nat
    BY <1>2, RankOf, OrderStatusAssumption DEF OrderStatusAssumption
  <2>3. Rank[payment.status] > 0
    BY DEF IntentMoves
  <2>4. PaidOut(payment) => s \in {"payout_completed", "completed"}
    BY <2>1, <2>2, RankOf DEF PaidOut
  <2>5. s \notin {"unpaid", "expired"}
    BY <2>1, <2>2, <2>3, RankOf
  <2> QED
    BY <1>3, <2>1, <2>2, <2>4, <2>5
<1>5. CASE payment.status = "unpaid" /\ payment' = [payment EXCEPT !.status = "expired"]
  <2>1. "expired" \in Status
    BY DEF Status
  <2> QED
    BY <1>3, <1>5, <2>1 DEF PaidOut
<1>6. CASE payment' = [payment EXCEPT !.payout = TRUE]
  BY <1>1, <1>2, <1>6
     DEF IntentOf, PaidOut, PaymentType, Evidence, MoneySeen, ReceiptSeen, ZecMoneySeen
<1> QED
  BY <1>4, <1>5, <1>6 DEF IntentMoves

LEMMA OfferMovesOnward ==
  ASSUME StatusInv, OfferMoves
  PROVE  WorldInv' /\ Onward
<1>1. UNCHANGED <<now, order, reader, router, coinbase, local, usedBy>>
  BY DEF OfferMoves, Moves
<1>2. payment \in PaymentType /\ IntentOf(payment)
  BY DEF StatusInv, WorldInv, IntentOf
<1> SUFFICES /\ IntentOf(payment)'
             /\ PaidOut(payment) => PaidOut(payment)'
             /\ Evidence(payment) => Evidence(payment)'
  BY <1>1, PaymentMoves
<1>3. CASE payment' = [payment EXCEPT !.ready = TRUE]
  BY <1>1, <1>2, <1>3
     DEF IntentOf, PaidOut, PaymentType, Evidence, MoneySeen, ReceiptSeen, ZecMoneySeen
<1>4. CASE /\ order.family \in {"native", "zec"}
           /\ \E q \in Locks : payment' = [payment EXCEPT !.quote = q]
  <2>1. PICK q \in Locks : payment' = [payment EXCEPT !.quote = q]
    BY <1>4
  <2>2. q \in Nat
    BY OrderStatusAssumption DEF OrderStatusAssumption
  <2> QED
    BY <1>1, <1>2, <1>4, <2>1, <2>2
       DEF IntentOf, PaidOut, PaymentType, Evidence, MoneySeen, ReceiptSeen, ZecMoneySeen
<1>5. CASE /\ payment.zec # None
           /\ payment.zec.payin = "awaiting"
           /\ \E s \in {"expired", "reorged"} : payment' = [payment EXCEPT !.zec.payin = s]
  <2>1. PICK s \in {"expired", "reorged"} : payment' = [payment EXCEPT !.zec.payin = s]
    BY <1>5
  <2> DEFINE z == [payment.zec EXCEPT !.payin = s]
  <2>2. payment.zec \in ZecBlock
    BY <1>2, <1>5 DEF PaymentType
  <2>3. z \in ZecBlock /\ z.payin = s /\ z.zat = payment.zec.zat
    BY <2>2 DEF ZecBlock, PayinStates
  <2>4. payment' = [payment EXCEPT !.zec = z]
    BY <2>1
  <2>5. ZecMoneySeen(payment.zec) => ZecMoneySeen(z)
    <3>1. ZecMoneySeen(payment.zec) => payment.zec.zat
      BY <1>5, OrderStatusAssumption DEF ZecMoneySeen, OrderStatusAssumption
    <3>2. z # None
      BY <2>3, OrderStatusAssumption DEF OrderStatusAssumption
    <3> QED
      BY <2>3, <3>1, <3>2 DEF ZecMoneySeen
  <2> HIDE DEF z
  <2>6. /\ payment' \in PaymentType /\ payment'.zec = z
        /\ payment'.status = payment.status
        /\ payment'.hash = payment.hash /\ payment'.confirmed = payment.confirmed
        /\ payment'.received = payment.received
        /\ payment'.expiresAt = payment.expiresAt /\ payment'.quote = payment.quote
    BY <1>2, <2>3, <2>4 DEF PaymentType
  <2> QED
    BY <1>1, <1>2, <1>5, <2>5, <2>6
       DEF IntentOf, PaidOut, Evidence, MoneySeen, ReceiptSeen
<1> QED
  BY <1>3, <1>4, <1>5 DEF OfferMoves
LEMMA LinkMovesOnward ==
  ASSUME StatusInv, RouterMoves \/ LinkUsed \/ LinkSettles
  PROVE  WorldInv' /\ Onward
<1>1. UNCHANGED <<now, order, reader, payment, local>>
  BY DEF RouterMoves, LinkUsed, LinkSettles, Moves
<1>2. LinkOf(coinbase) /\ router \in RouterStatus /\ usedBy \in {None, "rozo", "other"}
  BY DEF StatusInv, WorldInv
<1>3. CASE order.bitrefill
  <2>1. coinbase = None /\ usedBy = None
    BY <1>2, <1>3 DEF StatusInv, WorldInv, LinkOf
  <2> QED
    BY <2>1 DEF RouterMoves, LinkUsed, LinkSettles
<1>4. CASE ~order.bitrefill
  <2>1. coinbase \in Coinbase /\ coinbase.expiry = order.linkExpiry
    BY <1>2, <1>4 DEF LinkOf
  <2>2. /\ router' \in RouterStatus
        /\ usedBy' \in {None, "rozo", "other"}
        /\ coinbase' \in {coinbase, UsedUp, [coinbase EXCEPT !.settled = TRUE]}
    <3>1. CASE RouterMoves
      BY <1>2, <3>1 DEF RouterMoves, RouterStatus
    <3>2. CASE LinkUsed
      BY <1>2, <3>2 DEF LinkUsed
    <3>3. CASE LinkSettles
      BY <1>2, <3>3 DEF LinkSettles
    <3> QED
      BY <3>1, <3>2, <3>3
  <2>3. /\ coinbase' \in Coinbase
        /\ coinbase'.expiry = order.linkExpiry
        /\ coinbase.settled => coinbase'.settled
    BY <2>1, <2>2 DEF Coinbase, Session, UsedUp
  <2>4. WorldInv'
    BY <1>1, <1>2, <1>4, <2>2, <2>3 DEF StatusInv, WorldInv, IntentOf, LinkOf
  <2>5. Onward
    BY <1>1, <2>3 DEF Onward, PaidOut, Evidence, MoneySeen, ReceiptSeen, ZecMoneySeen, SentHere
  <2> QED
    BY <2>4, <2>5
<1> QED
  BY <1>3, <1>4

LEMMA TickOnward ==
  ASSUME StatusInv, Tick
  PROVE  WorldInv' /\ Onward
<1>1. UNCHANGED <<order, reader, payment, router, coinbase, local, usedBy>>
  BY DEF Tick, worldVars
<1>2. now' \in 0..MaxTime
  BY OrderStatusAssumption DEF OrderStatusAssumption, Tick, StatusInv, WorldInv
<1>3. WorldInv'
  BY <1>1, <1>2 DEF StatusInv, WorldInv, IntentOf, LinkOf
<1>4. Onward
  BY <1>1 DEF Onward, PaidOut, Evidence, MoneySeen, ReceiptSeen, ZecMoneySeen, SentHere
<1> QED
  BY <1>3, <1>4
------------------------------------------------------------------------------
(* The steps of a command leave the world alone, so that it is enough to   *)
(* look at what the command holds afterwards.                              *)
WorldStill == UNCHANGED <<now, worldVars>>

LEMMA StillWorld ==
  ASSUME StatusInv, WorldStill
  PROVE  /\ WorldInv'
         /\ SentHere' <=> SentHere
         /\ Evidence(payment)' <=> Evidence(payment)
         /\ PaidOut(payment)' <=> PaidOut(payment)
<1>1. WorldInv'
  BY DEF StatusInv, WorldInv, WorldStill, worldVars, IntentOf, LinkOf
<1>2. /\ SentHere' <=> SentHere
      /\ Evidence(payment)' <=> Evidence(payment)
      /\ PaidOut(payment)' <=> PaidOut(payment)
  BY DEF WorldStill, worldVars, SentHere, Evidence, PaidOut, MoneySeen, ReceiptSeen, ZecMoneySeen
<1> QED
  BY <1>1, <1>2

(* A snapshot begins with nothing in hand.                                 *)
LEMMA SnapshotBegins ==
  ASSUME StatusInv, WorldStill,
         NEW r \in ReaderType, reader' = Begin(r), r.started \in Nat,
         r.payment = None, r.view = None
  PROVE  StatusInv'
<1> DEFINE first == FirstAwait(r)
<1>1. /\ first \in {"provider", "status", "payment"}
      /\ first \in {"provider", "payment"} => r.byId
      /\ first = "payment" => order.bitrefill
  BY DEF FirstAwait
<1> HIDE DEF first
<1>2. reader' = [r EXCEPT !.at = first, !.bitrefill = first = "payment",
                          !.asked = Visible, !.result = None, !.wake = None]
  BY DEF Begin, first
<1>3. Visible <=> SentHere \/ Evidence(payment)
  BY DEF Visible, PaymentEvidence, SentHere, Evidence
<1>4. Visible \in BOOLEAN
  BY DEF Visible
<1>5. /\ reader' \in ReaderType
      /\ reader'.at = first /\ reader'.started = r.started
      /\ reader'.payment = None /\ reader'.view = None /\ reader'.result = None
      /\ reader'.byId = r.byId
      /\ reader'.bitrefill = (first = "payment")
      /\ reader'.asked = Visible
  <2> DEFINE direct == first = "payment"
             visible == Visible
  <2>1. direct \in BOOLEAN /\ visible \in BOOLEAN
    BY <1>4
  <2>2. first \in ReaderStep
    BY <1>1 DEF ReaderStep
  <2>3. reader' = [r EXCEPT !.at = first, !.bitrefill = direct,
                            !.asked = visible, !.result = None, !.wake = None]
    BY <1>2
  <2> HIDE DEF direct, visible
  <2>4. /\ reader' \in ReaderType
        /\ reader'.at = first /\ reader'.started = r.started
        /\ reader'.payment = None /\ reader'.view = None /\ reader'.result = None
        /\ reader'.byId = r.byId
        /\ reader'.bitrefill = direct
        /\ reader'.asked = visible
    BY <2>1, <2>2, <2>3 DEF ReaderType
  <2> QED
    BY <2>4 DEF direct, visible
<1>6. ReaderTypeOK'
  BY <1>5 DEF ReaderTypeOK
<1>7. AnswersInv'
  BY <1>1, <1>3, <1>5, StillWorld DEF AnswersInv, WorldStill, worldVars
<1>8. ResultInv' /\ StepInv'
  BY <1>1, <1>5 DEF ResultInv, StepInv
<1> QED
  BY <1>6, <1>7, <1>8, StillWorld DEF StatusInv

LEMMA StartKeepsInv ==
  ASSUME StatusInv, Start
  PROVE  StatusInv'
<1>1. PICK cmd \in {"query", "watch", "resume"}, byId, named \in BOOLEAN, timeout \in Timeouts :
        /\ order.bitrefill \/ cmd = "resume" => byId
        /\ reader' = Begin([Idle EXCEPT !.cmd = cmd, !.byId = byId, !.named = named,
                                        !.timeout = timeout, !.started = now])
  BY DEF Start
<1> DEFINE r == [Idle EXCEPT !.cmd = cmd, !.byId = byId, !.named = named,
                             !.timeout = timeout, !.started = now]
<1>2. now \in Nat /\ timeout \in Nat \cup {None}
  BY OrderStatusAssumption DEF OrderStatusAssumption, StatusInv, WorldInv
<1>3. r \in ReaderType /\ r.started \in Nat /\ r.payment = None /\ r.view = None
  BY <1>2 DEF Idle, ReaderType, ReaderStep
<1>4. WorldStill
  BY DEF Start, WorldStill
<1> HIDE DEF r
<1> QED
  BY <1>1, <1>3, <1>4, SnapshotBegins DEF r

LEMMA PollKeepsInv ==
  ASSUME StatusInv, Poll
  PROVE  StatusInv'
<1>1. reader.at = "sleep" /\ reader' = Begin(reader) /\ WorldStill
  BY DEF Poll, Awaiting, WorldStill
<1>2. reader \in ReaderType /\ reader.started \in Nat
  BY <1>1 DEF StatusInv, ReaderTypeOK
<1>3. reader.payment = None /\ reader.view = None
  BY <1>1 DEF StatusInv, StepInv
<1> QED
  BY <1>1, <1>2, <1>3, SnapshotBegins
(* An answer is taken as the world has it, or given up.                    *)
LEMMA AnswerTaken ==
  ASSUME StatusInv, WorldStill, reader.at # "idle",
         reader' \in ReaderType,
         reader'.at \in {"status", "payment", "judge"},
         reader'.payment \in {reader.payment, payment, None},
         \/ reader'.view \in {reader.view, None}
         \/ reader'.view.coinbase = coinbase /\ reader'.view.payment \in {payment, NoPayment},
         reader'.bitrefill => order.bitrefill,
         reader'.payment # None \/ reader'.at = "payment" => reader'.byId,
         reader'.asked = reader.asked, reader'.result = reader.result,
         reader'.started = reader.started
  PROVE  StatusInv'
<1> USE DEF StatusInv
<1>1. UNCHANGED <<now, order, payment, router, coinbase, local, usedBy>>
  BY DEF WorldStill, worldVars
<1>2. WorldInv' /\ IntentOf(payment) /\ LinkOf(coinbase)
  BY StillWorld DEF WorldInv
<1>3. ReaderTypeOK'
  BY DEF ReaderTypeOK
<1>4. reader'.payment # None => IntentRead'
  <2>1. Evidence(reader.payment)' <=> Evidence(reader'.payment)
    BY DEF Evidence, MoneySeen, ReceiptSeen, ZecMoneySeen
  <2>2. CASE reader'.payment = payment
    BY <1>1, <1>2, <2>1, <2>2, StillWorld DEF IntentRead, IntentOf, PaidOut, AnswersInv, Evidence
  <2>3. CASE reader'.payment = reader.payment
    <3>1. reader'.payment # None => IntentRead
      BY <2>3 DEF AnswersInv
    <3>2. Evidence(reader.payment)' <=> Evidence(reader.payment)
      BY <2>3 DEF Evidence, MoneySeen, ReceiptSeen, ZecMoneySeen
    <3> QED
      BY <1>1, <2>3, <3>1, <3>2, StillWorld DEF IntentRead, IntentOf, PaidOut
  <2> QED
    BY <2>2, <2>3
<1>5. reader'.view # None => LinkRead'
  <2>1. CASE reader'.view = reader.view
    BY <1>1, <2>1 DEF AnswersInv, LinkRead, LinkOf, PaidOut
  <2>2. CASE reader'.view.coinbase = coinbase /\ reader'.view.payment \in {payment, NoPayment}
    <3>1. ~PaidOut(NoPayment)
      BY NothingPaidOut
    <3>2. PaidOut(reader'.view.payment) => PaidOut(payment)
      BY <2>2, <3>1
    <3> QED
      BY <1>1, <1>2, <2>2, <3>2 DEF LinkRead, LinkOf, PaidOut
  <2> QED
    BY <2>1, <2>2
<1>6. AnswersInv'
  BY <1>1, <1>4, <1>5, StillWorld DEF AnswersInv
<1>7. ResultInv' /\ StepInv'
  BY <1>1, StillWorld DEF ResultInv, StepInv
<1> QED
  BY <1>2, <1>3, <1>6, <1>7

LEMMA ReadProviderKeepsInv ==
  ASSUME StatusInv, ReadProvider
  PROVE  StatusInv'
<1> USE DEF StatusInv
<1>1. WorldStill /\ reader.at = "provider"
  BY DEF ReadProvider, Awaiting, WorldStill
<1>2. /\ reader \in ReaderType /\ reader.byId
      /\ payment \in PaymentType /\ order.bitrefill \in BOOLEAN
      /\ reader.bitrefill => order.bitrefill
  BY <1>1, InHand DEF ReaderTypeOK, StepInv, WorldInv, IntentOf, OrderType, AnswersInv
<1>3. CASE reader' = [reader EXCEPT !.payment = payment, !.bitrefill = order.bitrefill,
                        !.at = IF order.bitrefill THEN "judge" ELSE "status"]
  <2> DEFINE a == IF order.bitrefill THEN "judge" ELSE "status"
             b == order.bitrefill
  <2>1. a \in ReaderStep /\ a \in {"status", "judge"} /\ b \in BOOLEAN
    BY <1>2 DEF ReaderStep
  <2>2. reader' = [reader EXCEPT !.payment = payment, !.bitrefill = b, !.at = a]
    BY <1>3
  <2> HIDE DEF a, b
  <2>3. /\ reader' \in ReaderType /\ reader'.at = a /\ reader'.payment = payment
        /\ reader'.view = reader.view /\ reader'.bitrefill = b /\ reader'.byId
        /\ reader'.asked = reader.asked /\ reader'.result = reader.result
        /\ reader'.started = reader.started
    BY <1>2, <2>1, <2>2 DEF ReaderType
  <2> QED
    BY <1>1, <2>1, <2>3, AnswerTaken DEF b
<1>4. CASE reader' = [reader EXCEPT !.at = "status"]
  <2>1. /\ reader' \in ReaderType /\ reader'.at = "status" /\ reader'.payment = reader.payment
        /\ reader'.view = reader.view /\ reader'.bitrefill = reader.bitrefill /\ reader'.byId
        /\ reader'.asked = reader.asked /\ reader'.result = reader.result
        /\ reader'.started = reader.started
    BY <1>2, <1>4 DEF ReaderType, ReaderStep
  <2> QED
    BY <1>1, <1>2, <2>1, AnswerTaken
<1> QED
  BY <1>3, <1>4 DEF ReadProvider

LEMMA ReadStatusKeepsInv ==
  ASSUME StatusInv, ReadStatus
  PROVE  StatusInv'
<1> USE DEF StatusInv
<1> DEFINE byId == reader.byId \/ (local.exists /\ local.readable)
           view == [payment |-> IF reader.byId THEN payment ELSE NoPayment,
                    router |-> router, coinbase |-> coinbase]
           at   == IF byId /\ reader.payment = None THEN "payment" ELSE "judge"
<1>1. WorldStill /\ reader.at = "status"
  BY DEF ReadStatus, Awaiting, WorldStill
<1>2. /\ reader \in ReaderType /\ payment \in PaymentType
      /\ reader.bitrefill => order.bitrefill
      /\ reader.payment # None => reader.byId
  BY DEF ReaderTypeOK, WorldInv, IntentOf, AnswersInv, IntentRead
<1>3. coinbase \in Coinbase \cup {None} /\ router \in RouterStatus
  BY DEF WorldInv, LinkOf
<1>4. view \in ViewType
  BY <1>2, <1>3, NothingPaidOut DEF ViewType
<1>5. view.coinbase = coinbase /\ view.payment \in {payment, NoPayment}
  OBVIOUS
<1>6. PICK answer \in {view, None} :
        reader' = [reader EXCEPT !.view = answer, !.byId = byId, !.at = at]
  BY DEF ReadStatus
<1>7. byId \in BOOLEAN /\ at \in ReaderStep /\ at \in {"payment", "judge"}
  BY <1>2 DEF ReaderType, ReaderStep, WorldInv
<1>8. (at = "payment" => byId) /\ (reader.byId => byId)
  OBVIOUS
<1> HIDE DEF view, byId, at
<1>9. /\ reader' \in ReaderType /\ reader'.at = at /\ reader'.payment = reader.payment
      /\ reader'.view = answer /\ reader'.bitrefill = reader.bitrefill /\ reader'.byId = byId
      /\ reader'.asked = reader.asked /\ reader'.result = reader.result
      /\ reader'.started = reader.started
  BY <1>2, <1>4, <1>6, <1>7 DEF ReaderType
<1> QED
  BY <1>1, <1>2, <1>5, <1>7, <1>8, <1>9, AnswerTaken

LEMMA ReadPaymentKeepsInv ==
  ASSUME StatusInv, ReadPayment
  PROVE  StatusInv'
<1> USE DEF StatusInv
<1>1. WorldStill /\ reader.at = "payment" /\ reader.byId
  BY DEF ReadPayment, Awaiting, WorldStill, StepInv
<1>2. /\ reader \in ReaderType /\ payment \in PaymentType
      /\ reader.bitrefill => order.bitrefill
  BY DEF ReaderTypeOK, WorldInv, IntentOf, AnswersInv
<1>3. PICK answer \in {payment, None} :
        reader' = [reader EXCEPT !.payment = answer, !.at = "judge"]
  BY DEF ReadPayment
<1>4. /\ reader' \in ReaderType /\ reader'.at = "judge" /\ reader'.payment = answer
      /\ reader'.view = reader.view /\ reader'.bitrefill = reader.bitrefill /\ reader'.byId
      /\ reader'.asked = reader.asked /\ reader'.result = reader.result
      /\ reader'.started = reader.started
  BY <1>1, <1>2, <1>3 DEF ReaderType, ReaderStep
<1> QED
  BY <1>1, <1>2, <1>4, AnswerTaken
------------------------------------------------------------------------------
(* Lemmas about what a result permits.  A permission to send, or to make a *)
(* new order, takes the intent itself, no money and no send of this        *)
(* machine; resume grants what status grants.                              *)
Unpaid(r) ==
  /\ r.authoritative /\ ~r.money /\ ~r.localSend
  /\ r.state \in {"awaiting_deposit"} \cup Expired

LEMMA OutcomeJudged ==
  ASSUME NEW r \in ResultType
  PROVE  /\ PaymentOutcome(r) \in {"awaiting_payment", "processing", "settled",
                                   "expired_unfunded", "needs_attention", "unknown"}
         /\ PaymentOutcome(r) = "awaiting_payment" <=>
              /\ r.state = "awaiting_deposit"
              /\ "escalate" \notin r.flags /\ "unknown" \notin r.flags
              /\ r.authoritative /\ ~r.money
         /\ PaymentOutcome(r) = "expired_unfunded" =>
              r.state \in Expired /\ r.authoritative /\ ~r.money /\ ~r.localSend
         /\ PaymentOutcome(r) = "settled" =>
              /\ r.state = "settled" /\ MerchantSettled(r)
              /\ ~r.bitrefill => r.router # "failed"
<1> DEFINE o == OutcomeOf(r.state)
<1>1. r.state \in States
  BY DEF ResultType
<1>2. /\ o \in {"awaiting_payment", "processing", "settled", "expired_unfunded",
                "needs_attention", "unknown"}
      /\ o = "awaiting_payment" <=> r.state = "awaiting_deposit"
      /\ o = "expired_unfunded" <=> r.state \in Expired
      /\ o = "settled" <=> r.state = "settled"
  BY <1>1 DEF OutcomeOf, States, Processing, Expired
<1> HIDE DEF o
<1> DEFINE m == MerchantSettled(r)
           out == PaymentOutcome(r)
<1>3. out = IF "escalate" \in r.flags THEN "needs_attention"
            ELSE IF "unknown" \in r.flags THEN "unknown"
            ELSE IF o = "settled" /\ ~m THEN "processing"
            ELSE IF o = "settled" /\ ~r.bitrefill /\ r.router = "failed" THEN "needs_attention"
            ELSE IF o = "settled" /\ ~r.bitrefill /\ r.router \notin {None, "paid"}
              THEN "processing"
            ELSE IF ~r.authoritative /\ o \in {"awaiting_payment", "expired_unfunded"}
              THEN "unknown"
            ELSE IF (r.money \/ r.localSend) /\ o = "expired_unfunded" THEN "needs_attention"
            ELSE IF r.money /\ o = "awaiting_payment" THEN "processing"
            ELSE o
  BY DEF PaymentOutcome, o
<1> HIDE DEF m, out
<1>4. out \in {"awaiting_payment", "processing", "settled", "expired_unfunded",
               "needs_attention", "unknown"}
  BY <1>2, <1>3
<1>5. out = "awaiting_payment" <=>
        /\ o = "awaiting_payment"
        /\ "escalate" \notin r.flags /\ "unknown" \notin r.flags
        /\ r.authoritative /\ ~r.money
  BY <1>2, <1>3
<1>6. out = "expired_unfunded" =>
        o = "expired_unfunded" /\ r.authoritative /\ ~r.money /\ ~r.localSend
  BY <1>2, <1>3
<1>7. out = "settled" => o = "settled" /\ m /\ (~r.bitrefill => r.router # "failed")
  BY <1>2, <1>3
<1> QED
  BY <1>2, <1>4, <1>5, <1>6, <1>7 DEF m, out

LEMMA PermitsJudged ==
  ASSUME NEW r \in ResultType
  PROVE  /\ Permits(r) # {} => Unpaid(r)
         /\ "send" \in Permits(r) <=>
              /\ PaymentOutcome(r) = "awaiting_payment"
              /\ ~r.money /\ ~r.localSend /\ r.window = None
<1> DEFINE out == PaymentOutcome(r)
           act == NextAction(r, out)
<1>1. None \notin {"EXPIRED", "EXPIRY_MARGIN", "LINK_NO_LONGER_PAYABLE", Absent}
  BY OrderStatusAssumption, DeadlinesAssumption DEF OrderStatusAssumption, DeadlinesAssumption
<1>2. out \in {"awaiting_payment", "processing", "settled", "expired_unfunded",
               "needs_attention", "unknown"}
  BY OutcomeJudged
<1>3. Permits(r) = act.permits
  BY DEF Permits
<1>4. CASE out = "awaiting_payment"
  <2>1. r.state = "awaiting_deposit" /\ r.authoritative /\ ~r.money
    BY <1>4, OutcomeJudged
  <2> HIDE DEF out
  <2>2. CASE r.localSend
    <3>1. act = Do("check_status", {})
      BY <1>4, <2>2 DEF NextAction
    <3> QED
      BY <1>3, <2>2, <3>1 DEF Do
  <2>3. CASE ~r.localSend /\ r.window = None
    <3>1. act = Do("pay", {"send"})
      BY <1>1, <1>4, <2>1, <2>3 DEF NextAction
    <3> QED
      BY <1>3, <1>4, <2>1, <2>3, <3>1 DEF Do, Unpaid, out
  <2>4. CASE ~r.localSend /\ r.window # None
    <3>1. act \in {Do("check_status", {}), Do("request_new_invoice", {})}
      BY <1>4, <2>1, <2>4 DEF NextAction
    <3> QED
      BY <1>3, <2>4, <3>1 DEF Do
  <2> QED
    BY <2>2, <2>3, <2>4
<1>5. CASE out = "expired_unfunded"
  <2>1. Unpaid(r)
    BY <1>5, OutcomeJudged DEF Unpaid
  <2>2. act \in {Do("request_new_invoice", {}), Do("choose_method", {"create"})}
    <3> HIDE DEF out
    <3> QED
      BY <1>5 DEF NextAction
  <2> QED
    BY <1>3, <1>5, <2>1, <2>2 DEF Do
<1>6. CASE out \in {"processing", "settled", "needs_attention", "unknown"}
  <2>1. act \in {Do("check_status", {}), Do("none", {}), Do("request_new_invoice", {}),
                 Do("contact_support", {})}
    <3> HIDE DEF out
    <3> QED
      BY <1>6 DEF NextAction
  <2> QED
    BY <1>3, <1>6, <2>1 DEF Do
<1> QED
  BY <1>2, <1>4, <1>5, <1>6

LEMMA ResumeJudged ==
  ASSUME NEW r \in ResultType
  PROVE  /\ ResumeVerdict(r) = None <=> "send" \in Permits(r)
         /\ "send" \in Permits(r) => Invites(r) /\ Unpaid(r)
<1>1. None \notin {"ORDER_NEEDS_ATTENTION", "ORDER_STATE_UNKNOWN", "ORDER_ALREADY_PAID",
                   "ORDER_EXPIRED", "ALREADY_SENT", "ORDER_NOT_RESUMABLE",
                   "SEND_WINDOW_CLOSED"}
  BY OrderStatusAssumption DEF OrderStatusAssumption
<1>2. ResumeVerdict(r) = None <=>
        /\ "escalate" \notin r.flags /\ "unknown" \notin r.flags
        /\ r.authoritative /\ ~r.money /\ ~r.localSend
        /\ r.state = "awaiting_deposit" /\ r.window = None
  BY <1>1 DEF ResumeVerdict, Processing, Expired
<1>3. "send" \in Permits(r) <=>
        /\ "escalate" \notin r.flags /\ "unknown" \notin r.flags
        /\ r.authoritative /\ ~r.money /\ ~r.localSend
        /\ r.state = "awaiting_deposit" /\ r.window = None
  BY OutcomeJudged, PermitsJudged
<1> QED
  BY <1>2, <1>3 DEF Invites, Unpaid
(* An unpaid verdict on the intent itself: nothing was visible when the    *)
(* snapshot began, because it would have been in the answer or here.       *)
LEMMA NothingWasVisible ==
  ASSUME StatusInv, NEW r, ResultOK(r), Unpaid(r)
  PROVE  /\ reader.byId /\ ~reader.asked
         /\ ~MoneySeen(reader.payment) /\ ~ZecMoneySeen(reader.payment.zec)
         /\ ~local.send
<1>1. reader.payment # None /\ ~LocalSend(reader)
  BY DEF ResultOK, Unpaid
<1>2. IntentRead
  BY <1>1 DEF StatusInv, AnswersInv
<1>3. /\ ~MoneySeen(reader.payment) /\ ~ZecMoneySeen(reader.payment.zec)
      /\ reader.payment.status \in {"unpaid", "expired"}
  BY DEF ResultOK, Unpaid
<1>4. ~Evidence(reader.payment)
  BY <1>3 DEF Evidence
<1>5. ~SentHere
  BY <1>1, <1>2 DEF LocalSend, Recorded, SentHere, IntentRead
<1>6. ~local.send
  BY <1>5 DEF SentHere, StatusInv, WorldInv
<1> QED
  BY <1>2, <1>3, <1>4, <1>5, <1>6 DEF IntentRead

LEMMA JudgeKeepsInv ==
  ASSUME StatusInv, Judge
  PROVE  StatusInv'
<1> USE DEF StatusInv
<1> DEFINE result == Result(reader)
           limit  == IF reader.cmd = "watch" THEN WatchLimit(reader, result) ELSE None
           again  == reader.cmd = "watch" /\ result.flags = {} /\ now < limit
           wake   == IF again THEN now + 1 ELSE None
           at     == IF again THEN "sleep"
                     ELSE IF reader.cmd = "resume" /\ ResumeVerdict(result) = None
                       THEN "fresh" ELSE "done"
<1>1. WorldStill /\ reader.at = "judge"
  BY DEF Judge, Awaiting, WorldStill
<1>2. reader' = [reader EXCEPT !.payment = None, !.view = None, !.result = result,
                   !.until = limit, !.wake = wake, !.at = at]
  BY DEF Judge
<1>3. /\ ResultOK(result)
      /\ result \in ResultType
  BY ResultJudged DEF ResultOK
<1>4. reader \in ReaderType /\ reader.started \in Nat /\ now \in Nat
  BY <1>1, InHand DEF ReaderTypeOK
<1> HIDE DEF result
<1>5. limit \in Nat \cup {None}
  <2> DEFINE lightning == order.family = "lightning"
             w == WatchTimeout(reader.started, reader.timeout, lightning,
                               result.expiresAt, result.quote)
  <2>1. /\ reader.timeout \in Nat \cup {None} /\ reader.until \in Nat \cup {None}
        /\ result.expiresAt \in Nat \cup {None} /\ result.quote \in Nat \cup {None, Absent}
        /\ lightning \in BOOLEAN
    BY <1>3, <1>4 DEF ReaderType, ResultType
  <2> HIDE DEF lightning
  <2>2. w \in Nat
    BY <1>4, <2>1, WatchTimed
  <2>3. WatchLimit(reader, result) = IF reader.until # None THEN reader.until
                                     ELSE reader.started + w
    BY DEF WatchLimit, lightning
  <2> HIDE DEF w
  <2> QED
    BY <1>4, <2>1, <2>2, <2>3
<1>6. wake \in Nat \cup {None}
  BY <1>4
<1>7. /\ at \in {"sleep", "fresh", "done"}
      /\ at = "fresh" => ResumeVerdict(result) = None
  OBVIOUS
<1> HIDE DEF limit, wake, at
<1>8. /\ reader' \in ReaderType
      /\ reader'.at = at /\ reader'.payment = None /\ reader'.view = None
      /\ reader'.result = result /\ reader'.byId = reader.byId
      /\ reader'.asked = reader.asked /\ reader'.bitrefill = reader.bitrefill
      /\ reader'.started = reader.started
  BY <1>2, <1>3, <1>4, <1>5, <1>6, <1>7 DEF ReaderType, ReaderStep
<1>9. UNCHANGED <<order, payment, coinbase>>
  BY <1>1 DEF WorldStill, worldVars
<1>10. ReaderTypeOK'
  BY <1>4, <1>8 DEF ReaderTypeOK
<1>11. AnswersInv'
  BY <1>1, <1>8, <1>9, StillWorld DEF AnswersInv
<1>12. ResultInv'
  BY <1>3, <1>8, <1>9 DEF ResultInv, ResultOK, PaidOut, AnswersInv
<1>13. StepInv'
  <2>1. at = "fresh" => Invites(result) /\ Unpaid(result)
    BY <1>3, <1>7, ResumeJudged
  <2>2. at = "fresh" => reader.byId /\ ~reader.asked
    BY <1>3, <2>1, NothingWasVisible
  <2>3. at = "fresh" => Bounds(result.deadline)
    BY <1>3, <2>1 DEF ResultOK
  <2>4. Bounds(result.deadline) => Bounds(reader.result.deadline)'
    BY <1>8, <1>9 DEF Bounds
  <2> QED
    BY <1>3, <1>7, <1>8, <2>2, <2>3, <2>4 DEF StepInv
<1> QED
  BY <1>1, <1>10, <1>11, <1>12, <1>13, StillWorld

LEMMA ReadFreshKeepsInv ==
  ASSUME StatusInv, ReadFresh
  PROVE  StatusInv'
<1> USE DEF StatusInv
<1>1. WorldStill /\ reader.at = "fresh"
  BY DEF ReadFresh, Awaiting, WorldStill
<1>2. /\ reader \in ReaderType /\ reader.started \in Nat /\ payment \in PaymentType
      /\ IntentOf(payment)
      /\ reader.byId /\ ~reader.asked
      /\ reader.result \in ResultType /\ Bounds(reader.result.deadline)
  BY <1>1 DEF ReaderTypeOK, WorldInv, IntentOf, StepInv
<1>3. PICK a \in {"show", "done"}, p \in {payment, reader.payment} :
        /\ a = "show" => p = payment
        /\ reader' = [reader EXCEPT !.at = a, !.payment = p]
  <2>1. CASE reader' = [reader EXCEPT !.at = "show", !.payment = payment]
    BY <2>1
  <2>2. CASE reader' = [reader EXCEPT !.at = "done"]
    <3>1. reader' = [reader EXCEPT !.at = "done", !.payment = reader.payment]
      BY <1>2, <2>2 DEF ReaderType
    <3> QED
      BY <3>1
  <2> QED
    BY <2>1, <2>2 DEF ReadFresh
<1>4. /\ reader' \in ReaderType /\ reader'.at = a /\ reader'.payment = p
      /\ reader'.view = reader.view /\ reader'.bitrefill = reader.bitrefill
      /\ reader'.byId /\ ~reader'.asked /\ reader'.result = reader.result
      /\ reader'.started = reader.started
  BY <1>2, <1>3 DEF ReaderType, ReaderStep
<1>5. UNCHANGED <<order, payment, coinbase>>
  BY <1>1 DEF WorldStill, worldVars
<1>6. ReaderTypeOK'
  BY <1>2, <1>4 DEF ReaderTypeOK
<1>7. reader'.payment # None => IntentRead'
  <2>1. CASE p = payment
    BY <1>2, <1>4, <1>5, <2>1 DEF IntentRead, IntentOf, PaidOut
  <2>2. CASE p = reader.payment
    BY <1>4, <1>5, <2>2 DEF AnswersInv, IntentRead, IntentOf, PaidOut
  <2> QED
    BY <2>1, <2>2
<1>8. reader'.view # None => LinkRead'
  BY <1>4, <1>5 DEF AnswersInv, LinkRead, LinkOf, PaidOut
<1>9. AnswersInv'
  BY <1>4, <1>5, <1>7, <1>8 DEF AnswersInv
<1>10. ResultInv'
  BY <1>4, <1>5 DEF ResultInv, PaidOut
<1>11. StepInv'
  <2>1. Bounds(reader.result.deadline)'
    BY <1>2, <1>4, <1>5 DEF Bounds
  <2>2. a = "show" => IntentOf(reader.payment)'
    BY <1>2, <1>3, <1>4, <1>5 DEF IntentOf
  <2> QED
    BY <1>2, <1>4, <2>1, <2>2 DEF StepInv
<1> QED
  BY <1>1, <1>6, <1>9, <1>10, <1>11, StillWorld

LEMMA ShowKeepsInv ==
  ASSUME StatusInv, Show
  PROVE  StatusInv'
<1> USE DEF StatusInv
<1>1. WorldStill /\ reader.at = "show"
  BY DEF Show, Awaiting, WorldStill
<1>2. PICK shown \in BOOLEAN :
        reader' = [reader EXCEPT !.at = "done", !.payment = None, !.shown = shown]
  <2>1. PICK listed \in BOOLEAN :
          reader' = [reader EXCEPT !.at = "done", !.payment = None,
                       !.shown = MayShow(reader.payment, reader.result) /\ ~listed]
    BY DEF Show
  <2> DEFINE shown == MayShow(reader.payment, reader.result) /\ ~listed
  <2>2. shown \in BOOLEAN
    OBVIOUS
  <2> HIDE DEF shown
  <2>3. reader' = [reader EXCEPT !.at = "done", !.payment = None, !.shown = shown]
    BY <2>1 DEF shown
  <2> QED
    BY <2>2, <2>3
<1>3. reader \in ReaderType /\ reader.started \in Nat
  BY <1>1 DEF ReaderTypeOK
<1>4. /\ reader' \in ReaderType /\ reader'.at = "done" /\ reader'.payment = None
      /\ reader'.view = reader.view /\ reader'.bitrefill = reader.bitrefill
      /\ reader'.asked = reader.asked /\ reader'.result = reader.result
      /\ reader'.started = reader.started
  BY <1>2, <1>3 DEF ReaderType, ReaderStep
<1>5. UNCHANGED <<order, payment, coinbase>>
  BY <1>1 DEF WorldStill, worldVars
<1>6. ReaderTypeOK'
  BY <1>3, <1>4 DEF ReaderTypeOK
<1>7. reader'.view # None => LinkRead'
  BY <1>4, <1>5 DEF AnswersInv, LinkRead, LinkOf, PaidOut
<1>8. AnswersInv'
  BY <1>1, <1>4, <1>5, <1>7, StillWorld DEF AnswersInv
<1>9. ResultInv' /\ StepInv'
  BY <1>4, <1>5 DEF ResultInv, PaidOut, StepInv
<1> QED
  BY <1>1, <1>6, <1>8, <1>9, StillWorld

(* The invariant holds of every step.                                      *)
LEMMA NextKeepsInv ==
  ASSUME StatusInv, [NextStatus]_statusVars
  PROVE  StatusInv'
<1>1. CASE Start
  BY <1>1, StartKeepsInv
<1>2. CASE ReadProvider
  BY <1>2, ReadProviderKeepsInv
<1>3. CASE ReadStatus
  BY <1>3, ReadStatusKeepsInv
<1>4. CASE ReadPayment
  BY <1>4, ReadPaymentKeepsInv
<1>5. CASE Judge
  BY <1>5, JudgeKeepsInv
<1>6. CASE Poll
  BY <1>6, PollKeepsInv
<1>7. CASE ReadFresh
  BY <1>7, ReadFreshKeepsInv
<1>8. CASE Show
  BY <1>8, ShowKeepsInv
<1>9. CASE SendHere \/ RecordLost
  BY <1>9, SendHereOnward, WorldMovesOn
<1>10. CASE EvidenceArrives
  BY <1>10, EvidenceArrivesOnward, WorldMovesOn
<1>11. CASE IntentMoves
  BY <1>11, IntentMovesOnward, WorldMovesOn
<1>12. CASE OfferMoves
  BY <1>12, OfferMovesOnward, WorldMovesOn
<1>13. CASE RouterMoves \/ LinkUsed \/ LinkSettles
  BY <1>13, LinkMovesOnward, WorldMovesOn
<1>14. CASE Tick
  BY <1>14, TickOnward, WorldMovesOn
<1>15. CASE UNCHANGED statusVars
  <2>1. WorldInv'
    BY <1>15 DEF statusVars, worldVars, StatusInv, WorldInv, IntentOf, LinkOf
  <2>2. Onward
    BY <1>15 DEF statusVars, worldVars, Onward, PaidOut, Evidence, MoneySeen, ReceiptSeen,
                 ZecMoneySeen, SentHere
  <2> QED
    BY <2>1, <2>2, WorldMovesOn
<1> QED
  BY <1>1, <1>2, <1>3, <1>4, <1>5, <1>6, <1>7, <1>8, <1>9, <1>10, <1>11, <1>12, <1>13, <1>14,
     <1>15
     DEF NextStatus, ReaderStepNext, WorldNext

LEMMA StatusInvariant == SafeSpecStatus => []StatusInv
<1>1. StatusInv /\ [NextStatus]_statusVars => StatusInv'
  BY NextKeepsInv
<1> QED
  BY InitStatusInv, <1>1, PTL DEF SafeSpecStatus

------------------------------------------------------------------------------
(* Every variable keeps its type, and an order to be shown once more has a *)
(* deadline (resume.mjs hands finalWindow the deadline of its snapshot).   *)
THEOREM StatusTypeCorrect == SafeSpecStatus => []TypeOKStatus
<1>1. StatusInv => TypeOKStatus
  <2> SUFFICES ASSUME StatusInv PROVE TypeOKStatus
    OBVIOUS
  <2>1. /\ reader.at \in ReaderStep
        /\ reader.payment \in PaymentType \cup {None}
        /\ reader.view \in ViewType \cup {None}
    BY DEF StatusInv, ReaderTypeOK, ReaderType
  <2>2. reader.at \in {"fresh", "show"} => reader.result.deadline \in Nat
    BY DEF StatusInv, StepInv, Bounds
  <2> QED
    BY <2>1, <2>2 DEF TypeOKStatus, StatusInv, WorldInv, IntentOf, LinkOf
<1> QED
  BY <1>1, StatusInvariant, PTL

(* An order is reported settled only when the merchant's own resource, or  *)
(* the payout of a Bitrefill order, says so, whatever the router reported  *)
(* and whoever used up the link (paymentOutcomeFor, merchantSettlementLayer). *)
THEOREM SettledOnlyByMerchant == SafeSpecStatus => []SettledIsReal
<1>1. StatusInv => SettledIsReal
  <2> SUFFICES ASSUME StatusInv, reader.result # None, PaymentOutcome(reader.result) = "settled"
               PROVE  /\ MerchantLayer(reader.result) = "confirmed"
                      /\ IF order.bitrefill THEN Rank[payment.status] >= Rank["payout_completed"]
                                            ELSE coinbase.settled
    BY DEF SettledIsReal
  <2> DEFINE r == reader.result
  <2>1. r \in ResultType
    BY DEF StatusInv, ReaderTypeOK, ReaderType
  <2>2. /\ r.bitrefill => order.bitrefill
        /\ r.bitrefill /\ r.state = "settled" => PaidOut(payment)
        /\ r.settled = TRUE => ~order.bitrefill /\ coinbase.settled
    BY DEF StatusInv, ResultInv
  <2>3. r.state = "settled" /\ MerchantSettled(r) /\ (~r.bitrefill => r.router # "failed")
    BY <2>1, OutcomeJudged
  <2> HIDE DEF r
  <2>4. ~r.bitrefill => r.settled = TRUE
    BY <2>3 DEF MerchantSettled
  <2>5. MerchantLayer(r) = "confirmed"
    <3>1. None # TRUE
      BY OrderStatusAssumption DEF OrderStatusAssumption
    <3>2. CASE r.bitrefill
      BY <2>3, <3>2 DEF MerchantLayer
    <3>3. CASE ~r.bitrefill
      <4>1. r.settled = TRUE /\ r.settled # None /\ r.router # "failed"
        BY <2>3, <2>4, <3>1, <3>3
      <4> QED
        BY <3>3, <4>1 DEF MerchantLayer
    <3> QED
      BY <3>2, <3>3
  <2>6. PaidOut(payment) => Rank[payment.status] >= Rank["payout_completed"]
    BY RankOf DEF PaidOut
  <2> QED
    BY <2>2, <2>3, <2>4, <2>5, <2>6 DEF r
<1> QED
  BY <1>1, StatusInvariant, PTL

(* status and resume judge alike: what one would resume the other would    *)
(* let be paid, and nothing else (resumeVerdict against nextActionFor).    *)
THEOREM ResumeAgreesWithStatus == SafeSpecStatus => []ResumableIffPayable
<1>1. StatusInv => ResumableIffPayable
  <2>1. StatusInv /\ reader.result # None => reader.result \in ResultType
    BY DEF StatusInv, ReaderTypeOK, ReaderType
  <2> QED
    BY <2>1, ResumeJudged DEF ResumableIffPayable
<1> QED
  BY <1>1, StatusInvariant, PTL
------------------------------------------------------------------------------
(* Lemmas about the two steps that invite a payment.  Only Judge answers a *)
(* caller, and only Show shows a deposit.                                  *)
ShownAtEnd == reader.shown => reader.at = "done"

LEMMA ShownOnlyAtEnd == SafeSpecStatus => []ShownAtEnd
<1>1. InitStatus => ShownAtEnd
  BY DEF InitStatus, Idle, ShownAtEnd
<1>2. ASSUME StatusInv, ShownAtEnd, [NextStatus]_statusVars
      PROVE  ShownAtEnd'
  <2>1. reader \in ReaderType
    BY <1>2 DEF StatusInv, ReaderTypeOK
  <2>2. CASE reader' = reader
    BY <1>2, <2>2 DEF ShownAtEnd
  <2>3. CASE Start
    <3>1. PICK cmd \in {"query", "watch", "resume"}, byId, named \in BOOLEAN,
               timeout \in Timeouts :
            reader' = Begin([Idle EXCEPT !.cmd = cmd, !.byId = byId, !.named = named,
                                         !.timeout = timeout, !.started = now])
      BY <2>3 DEF Start
    <3> QED
      BY <3>1 DEF Begin, Idle, ShownAtEnd
  <2>4. CASE Poll
    <3>1. reader' = Begin(reader) /\ reader.at = "sleep"
      BY <2>4 DEF Poll, Awaiting
    <3> QED
      BY <1>2, <2>1, <3>1 DEF Begin, ReaderType, ShownAtEnd
  <2>5. CASE Show
    BY <2>1, <2>5 DEF Show, ReaderType, ShownAtEnd
  <2>6. CASE ReadProvider \/ ReadStatus \/ ReadPayment \/ ReadFresh
    <3>1. reader.at # "done" /\ reader'.shown = reader.shown
      BY <2>1, <2>6 DEF ReadProvider, ReadStatus, ReadPayment, ReadFresh, Awaiting, ReaderType
    <3> QED
      BY <1>2, <3>1 DEF ShownAtEnd
  <2>7. CASE Judge
    <3>1. reader.at # "done" /\ reader'.shown = reader.shown
      BY <2>1, <2>7 DEF Judge, Awaiting, ReaderType
    <3> QED
      BY <1>2, <3>1 DEF ShownAtEnd
  <2>8. CASE WorldNext \/ UNCHANGED statusVars
    BY <2>2, <2>8 DEF WorldNext, SendHere, RecordLost, EvidenceArrives, IntentMoves, OfferMoves,
         RouterMoves, LinkUsed, LinkSettles, Tick, Moves, statusVars, worldVars
  <2> QED
    BY <1>2, <2>3, <2>4, <2>5, <2>6, <2>7, <2>8 DEF NextStatus, ReaderStepNext
<1> QED
  BY <1>1, <1>2, StatusInvariant, PTL DEF SafeSpecStatus

LEMMA InvitingStep ==
  ASSUME StatusInv, ShownAtEnd, NextStatus
  PROVE  /\ Permitted # {} =>
              /\ reader'.result = Result(reader)
              /\ Permitted = Permits(reader'.result)
         /\ Shows => reader.at = "show" /\ MayShow(reader.payment, reader.result)
<1>1. reader \in ReaderType
  BY DEF StatusInv, ReaderTypeOK
<1>2. WorldNext => reader' = reader
  BY DEF WorldNext, SendHere, RecordLost, EvidenceArrives, IntentMoves, OfferMoves,
         RouterMoves, LinkUsed, LinkSettles, Tick, Moves
<1>3. ASSUME reader.at = "judge", reader'.at # "judge"
      PROVE  reader'.result = Result(reader)
  <2>1. Judge
    BY <1>2, <1>3 DEF NextStatus, ReaderStepNext, Start, ReadProvider, ReadStatus, ReadPayment,
                      Poll, ReadFresh, Show, Awaiting
  <2> DEFINE result == Result(reader)
  <2> HIDE DEF result
  <2>2. \E l, w, a : reader' = [reader EXCEPT !.payment = None, !.view = None, !.result = result,
                                  !.until = l, !.wake = w, !.at = a]
    BY <2>1 DEF Judge, result
  <2> QED
    BY <1>1, <2>2 DEF ReaderType, result
<1>4. ASSUME reader.at = "show", reader'.shown
      PROVE  MayShow(reader.payment, reader.result)
  <2>1. ~reader.shown
    BY <1>4 DEF ShownAtEnd
  <2>2. Show
    BY <1>2, <1>4, <2>1 DEF NextStatus, ReaderStepNext, Start, ReadProvider, ReadStatus,
                            ReadPayment, Judge, Poll, ReadFresh, Awaiting
  <2>3. PICK listed \in BOOLEAN :
          reader' = [reader EXCEPT !.at = "done", !.payment = None,
                       !.shown = MayShow(reader.payment, reader.result) /\ ~listed]
    BY <2>2 DEF Show
  <2> DEFINE may == MayShow(reader.payment, reader.result)
  <2> HIDE DEF may
  <2>4. reader' = [reader EXCEPT !.at = "done", !.payment = None, !.shown = may /\ ~listed]
    BY <2>3 DEF may
  <2>5. reader'.shown = (may /\ ~listed)
    BY <1>1, <2>4 DEF ReaderType
  <2>6. may
    BY <1>4, <2>5
  <2> QED
    BY <2>6 DEF may
<1> QED
  BY <1>3, <1>4 DEF Permitted, Shows

(* The last check of resume, on the intent read a moment ago: no money on  *)
(* it, and time left before its deadline, its lock and all that bounded    *)
(* the snapshot.                                                           *)
LEMMA ShowJudged ==
  ASSUME StatusInv, reader.at = "show", MayShow(reader.payment, reader.result)
  PROVE  /\ ~MoneySeen(reader.payment) /\ ~ZecMoneySeen(reader.payment.zec)
         /\ InTime(reader.payment)
<1> DEFINE p == reader.payment
           bound == reader.result.deadline
           other == reader.result.quote
           native == order.family = "native"
           lock == IF order.family = "zec" THEN p.quote
                   ELSE PriceLockFor(native, p.quote, {other})
           intent == IF p.expiresAt = None THEN bound ELSE p.expiresAt
           j == CheckExpiry(now, intent, bound, Absent, lock)
<1>1. /\ IntentOf(p) /\ reader.result \in ResultType /\ Bounds(bound)
  BY DEF StatusInv, StepInv
<1>2. p.quote \in Nat \cup {None} /\ other \in Nat \cup {None, Absent} /\ bound \in Nat
  BY <1>1 DEF IntentOf, PaymentType, ResultType, Bounds
<1>3. now \in Nat /\ order \in OrderType
  BY InHand DEF StatusInv
<1>4. /\ order.expiresAt \in Nat /\ order.linkExpiry \in Nat
      /\ order.kept \in Nat \cup {None} /\ order.lock \in Nat \cup {None}
      /\ order.bitrefill \in BOOLEAN
  BY <1>3 DEF OrderType
<1>5. None \notin Nat /\ Margin \in Nat
  BY DeadlinesAssumption DEF DeadlinesAssumption
<1>6. intent = order.expiresAt
  BY <1>1, <1>4, <1>5 DEF IntentOf
<1>7. /\ lock \in Nat \cup {None, Absent}
      /\ order.family \in {"native", "zec"} /\ p.quote \in Nat => lock \in Nat /\ lock <= p.quote
  <2> DEFINE l == PriceLockFor(native, p.quote, {other})
  <2>1. native \in BOOLEAN
    OBVIOUS
  <2> HIDE DEF native, p, other
  <2>2. /\ l \in Nat \cup {None, Absent}
        /\ native => \A d \in {p.quote, other} : d \in Nat => l \in Nat /\ l <= d
    BY <1>2, <2>1, LockOfNative
  <2> HIDE DEF l
  <2>3. lock = IF order.family = "zec" THEN p.quote ELSE l
    BY DEF l
  <2>4. order.family = "native" => native
    BY DEF native
  <2> QED
    BY <1>2, <2>2, <2>3, <2>4
<1>8. /\ ReuseGuard(p, order.family, Requested(p)).code = None
      /\ j.code = None
  BY DEF MayShow
<1>9. ~MoneySeen(p) /\ ~ZecMoneySeen(p.zec)
  <2>1. "ORDER_ALREADY_FUNDED" # None
    BY OrderStatusAssumption DEF OrderStatusAssumption
  <2>2. ~(MoneySeen(p) \/ (order.family = "zec" /\ ZecMoneySeen(p.zec)))
    BY <1>8, <2>1 DEF ReuseGuard, Guarded
  <2> QED
    BY <1>1, <2>2 DEF IntentOf, ZecMoneySeen
<1> HIDE DEF lock
<1>10. InTime(p)
  <2> DEFINE Far(d) == d \in Nat => d - now > Margin
  <2>1. intent \in Nat \cup {None} /\ bound \in Nat \cup {None, Absent}
    BY <1>2, <1>4, <1>6
  <2> HIDE DEF intent, bound
  <2>2. ExpiryOK(j, now, intent, bound, lock)
    BY <1>3, <1>7, <2>1, ExpiryChecked
  <2> HIDE DEF j, p
  <2>3. Far(order.expiresAt) /\ Far(bound) /\ Far(lock)
    BY <1>6, <1>8, <2>2 DEF ExpiryOK
  <2>4. ~order.bitrefill => Far(order.linkExpiry)
    BY <1>1, <1>2, <1>3, <1>4, <1>5, <2>3 DEF Bounds
  <2>5. Far(order.kept)
    BY <1>1, <1>2, <1>3, <1>4, <1>5, <2>3 DEF Bounds
  <2>6. order.family \in {"native", "zec"} => Far(p.quote)
    BY <1>2, <1>3, <1>5, <1>7, <2>3
  <2>7. order.bitrefill /\ order.family \notin {"native", "zec"} => Far(p.quote)
    BY <1>1, <1>2, <1>3, <1>4, <1>5, <2>3 DEF Bounds, IntentOf
  <2> QED
    BY <1>2, <1>4, <2>3, <2>4, <2>5, <2>6, <2>7 DEF InTime, PromisedDeadlines
<1> QED
  BY <1>9, <1>10
------------------------------------------------------------------------------
(* Nobody is told to pay, or to make a new order, after the backend showed *)
(* money of any kind or this machine sent, in whatever order the evidence  *)
(* arrives and whichever answers are lost (nextActionFor, resumeVerdict    *)
(* and the reuse guard of resume).                                         *)
THEOREM NeverInvitedTwice == SafeSpecStatus => NeverPayAgain
<1>1. ASSUME StatusInv, ShownAtEnd, NextStatus, Permitted # {} \/ Shows
      PROVE  /\ ~reader.asked
             /\ ~MoneySeen(reader.payment) /\ ~ZecMoneySeen(reader.payment.zec)
             /\ Permitted # {} => ~local.send
  <2>1. CASE Permitted # {}
    <3> DEFINE r == Result(reader)
    <3>1. ResultOK(r) /\ r \in ResultType
      BY <1>1, ResultJudged DEF StatusInv, ResultOK
    <3>2. Permits(r) # {}
      BY <1>1, <2>1, InvitingStep
    <3> HIDE DEF r
    <3>3. Unpaid(r)
      BY <3>1, <3>2, PermitsJudged
    <3> QED
      BY <1>1, <3>1, <3>3, NothingWasVisible
  <2>2. CASE Permitted = {} /\ Shows
    <3>1. reader.at = "show" /\ MayShow(reader.payment, reader.result)
      BY <1>1, <2>2, InvitingStep
    <3>2. ~reader.asked
      BY <1>1, <3>1 DEF StatusInv, StepInv
    <3> QED
      BY <1>1, <2>2, <3>1, <3>2, ShowJudged
  <2> QED
    BY <1>1, <2>1, <2>2
<1> DEFINE P == Permitted # {} \/ Shows =>
                  /\ ~reader.asked
                  /\ ~MoneySeen(reader.payment)
                  /\ ~ZecMoneySeen(reader.payment.zec)
                  /\ Permitted # {} => ~local.send
<1>2. StatusInv /\ ShownAtEnd /\ [NextStatus]_statusVars => [P]_statusVars
  BY <1>1
<1>3. SafeSpecStatus => [][P]_statusVars
  <2> HIDE DEF P
  <2> QED
    BY <1>2, StatusInvariant, ShownOnlyAtEnd, PTL DEF SafeSpecStatus
<1> QED
  BY <1>3 DEF NeverPayAgain, P

(* A caller told to send, or shown a deposit, has more than the margin     *)
(* left before every deadline this machine knows of and before the live    *)
(* lock it read, however long the answers took (sendWindowFor of status,   *)
(* finalWindow of resume).                                                 *)
THEOREM AlwaysInvitedInTime == SafeSpecStatus => InvitedInTime
<1>1. ASSUME StatusInv, ShownAtEnd, NextStatus, ("send" \in Permitted) \/ Shows
      PROVE  InTime(reader.payment)
  <2>1. CASE "send" \in Permitted
    <3> DEFINE r == Result(reader)
    <3>1. ResultOK(r) /\ r \in ResultType
      BY <1>1, ResultJudged DEF StatusInv, ResultOK
    <3>2. "send" \in Permits(r)
      BY <1>1, <2>1, InvitingStep
    <3> HIDE DEF r
    <3> QED
      BY <3>1, <3>2, ResumeJudged DEF ResultOK
  <2>2. CASE Shows
    BY <1>1, <2>2, InvitingStep, ShowJudged
  <2> QED
    BY <1>1, <2>1, <2>2
<1> DEFINE P == ("send" \in Permitted) \/ Shows =>
                  \A d \in PromisedDeadlines(reader.payment) : d - now > Margin
<1>2. StatusInv /\ ShownAtEnd /\ [NextStatus]_statusVars => [P]_statusVars
  BY <1>1 DEF InTime
<1>3. SafeSpecStatus => [][P]_statusVars
  <2> HIDE DEF P
  <2> QED
    BY <1>2, StatusInvariant, ShownOnlyAtEnd, PTL DEF SafeSpecStatus
<1> QED
  BY <1>3 DEF InvitedInTime, P
==============================================================================
