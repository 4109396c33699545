---------------------------- MODULE SendingProofs ----------------------------
(***************************************************************************)
(* Theorems about the two other sides of sending: the wallet the money     *)
(* leaves and the amount of it.                                            *)
(*                                                                         *)
(* One wallet pays several orders at once, for any number of orders, forms *)
(* of payment, balances, prices and fees: an order is locked by a transfer *)
(* that cannot succeed only after the wallet was used otherwise or the     *)
(* fee outgrew the buffer, and a record claims no more than the chain      *)
(* shows.  Neither property speaks of the checks before the signature.     *)
(* The invariants add what an undisturbed order's checks have established, *)
(* and where a record and a transfer stand while the invocation runs.      *)
(*                                                                         *)
(* Then amounts, for any digits, lengths and decimals: a decimal converts  *)
(* to exactly the units it is worth or not at all, and two amounts compare *)
(* as what they are worth.  A string of digits is read from the left by a  *)
(* recursive function.  What it returns for every string is proved by a    *)
(* least counterexample: of the lengths at which a fact fails, if any, the *)
(* relation < is well founded on Nat gives the least, and the fact holds   *)
(* one digit earlier.                                                      *)
(***************************************************************************)
EXTENDS WalletSend, Amounts, FiniteSetTheorems, WellFoundedInduction, SequenceTheorems, TLAPS

Early == {"start", "funds", "coin", "ready", "signed"}

(* What the checks of an order whose wallet was used by nobody else have   *)
(* established, up to the moment its transfer is on the chain.             *)
FundsSeen(o) ==
  /\ Held(o) >= form[o].due
  /\ family = "solana" => AccountTakes(form[o])

FeeCovered(o) ==
  IF family = "evm"
    THEN 100 * (wallet.coin - Value(o)) >= (100 + BufferPct) * pay[o].quoted
    ELSE \/ wallet.coin = SolFee + Value(o)
         \/ wallet.coin >= SolFee + Value(o) + RentMin

(* Once signed, on an EVM chain also with the buffer to spare.             *)
CostCovered(o) ==
  /\ Affordable(o)
  /\ family = "evm" => FeeCovered(o) /\ ~Outgrown(o, Cost(o))

NonceFree(o) ==
  family = "evm" =>
    /\ pay[o].nonce >= Len(mined)
    /\ \A p \in Orders \ {o} : transfer[p] = "posted" => pay[p].nonce # pay[o].nonce

Covered(o) ==
  /\ pay[o].at \in {"funds", "coin", "ready", "signed", "claimed"} \/ transfer[o] = "posted" =>
       FundsSeen(o)
  /\ pay[o].at = "coin" => pay[o].coin = wallet.coin
  /\ pay[o].at = "ready" => FeeCovered(o)
  /\ pay[o].at \in {"signed", "claimed"} \/ transfer[o] = "posted" => CostCovered(o)
  /\ pay[o].at \in {"signed", "claimed"} => NonceFree(o)

(* Where the record and the transfer stand.                                *)
RecordHonest(o) ==
  /\ outcome[o] = "submitted" => transfer[o] # "unsent"
  /\ outcome[o] = "ambiguous" => transfer[o] # "unsent" \/ NonceUsed(o)
  /\ outcome[o] = "confirmed" =>
       transfer[o] = "landed" \/ (NonceUsed(o) /\ mined[pay[o].nonce + 1])

Recorded(o) ==
  /\ pay[o].at \in Early => outcome[o] = "none" /\ transfer[o] = "unsent"
  /\ pay[o].at = "claimed" => outcome[o] = "claimed" /\ transfer[o] = "unsent"
  /\ pay[o].at \in {"unheard", "accepted"} => outcome[o] = "claimed"
  /\ pay[o].at = "waiting" => outcome[o] = "submitted"
  /\ pay[o].at = "accepted" => transfer[o] # "unsent"
  /\ RecordHonest(o)

WalletInv ==
  /\ TypeOKWallet
  /\ \A o \in Orders : Recorded(o)
  /\ \A o \in Orders : o \notin disturbed => Covered(o)
  /\ LockedOnlyIfDisturbed

------------------------------------------------------------------------------
(* Lemmas about numbers.  A nonempty set of naturals has a least element.  *)
LEMMA LeastOfNat ==
  ASSUME NEW S \in SUBSET Nat, S # {}
  PROVE  Min(S) \in S
<1> DEFINE R == OpToRel(<, Nat)
<1>1. R = {ss \in Nat \X Nat : ss[1] < ss[2]}
  BY DEF OpToRel
<1>2. IsWellFoundedOn(R, Nat)
  BY NatLessThanWellFounded
<1> HIDE DEF R
<1>3. PICK x \in S : \A y \in S : ~(<<y, x>> \in R)
  BY <1>2, WFMin
<1>4. \A y \in S : ~(y < x)
  BY <1>1, <1>3
<1>5. \A y \in S : x <= y
  BY <1>4
<1> QED
  BY <1>5 DEF Min

(* As many orders as there are cannot use one nonce more than that.        *)
LEMMA NonceExists ==
  ASSUME TypeOKWallet
  PROVE  /\ NextNonce \in Nat /\ NextNonce >= Len(mined)
         /\ \A o \in Orders : ~(transfer[o] = "posted" /\ pay[o].nonce = NextNonce)
<1> DEFINE K == Cardinality(Orders)
           L == Len(mined)
           N == L..(L + K)
           Used(o, n) == transfer[o] = "posted" /\ pay[o].nonce = n
           S == {n \in N : \A o \in Orders : ~Used(o, n)}
<1>1. K \in Nat /\ IsFiniteSet(Orders)
  BY WalletSendAssumption, FS_CardinalityType DEF WalletSendAssumption
<1>2. L \in Nat
  BY LenProperties DEF TypeOKWallet
<1>3. IsFiniteSet(N) /\ Cardinality(N) = K + 1
  <2>1. L \in Int /\ L + K \in Int /\ ~(L > L + K) /\ (L + K) - L + 1 = K + 1
    BY <1>1, <1>2
  <2> HIDE DEF L, K
  <2> QED
    BY <2>1, FS_Interval
<1>4. S # {}
  <2> SUFFICES ASSUME S = {} PROVE FALSE
    OBVIOUS
  <2> DEFINE f == [n \in N |-> CHOOSE o \in Orders : Used(o, n)]
  <2>1. \A n \in N : \E o \in Orders : Used(o, n)
    OBVIOUS
  <2>2. \A n \in N : f[n] \in Orders /\ Used(f[n], n)
    BY <2>1
  <2>3. f \in [N -> Orders]
    BY <2>2
  <2>4. Cardinality(Orders) < Cardinality(N)
    BY <1>1, <1>3
  <2> HIDE DEF f, N, K
  <2>5. PICK x \in N, y \in N : x # y /\ f[x] = f[y]
    BY <1>1, <1>3, <2>3, <2>4, FS_PigeonHole
  <2> QED
    BY <2>2, <2>5
<1>5. S \in SUBSET Nat /\ NextNonce = Min(S)
  BY <1>1, <1>2 DEF NextNonce
<1> HIDE DEF S
<1>6. NextNonce \in S
  BY <1>4, <1>5, LeastOfNat
<1> QED
  BY <1>1, <1>2, <1>6 DEF S

(* The fee the precheck asks for is what the network charges at the same   *)
(* prices, and gasBufferPct more.                                          *)
LEMMA FeeIsBuffered ==
  ASSUME price \in Nat, dataFee \in Nat
  PROVE  /\ EvmFee \in Nat /\ EvmCost(price, dataFee) \in Nat
         /\ 100 * EvmFee >= (100 + BufferPct) * EvmCost(price, dataFee)
<1> DEFINE K == 100 + BufferPct
<1>1. Gas \in Nat /\ BufferPct \in Nat /\ K \in Nat
  BY WalletSendAssumption DEF WalletSendAssumption
<1>2. \A a, b \in Nat : a * b \in Nat /\ a + b \in Nat
  OBVIOUS
<1> HIDE DEF K
<1>3. ASSUME NEW a \in Nat PROVE Buffered(a) \in Nat /\ 100 * Buffered(a) >= a * K
  <2> DEFINE m == a * K
  <2>1. m \in Nat
    BY <1>1, <1>2
  <2> HIDE DEF m
  <2>2. (m + 99) \div 100 \in Nat /\ 100 * ((m + 99) \div 100) >= m
    BY <2>1
  <2>3. Buffered(a) = (m + 99) \div 100
    BY DEF m, K, Buffered
  <2> QED
    BY <2>2, <2>3 DEF m
<1> DEFINE g == Buffered(Gas)
           d == Buffered(dataFee)
<1>4. g \in Nat /\ d \in Nat /\ 100 * g >= Gas * K /\ 100 * d >= dataFee * K
  BY <1>1, <1>3
<1> HIDE DEF g, d
<1>5. g * price \in Nat /\ Gas * price \in Nat /\ Gas * K \in Nat /\ dataFee * K \in Nat
  BY <1>1, <1>2, <1>4
<1>6. (100 * g) * price >= (Gas * K) * price
  <2>1. \A x, y, p \in Nat : x >= y => x * p >= y * p
    OBVIOUS
  <2> QED
    BY <1>2, <1>4, <1>5, <2>1
<1>7. 100 * (g * price + d) = (100 * g) * price + 100 * d
  BY <1>4, <1>5
<1>8. K * (Gas * price + dataFee) = (Gas * K) * price + dataFee * K
  BY <1>1
<1>9. 100 * (g * price + d) >= K * (Gas * price + dataFee)
  BY <1>2, <1>4, <1>5, <1>6, <1>7, <1>8
<1>10. EvmFee = g * price + d /\ EvmCost(price, dataFee) = Gas * price + dataFee
  BY DEF g, d, EvmFee, EvmCost
<1> QED
  BY <1>2, <1>4, <1>5, <1>9, <1>10 DEF K

(* A balance that covers the buffered fee covers any cost within it.       *)
LEMMA BufferSuffices ==
  ASSUME NEW coin \in Nat, NEW value \in Nat, NEW cost \in Nat, NEW seen \in Nat,
         100 * (coin - value) >= (100 + BufferPct) * seen,
         ~(100 * cost > (100 + BufferPct) * seen)
  PROVE  coin - cost - value >= 0
<1> DEFINE m == (100 + BufferPct) * seen
<1>1. m \in Nat
  <2>1. BufferPct \in Nat
    BY WalletSendAssumption DEF WalletSendAssumption
  <2> QED
    BY <2>1
<1>2. 100 * (coin - value) >= m /\ ~(100 * cost > m)
  OBVIOUS
<1> HIDE DEF m
<1> QED
  BY <1>1, <1>2

LEMMA CostIsNat ==
  ASSUME TypeOKWallet, NEW o \in Orders
  PROVE  /\ Cost(o) \in Nat /\ Value(o) \in Nat /\ SolFee \in Nat /\ RentMin \in Nat
         /\ EvmCost(price, dataFee) \in Nat /\ form[o] \in FormType /\ form[o].due \in Nat
         /\ wallet.coin \in Nat /\ wallet.tokens \in Nat /\ pay[o] \in PayType
         /\ Held(o) \in Nat
<1>1. /\ Gas \in Nat /\ dataFee \in Nat /\ SolFee \in Nat /\ RentMin \in Nat
      /\ pay[o] \in PayType /\ form[o] \in FormType /\ price \in Nat
      /\ wallet.coin \in Nat /\ wallet.tokens \in Nat
  BY WalletSendAssumption DEF WalletSendAssumption, TypeOKWallet
<1>2. \A a, b \in Nat : a * b \in Nat /\ a + b \in Nat
  OBVIOUS
<1>3. EvmCost(price, dataFee) \in Nat /\ EvmCost(pay[o].price, dataFee) \in Nat
  BY <1>1, <1>2 DEF EvmCost, PayType
<1> QED
  BY <1>1, <1>3 DEF Cost, Value, Held, FormType
------------------------------------------------------------------------------
LEMMA InitWalletInv == InitWallet => WalletInv
<1> SUFFICES ASSUME InitWallet PROVE WalletInv
  OBVIOUS
<1>1. NotBegun \in PayType /\ NotBegun.at = "start"
  BY DEF NotBegun, PayType
<1>2. /\ form \in [Orders -> FormType] /\ price \in Nat /\ dataFee \in Nat
      /\ wallet \in [coin : Nat, tokens : Nat, moves : 0..MaxWorld]
  BY WalletSendAssumption DEF WalletSendAssumption, InitWallet
<1>3. TypeOKWallet
  BY <1>1, <1>2 DEF InitWallet, TypeOKWallet
<1>4. \A o \in Orders : Recorded(o) /\ Covered(o)
  BY <1>1 DEF InitWallet, Recorded, RecordHonest, Early, Covered
<1> QED
  BY <1>3, <1>4 DEF WalletInv, InitWallet, LockedOnlyIfDisturbed

(* The chain only grows, and no transfer becomes unsent again.             *)
ChainGrows ==
  /\ family' = family
  /\ Len(mined') \in Nat /\ Len(mined) <= Len(mined')
  /\ \A i \in 1..Len(mined) : mined'[i] = mined[i]
  /\ \A o \in Orders : /\ transfer[o] # "unsent" => transfer'[o] # "unsent"
                       /\ transfer[o] = "landed" => transfer'[o] = "landed"

LEMMA ChainStays ==
  ASSUME TypeOKWallet, UNCHANGED <<family, mined, transfer>>
  PROVE  ChainGrows
BY LenProperties DEF TypeOKWallet, ChainGrows

LEMMA HonestCarried ==
  ASSUME TypeOKWallet, ChainGrows, NEW o \in Orders, RecordHonest(o),
         outcome'[o] = outcome[o], pay'[o].nonce = pay[o].nonce
  PROVE  RecordHonest(o)'
<1>1. Len(mined) \in Nat /\ pay[o].nonce \in Nat
  BY LenProperties DEF TypeOKWallet, PayType
<1>2. NonceUsed(o) => NonceUsed(o)' /\ mined'[pay[o].nonce + 1] = mined[pay[o].nonce + 1]
  BY <1>1 DEF NonceUsed, ChainGrows
<1> QED
  BY <1>2 DEF RecordHonest, ChainGrows

LEMMA RecordedCarried ==
  ASSUME TypeOKWallet, ChainGrows, NEW o \in Orders, Recorded(o),
         outcome'[o] = outcome[o], pay'[o] = pay[o],
         transfer[o] = "unsent" => transfer'[o] = "unsent"
  PROVE  Recorded(o)'
<1>1. RecordHonest(o)'
  BY HonestCarried DEF Recorded
<1>2. transfer[o] # "unsent" => transfer'[o] # "unsent"
  BY DEF ChainGrows
<1> QED
  BY <1>1, <1>2 DEF Recorded

LEMMA CoveredCarried ==
  ASSUME NEW o \in Orders, Covered(o), UNCHANGED <<family, form, dataFee, mined>>,
         wallet'.coin = wallet.coin, wallet'.tokens = wallet.tokens, pay'[o] = pay[o],
         transfer'[o] = "posted" => transfer[o] = "posted",
         \A p \in Orders \ {o} : transfer'[p] = "posted" =>
           transfer[p] = "posted" /\ pay'[p].nonce = pay[p].nonce
  PROVE  Covered(o)'
<1>1. FundsSeen(o) => FundsSeen(o)'
  BY DEF FundsSeen, Held, AccountTakes
<1>2. FeeCovered(o) => FeeCovered(o)'
  BY DEF FeeCovered, Value
<1>3. NonceFree(o) => NonceFree(o)'
  BY DEF NonceFree
<1>4. CostCovered(o) => CostCovered(o)'
  BY <1>2 DEF CostCovered, Outgrown, Affordable, Cost, EvmCost, Value
<1> QED
  BY <1>1, <1>2, <1>3, <1>4 DEF Covered

(* An order whose checks have not begun, or whose transfer is over, has    *)
(* nothing to be covered.                                                  *)
LEMMA NothingToCover ==
  ASSUME NEW o \in Orders, transfer[o] # "posted",
         pay[o].at \notin {"funds", "coin", "ready", "signed", "claimed"}
  PROVE  Covered(o)
BY DEF Covered

(* Steps of one invocation that leave the chain alone.                     *)
LEMMA InvocationRuns ==
  ASSUME WalletInv, NEW o \in Orders, NEW r \in PayType, pay' = [pay EXCEPT ![o] = r],
         UNCHANGED <<family, form, price, dataFee, wallet, mined, transfer, short>>,
         disturbed' = disturbed \/ disturbed' = disturbed \cup {o},
         NEW s \in {"none", "claimed", "submitted", "confirmed", "ambiguous", "failed"},
         outcome' = [outcome EXCEPT ![o] = s],
         transfer[o] = "posted" => r.nonce = pay[o].nonce,
         Recorded(o)',
         o \notin disturbed' => Covered(o)'
  PROVE  WalletInv'
<1>1. /\ TypeOKWallet /\ LockedOnlyIfDisturbed
      /\ pay \in [Orders -> PayType] /\ outcome \in [Orders ->
           {"none", "claimed", "submitted", "confirmed", "ambiguous", "failed"}]
  BY DEF WalletInv, TypeOKWallet
<1>2. TypeOKWallet'
  <2>1. /\ pay' \in [Orders -> PayType] /\ disturbed' \subseteq Orders
        /\ outcome' \in [Orders ->
             {"none", "claimed", "submitted", "confirmed", "ambiguous", "failed"}]
    BY <1>1 DEF TypeOKWallet
  <2> QED
    BY <1>1, <2>1 DEF TypeOKWallet
<1>3. ChainGrows
  BY <1>1, ChainStays
<1>4. \A p \in Orders : p # o => pay'[p] = pay[p] /\ outcome'[p] = outcome[p]
  BY <1>1
<1>5. \A p \in Orders : Recorded(p)'
  <2> SUFFICES ASSUME NEW p \in Orders, p # o PROVE Recorded(p)'
    OBVIOUS
  <2>1. Recorded(p) /\ transfer' = transfer
    BY DEF WalletInv
  <2> QED
    BY <1>1, <1>3, <1>4, <2>1, RecordedCarried
<1>6. \A p \in Orders : p \notin disturbed' => Covered(p)'
  <2> SUFFICES ASSUME NEW p \in Orders, p # o, p \notin disturbed' PROVE Covered(p)'
    OBVIOUS
  <2>1. Covered(p) /\ pay'[p] = pay[p]
    BY <1>4 DEF WalletInv
  <2>2. \A q \in Orders \ {p} : transfer'[q] = "posted" =>
          transfer[q] = "posted" /\ pay'[q].nonce = pay[q].nonce
    BY <1>1
  <2> QED
    BY <2>1, <2>2, CoveredCarried
<1>7. LockedOnlyIfDisturbed'
  BY <1>1 DEF LockedOnlyIfDisturbed
<1> QED
  BY <1>2, <1>5, <1>6, <1>7 DEF WalletInv

(* The checks: what they read is what the wallet holds, and it covers the  *)
(* order as long as nobody else uses the wallet.                           *)
LEMMA CheckRuns ==
  ASSUME WalletInv, NEW o \in Orders, NEW from \in {"start", "funds", "coin"}, NEW ok,
         NEW r \in PayType, r.at \in {"funds", "coin", "ready"},
         CheckWallet(o, from, ok, r),
         ok /\ o \notin disturbed /\ pay'[o] = r => Covered(o)'
  PROVE  WalletInv'
<1>1. PICK heard \in BOOLEAN :
        pay' = [pay EXCEPT ![o] = IF heard /\ ok THEN r ELSE Stopped]
  BY DEF CheckWallet
<1> DEFINE n == IF heard /\ ok THEN r ELSE Stopped
<1>2. Stopped \in PayType /\ Stopped.at = "done"
  BY DEF Stopped, NotBegun, PayType
<1>3. TypeOKWallet /\ Recorded(o) /\ pay[o].at = from
  BY DEF WalletInv, CheckWallet
<1>4. UNCHANGED <<family, form, price, dataFee, wallet, mined, transfer, outcome, disturbed, short>>
  BY DEF CheckWallet
<1>5. n \in PayType /\ n.at \in {"funds", "coin", "ready", "done"} /\ pay' = [pay EXCEPT ![o] = n]
  BY <1>1, <1>2
<1>6. (n = r /\ ok) \/ n = Stopped
  OBVIOUS
<1> HIDE DEF n
<1>7. pay'[o] = n
  BY <1>3, <1>5 DEF TypeOKWallet
<1>8. outcome[o] = "none" /\ transfer[o] = "unsent" /\ outcome' = [outcome EXCEPT ![o] = "none"]
  BY <1>3, <1>4 DEF Recorded, Early, TypeOKWallet
<1>9. Recorded(o)'
  BY <1>4, <1>5, <1>7, <1>8 DEF Recorded, RecordHonest, Early
<1>10. o \notin disturbed' => Covered(o)'
  <2>1. CASE n = Stopped
    BY <1>2, <1>4, <1>7, <1>8, <2>1 DEF Covered
  <2>2. CASE n = r /\ ok
    BY <1>4, <1>7, <2>2
  <2> QED
    BY <1>6, <2>1, <2>2
<1> QED
  BY <1>4, <1>5, <1>8, <1>9, <1>10, InvocationRuns

LEMMA ReadFundsKeepsInv ==
  ASSUME WalletInv, NEW o \in Orders, ReadFunds(o)
  PROVE  WalletInv'
<1> DEFINE ok == Held(o) >= form[o].due /\ (family = "solana" => AccountTakes(form[o]))
           r  == [pay[o] EXCEPT !.at = "funds"]
<1>1. CheckWallet(o, "start", ok, r)
  BY DEF ReadFunds
<1>2. TypeOKWallet /\ Recorded(o) /\ pay[o].at = "start" /\ pay[o] \in PayType
  BY <1>1 DEF WalletInv, CheckWallet, TypeOKWallet
<1>3. r \in PayType /\ r.at = "funds"
  BY <1>2 DEF PayType
<1>4. UNCHANGED <<family, form, wallet, transfer>> /\ transfer[o] = "unsent"
  BY <1>1, <1>2 DEF CheckWallet, Recorded, Early
<1>5. ok => FundsSeen(o)'
  BY <1>4 DEF FundsSeen, Held, AccountTakes
<1> HIDE DEF ok, r
<1>6. ok /\ o \notin disturbed /\ pay'[o] = r => Covered(o)'
  BY <1>3, <1>4, <1>5 DEF Covered
<1> QED
  BY <1>1, <1>3, <1>6, CheckRuns

LEMMA ReadFeeCoinKeepsInv ==
  ASSUME WalletInv, NEW o \in Orders, ReadFeeCoin(o)
  PROVE  WalletInv'
<1> DEFINE r == [pay[o] EXCEPT !.at = "coin", !.coin = wallet.coin]
<1>1. CheckWallet(o, "funds", TRUE, r)
  BY DEF ReadFeeCoin
<1>2. TypeOKWallet /\ Recorded(o) /\ pay[o].at = "funds" /\ pay[o] \in PayType
  BY <1>1 DEF WalletInv, CheckWallet, TypeOKWallet
<1>3. r \in PayType /\ r.at = "coin" /\ r.coin = wallet.coin
  BY <1>2, CostIsNat DEF PayType
<1>4. UNCHANGED <<family, form, wallet, transfer>> /\ transfer[o] = "unsent"
  BY <1>1, <1>2 DEF CheckWallet, Recorded, Early
<1>5. o \notin disturbed => FundsSeen(o)'
  BY <1>2, <1>4 DEF WalletInv, Covered, FundsSeen, Held, AccountTakes
<1> HIDE DEF r
<1>6. TRUE /\ o \notin disturbed /\ pay'[o] = r => Covered(o)'
  BY <1>3, <1>4, <1>5 DEF Covered
<1> QED
  BY <1>1, <1>3, <1>6, CheckRuns

LEMMA CheckFeeKeepsInv ==
  ASSUME WalletInv, NEW o \in Orders, CheckFee(o)
  PROVE  WalletInv'
<1> DEFINE ok == pay[o].coin >= IF family = "evm" THEN EvmRequired(o) ELSE SolRequired(o)
           q  == IF family = "evm" THEN EvmCost(price, dataFee) ELSE 0
           r  == [pay[o] EXCEPT !.at = "ready", !.coin = 0, !.quoted = q]
<1>1. CheckWallet(o, "coin", ok, r)
  BY DEF CheckFee
<1>2. TypeOKWallet /\ Recorded(o) /\ pay[o].at = "coin" /\ pay[o] \in PayType
  BY <1>1 DEF WalletInv, CheckWallet, TypeOKWallet
<1>3. q \in Nat
  BY <1>2, FeeIsBuffered DEF TypeOKWallet
<1>4. r \in PayType /\ r.at = "ready" /\ r.quoted = q
  BY <1>2, <1>3 DEF PayType
<1>5. UNCHANGED <<family, form, wallet, transfer>> /\ transfer[o] = "unsent"
  BY <1>1, <1>2 DEF CheckWallet, Recorded, Early
<1>6. o \notin disturbed => FundsSeen(o)' /\ pay[o].coin = wallet.coin
  BY <1>2, <1>5 DEF WalletInv, Covered, FundsSeen, Held, AccountTakes
<1>7. ok /\ o \notin disturbed =>
        IF family = "evm" THEN 100 * (wallet.coin - Value(o)) >= (100 + BufferPct) * q
        ELSE \/ wallet.coin = SolFee + Value(o)
             \/ wallet.coin >= SolFee + Value(o) + RentMin
  <2>1. CASE family = "evm"
    <3>1. /\ EvmFee \in Nat /\ 100 * EvmFee >= (100 + BufferPct) * q
          /\ wallet.coin \in Nat /\ Value(o) \in Nat
      BY <1>2, <2>1, FeeIsBuffered, CostIsNat DEF TypeOKWallet
    <3>2. (100 + BufferPct) * q \in Nat
      BY <1>3, WalletSendAssumption DEF WalletSendAssumption
    <3>3. ok /\ o \notin disturbed => wallet.coin >= EvmFee + Value(o)
      BY <1>6, <2>1 DEF EvmRequired
    <3> HIDE DEF ok, q
    <3>4. wallet.coin >= EvmFee + Value(o) => 100 * (wallet.coin - Value(o)) >= 100 * EvmFee
      BY <3>1
    <3>5. 100 * (wallet.coin - Value(o)) \in Int /\ 100 * EvmFee \in Int
      BY <3>1
    <3> QED
      BY <2>1, <3>1, <3>2, <3>3, <3>4, <3>5
  <2>2. CASE family # "evm"
    BY <1>6, <2>2 DEF SolRequired
  <2> QED
    BY <2>1, <2>2
<1> HIDE DEF ok, q, r
<1>8. ok /\ o \notin disturbed /\ pay'[o] = r => FeeCovered(o)'
  BY <1>4, <1>5, <1>7 DEF FeeCovered, Value
<1>9. ok /\ o \notin disturbed /\ pay'[o] = r => Covered(o)'
  BY <1>4, <1>5, <1>6, <1>8 DEF Covered
<1> QED
  BY <1>1, <1>4, <1>9, CheckRuns
(* The signature: the price is within the fee that was checked, and the    *)
(* nonce is one that no transaction on its way uses.                       *)
LEMMA SignKeepsInv ==
  ASSUME WalletInv, NEW o \in Orders, SignTransfer(o)
  PROVE  WalletInv'
<1> DEFINE r == IF family = "evm"
                  THEN [pay[o] EXCEPT !.at = "signed", !.price = price, !.nonce = NextNonce]
                  ELSE [NotBegun EXCEPT !.at = "signed"]
<1>1. /\ TypeOKWallet /\ Recorded(o) /\ pay[o].at = "ready"
      /\ UNCHANGED <<family, form, price, dataFee, wallet, mined, transfer, outcome, short>>
      /\ pay' = [pay EXCEPT ![o] = r]
  BY DEF WalletInv, SignTransfer
<1>2. price \in Nat /\ NextNonce \in Nat /\ pay[o] \in PayType
  BY <1>1, NonceExists DEF TypeOKWallet
<1>3. /\ r \in PayType /\ r.at = "signed"
      /\ family = "evm" => r.price = price /\ r.nonce = NextNonce /\ r.quoted = pay[o].quoted
  BY <1>2 DEF NotBegun, PayType
<1> HIDE DEF r
<1>4. /\ outcome[o] = "none" /\ transfer[o] = "unsent"
      /\ pay'[o] = r /\ outcome' = [outcome EXCEPT ![o] = "none"]
  BY <1>1 DEF Recorded, Early, TypeOKWallet
<1>5. Recorded(o)'
  BY <1>1, <1>3, <1>4 DEF Recorded, RecordHonest, Early
<1>6. /\ disturbed' = disturbed \/ disturbed' = disturbed \cup {o}
      /\ o \notin disturbed' =>
           o \notin disturbed /\ (family = "evm" => ~Outgrown(o, EvmCost(price, dataFee)))
  BY DEF SignTransfer
<1>7. ASSUME o \notin disturbed' PROVE Covered(o)'
  <2>1. Covered(o) /\ (family = "evm" => ~Outgrown(o, EvmCost(price, dataFee)))
    BY <1>6, <1>7 DEF WalletInv
  <2>2. FundsSeen(o)'
    BY <1>1, <2>1 DEF Covered, FundsSeen, Held, AccountTakes
  <2>3. NonceFree(o)'
    <3>1. \A p \in Orders \ {o} : pay'[p] = pay[p]
      BY <1>1 DEF TypeOKWallet
    <3>2. /\ NextNonce >= Len(mined)
          /\ \A p \in Orders : ~(transfer[p] = "posted" /\ pay[p].nonce = NextNonce)
      BY <1>1, NonceExists
    <3> QED
      BY <1>1, <1>3, <1>4, <3>1, <3>2 DEF NonceFree
  <2>4. CostCovered(o)'
    <3>1. /\ wallet.coin \in Nat /\ Value(o) \in Nat /\ EvmCost(price, dataFee) \in Nat
          /\ SolFee \in Nat /\ RentMin \in Nat /\ pay[o].quoted \in Nat
      BY <1>1, CostIsNat DEF PayType
    <3>2. FeeCovered(o)
      BY <1>1, <2>1 DEF Covered
    <3>3. Value(o)' = Value(o) /\ wallet' = wallet /\ family' = family
      BY <1>1 DEF Value
    <3>4. CASE family = "evm"
      <4>1. Cost(o)' = EvmCost(price, dataFee)
        BY <1>1, <1>3, <1>4, <3>3, <3>4 DEF Cost, EvmCost
      <4>2. wallet.coin - EvmCost(price, dataFee) - Value(o) >= 0
        BY <2>1, <3>1, <3>2, <3>4, BufferSuffices DEF FeeCovered, Outgrown
      <4>3. Affordable(o)'
        BY <3>3, <3>4, <4>1, <4>2 DEF Affordable
      <4>4. pay'[o].quoted = pay[o].quoted
        BY <1>3, <1>4, <3>4
      <4>5. FeeCovered(o)' /\ ~Outgrown(o, Cost(o))'
        BY <2>1, <3>2, <3>3, <3>4, <4>1, <4>4 DEF FeeCovered, Outgrown
      <4> QED
        BY <4>3, <4>5 DEF CostCovered
    <3>5. CASE family # "evm"
      <4>1. Cost(o)' = SolFee
        BY <3>3, <3>5 DEF Cost
      <4>2. \/ wallet.coin - SolFee - Value(o) = 0
            \/ wallet.coin - SolFee - Value(o) >= RentMin
        BY <3>1, <3>2, <3>5 DEF FeeCovered
      <4>3. wallet.coin - SolFee - Value(o) >= 0
        BY <3>1, <4>2
      <4> QED
        BY <3>3, <3>5, <4>1, <4>2, <4>3 DEF CostCovered, Affordable
    <3> QED
      BY <3>4, <3>5
  <2> QED
    BY <1>3, <1>4, <2>2, <2>3, <2>4 DEF Covered
<1>8. transfer[o] = "posted" => r.nonce = pay[o].nonce
  BY <1>4
<1> QED
  BY <1>1, <1>3, <1>4, <1>5, <1>6, <1>7, <1>8, InvocationRuns

(* Later steps move the invocation on with its signature unchanged.        *)
LEMMA MovesOn ==
  ASSUME WalletInv, NEW o \in Orders,
         NEW to \in {"claimed", "waiting", "done"},
         pay' = [pay EXCEPT ![o].at = to],
         to = "claimed" => pay[o].at = "signed",
         UNCHANGED <<family, form, price, dataFee, wallet, mined, transfer, disturbed, short>>,
         NEW s \in {"none", "claimed", "submitted", "confirmed", "ambiguous", "failed"},
         outcome' = [outcome EXCEPT ![o] = s],
         Recorded(o)'
  PROVE  WalletInv'
<1> DEFINE r == [pay[o] EXCEPT !.at = to]
<1>1. TypeOKWallet /\ pay[o] \in PayType /\ pay' = [pay EXCEPT ![o] = r]
  BY DEF WalletInv, TypeOKWallet
<1>2. /\ r \in PayType /\ r.at = to /\ r.nonce = pay[o].nonce
      /\ r.price = pay[o].price /\ r.quoted = pay[o].quoted
  BY <1>1 DEF PayType
<1> HIDE DEF r
<1>3. pay'[o] = r /\ \A p \in Orders \ {o} : pay'[p] = pay[p]
  BY <1>1 DEF TypeOKWallet
<1>4. ASSUME o \notin disturbed' PROVE Covered(o)'
  <2>1. Covered(o)
    BY <1>4 DEF WalletInv
  <2>2. FundsSeen(o) => FundsSeen(o)'
    BY DEF FundsSeen, Held, AccountTakes
  <2>3. CostCovered(o) => CostCovered(o)'
    BY <1>2, <1>3 DEF CostCovered, FeeCovered, Outgrown, Affordable, Cost, EvmCost, Value
  <2>4. NonceFree(o) => NonceFree(o)'
    BY <1>2, <1>3 DEF NonceFree
  <2> QED
    BY <1>2, <1>3, <2>1, <2>2, <2>3, <2>4 DEF Covered
<1> QED
  BY <1>1, <1>2, <1>4, InvocationRuns

LEMMA ClaimKeepsInv ==
  ASSUME WalletInv, NEW o \in Orders, ClaimTransfer(o)
  PROVE  WalletInv'
<1>1. /\ TypeOKWallet /\ Recorded(o) /\ pay[o].at = "signed" /\ pay[o] \in PayType
      /\ UNCHANGED <<family, form, price, dataFee, wallet, mined, transfer, disturbed, short>>
      /\ outcome[o] = "none" /\ transfer[o] = "unsent"
  BY DEF WalletInv, ClaimTransfer, Recorded, Early, TypeOKWallet
<1>2. CASE /\ pay' = [pay EXCEPT ![o].at = "claimed"]
           /\ outcome' = [outcome EXCEPT ![o] = "claimed"]
  <2>1. pay'[o].at = "claimed" /\ outcome'[o] = "claimed"
    BY <1>1, <1>2 DEF TypeOKWallet, PayType
  <2>2. Recorded(o)'
    BY <1>1, <2>1 DEF Recorded, RecordHonest, Early
  <2> QED
    BY <1>1, <1>2, <2>2, MovesOn
<1>3. CASE pay' = [pay EXCEPT ![o] = Stopped] /\ UNCHANGED outcome
  <2>1. Stopped \in PayType /\ Stopped.at = "done"
    BY DEF Stopped, NotBegun, PayType
  <2>2. pay'[o] = Stopped /\ outcome' = [outcome EXCEPT ![o] = "none"]
    BY <1>1, <1>3 DEF TypeOKWallet
  <2>3. Recorded(o)'
    BY <1>1, <1>3, <2>1, <2>2 DEF Recorded, RecordHonest, Early
  <2>4. Covered(o)'
    BY <1>1, <2>1, <2>2 DEF Covered
  <2> QED
    BY <1>1, <1>3, <2>1, <2>2, <2>3, <2>4, InvocationRuns
<1> QED
  BY <1>2, <1>3 DEF ClaimTransfer

(* What is recorded after the broadcast is what was seen.                  *)
LEMMA RecordRuns ==
  ASSUME WalletInv, NEW o \in Orders,
         NEW from \in {"unheard", "accepted", "waiting"}, NEW next \in {"waiting", "done"},
         NEW s \in {"claimed", "submitted", "confirmed", "ambiguous", "failed"},
         OnRecord(o, from, s, next),
         next = "waiting" => s = "submitted",
         s = "submitted" => transfer[o] # "unsent",
         s = "ambiguous" => transfer[o] # "unsent" \/ NonceUsed(o),
         s = "confirmed" => transfer[o] = "landed" \/ (NonceUsed(o) /\ mined[pay[o].nonce + 1])
  PROVE  WalletInv'
<1>1. /\ TypeOKWallet /\ Recorded(o) /\ pay[o] \in PayType
      /\ pay' = [pay EXCEPT ![o].at = next] /\ outcome' = [outcome EXCEPT ![o] = s]
      /\ UNCHANGED <<family, form, price, dataFee, wallet, mined, transfer, disturbed, short>>
  BY DEF WalletInv, OnRecord, TypeOKWallet
<1>2. pay'[o].at = next /\ pay'[o].nonce = pay[o].nonce /\ outcome'[o] = s
  BY <1>1 DEF TypeOKWallet, PayType
<1>3. NonceUsed(o) => NonceUsed(o)'
  BY <1>1, <1>2 DEF NonceUsed
<1>4. Recorded(o)'
  BY <1>1, <1>2, <1>3 DEF Recorded, RecordHonest, Early
<1> QED
  BY <1>1, <1>4, MovesOn

LEMMA OutcomeKeepsInv ==
  ASSUME WalletInv, NEW o \in Orders,
         LookUp(o) \/ RecordAccepted(o) \/ ReceiptFound(o) \/ ReceiptTimeout(o)
  PROVE  WalletInv'
<1>1. TypeOKWallet /\ Recorded(o)
  BY DEF WalletInv
<1>2. CASE LookUp(o)
  <2>1. PICK landed \in BOOLEAN :
          /\ landed => transfer[o] \in {"posted", "landed", "reverted"} \/ NonceUsed(o)
          /\ OnRecord(o, "unheard", IF landed THEN "ambiguous" ELSE "failed", "done")
    BY <1>2 DEF LookUp
  <2>2. CASE landed
    <3>1. OnRecord(o, "unheard", "ambiguous", "done")
      BY <2>1, <2>2
    <3> QED
      BY <2>1, <2>2, <3>1, RecordRuns
  <2>3. CASE ~landed
    <3>1. OnRecord(o, "unheard", "failed", "done")
      BY <2>1, <2>3
    <3> QED
      BY <3>1, RecordRuns
  <2> QED
    BY <2>2, <2>3
<1>3. CASE RecordAccepted(o)
  <2>1. OnRecord(o, "accepted", "submitted", "waiting") /\ transfer[o] # "unsent"
    BY <1>1, <1>3 DEF RecordAccepted, Recorded, OnRecord
  <2> QED
    BY <2>1, RecordRuns
<1>4. CASE ReceiptFound(o)
  <2> DEFINE success == IF family = "evm" THEN mined[pay[o].nonce + 1] ELSE transfer[o] = "landed"
  <2>1. OnRecord(o, "waiting", BroadcastOutcome(success), "done")
    BY <1>4 DEF ReceiptFound
  <2>2. CASE success
    <3>1. OnRecord(o, "waiting", "confirmed", "done")
      BY <2>1, <2>2 DEF BroadcastOutcome
    <3>2. transfer[o] = "landed" \/ (NonceUsed(o) /\ mined[pay[o].nonce + 1])
      BY <1>4, <2>2 DEF ReceiptFound
    <3> QED
      BY <3>1, <3>2, RecordRuns
  <2>3. CASE ~success
    <3>1. OnRecord(o, "waiting", "failed", "done")
      BY <2>1, <2>3 DEF BroadcastOutcome
    <3> QED
      BY <3>1, RecordRuns
  <2> QED
    BY <2>2, <2>3
<1>5. CASE ReceiptTimeout(o)
  <2>1. OnRecord(o, "waiting", "submitted", "done") /\ transfer[o] # "unsent"
    BY <1>1, <1>5 DEF ReceiptTimeout, Recorded, RecordHonest, OnRecord
  <2> QED
    BY <2>1, RecordRuns
<1> QED
  BY <1>2, <1>3, <1>4, <1>5
------------------------------------------------------------------------------
(* A covered order's transfer is accepted, and succeeds once included.     *)
LEMMA CoveredSucceeds ==
  ASSUME NEW o \in Orders, Covered(o), pay[o].at = "claimed" \/ transfer[o] = "posted"
  PROVE  Succeeds(o) /\ Affordable(o)
<1>1. FundsSeen(o) /\ Affordable(o)
  BY DEF Covered, CostCovered
<1>2. family = "solana" => ChainTakes(form[o])
  BY <1>1 DEF FundsSeen, AccountTakes, ChainTakes
<1> QED
  BY <1>1, <1>2 DEF Succeeds, FundsSeen

LEMMA CoveredAccepted ==
  ASSUME NEW o \in Orders, Covered(o), pay[o].at = "claimed"
  PROVE  Accepts(o)
<1>1. Succeeds(o) /\ Affordable(o)
  BY CoveredSucceeds
<1>2. family = "evm" => NonceTaken(o)
  BY DEF Covered, NonceFree, NonceTaken, SameNonce
<1> QED
  BY <1>1, <1>2 DEF Accepts

(* Whoever was checked or is on the chain is disturbed, so the others have *)
(* nothing to be covered.                                                  *)
LEMMA DisturbedAll ==
  ASSUME NEW who, Disturb(who), NEW o \in who, o \in Orders, o \notin disturbed',
         pay'[o].at = pay[o].at, transfer'[o] = "posted" => transfer[o] = "posted"
  PROVE  Covered(o)'
BY DEF Disturb, Covered

LEMMA DisturbGrows ==
  ASSUME NEW who \in SUBSET Orders, Disturb(who), disturbed \subseteq Orders
  PROVE  disturbed \subseteq disturbed' /\ disturbed' \subseteq Orders
BY DEF Disturb

(* Steps of the chain and the owner, which leave the invocations alone.    *)
LEMMA WorldRuns ==
  ASSUME WalletInv, TypeOKWallet', ChainGrows, UNCHANGED <<pay, outcome>>,
         \A p \in Orders : transfer[p] = "unsent" => transfer'[p] = "unsent",
         \A p \in Orders : p \notin disturbed' => Covered(p)',
         short' \subseteq disturbed'
  PROVE  WalletInv'
<1>1. TypeOKWallet /\ \A p \in Orders : Recorded(p)
  BY DEF WalletInv
<1>2. \A p \in Orders : Recorded(p)'
  BY <1>1, RecordedCarried
<1> QED
  BY <1>2 DEF WalletInv, LockedOnlyIfDisturbed

(* The chain's length when a transaction of the wallet may have been added. *)
LEMMA MinedGrows ==
  ASSUME TypeOKWallet, NEW b \in BOOLEAN, mined' = mined \/ mined' = Append(mined, b)
  PROVE  /\ mined' \in Seq(BOOLEAN)
         /\ Len(mined') \in Nat /\ Len(mined) <= Len(mined')
         /\ \A i \in 1..Len(mined) : mined'[i] = mined[i]
<1>1. mined \in Seq(BOOLEAN) /\ Len(mined) \in Nat
  BY LenProperties DEF TypeOKWallet
<1>2. CASE mined' = mined
  BY <1>1, <1>2
<1>3. CASE mined' = Append(mined, b)
  <2>1. /\ Append(mined, b) \in Seq(BOOLEAN) /\ Len(Append(mined, b)) = Len(mined) + 1
        /\ \A i \in 1..Len(mined) : Append(mined, b)[i] = mined[i]
    BY <1>1, AppendProperties
  <2> QED
    BY <1>1, <1>3, <2>1
<1> QED
  BY <1>2, <1>3

(* The network takes a transfer, or does not and the run hears nothing.    *)
LEMMA PostKeepsInv ==
  ASSUME WalletInv, NEW o \in Orders, PostTransfer(o)
  PROVE  WalletInv'
<1>1. /\ TypeOKWallet /\ LockedOnlyIfDisturbed /\ Recorded(o) /\ pay[o].at = "claimed"
      /\ UNCHANGED <<family, form, price, dataFee, wallet, mined, outcome>>
      /\ outcome[o] = "claimed" /\ transfer[o] = "unsent"
      /\ pay \in [Orders -> PayType] /\ pay[o] \in PayType
  BY DEF WalletInv, PostTransfer, Recorded, TypeOKWallet
<1>2. PICK told \in BOOLEAN :
        /\ told => Accepts(o)
        /\ pay' = [pay EXCEPT ![o].at = IF told THEN "accepted" ELSE "unheard"]
        /\ \/ /\ Accepts(o)
              /\ transfer' = [p \in Orders |->
                   IF p = o THEN "posted"
                   ELSE IF family = "evm" /\ p \in SameNonce(o) THEN "replaced"
                   ELSE transfer[p]]
              /\ Disturb(Orders \ {o})
              /\ UNCHANGED short
           \/ /\ ~told
              /\ short' = IF Accepts(o) THEN short ELSE short \cup {o}
              /\ UNCHANGED <<transfer, disturbed>>
  BY DEF PostTransfer
<1> DEFINE r == [pay[o] EXCEPT !.at = IF told THEN "accepted" ELSE "unheard"]
<1>3. pay' = [pay EXCEPT ![o] = r]
  BY <1>2
<1>4. /\ r \in PayType /\ r.at = (IF told THEN "accepted" ELSE "unheard")
      /\ r.nonce = pay[o].nonce /\ r.price = pay[o].price /\ r.quoted = pay[o].quoted
  BY <1>1 DEF PayType
<1> HIDE DEF r
<1>5. pay'[o] = r /\ (\A p \in Orders \ {o} : pay'[p] = pay[p]) /\ pay' \in [Orders -> PayType]
  BY <1>1, <1>3, <1>4
<1>6. CASE /\ Accepts(o)
           /\ transfer' = [p \in Orders |->
                IF p = o THEN "posted"
                ELSE IF family = "evm" /\ p \in SameNonce(o) THEN "replaced"
                ELSE transfer[p]]
           /\ Disturb(Orders \ {o})
           /\ UNCHANGED short
  <2>1. transfer'[o] = "posted" /\ \A p \in Orders \ {o} :
          \/ transfer'[p] = transfer[p]
          \/ transfer[p] = "posted" /\ transfer'[p] = "replaced"
    BY <1>6 DEF SameNonce
  <2>2. transfer' \in [Orders -> {"unsent", "posted", "landed", "reverted", "replaced", "gone"}]
    BY <1>1, <1>6 DEF TypeOKWallet
  <2>3. disturbed \subseteq disturbed' /\ disturbed' \subseteq Orders
    BY <1>1, <1>6, DisturbGrows DEF TypeOKWallet
  <2>4. TypeOKWallet'
    BY <1>1, <1>5, <1>6, <2>2, <2>3 DEF TypeOKWallet
  <2>5. ChainGrows
    BY <1>1, <2>1, LenProperties DEF ChainGrows, TypeOKWallet
  <2>6. ASSUME NEW p \in Orders PROVE Recorded(p)'
    <3>1. CASE p = o
      BY <1>1, <1>4, <1>5, <2>1, <3>1 DEF Recorded, RecordHonest, Early
    <3>2. CASE p # o
      <4>1. Recorded(p) /\ pay'[p] = pay[p] /\ outcome'[p] = outcome[p]
        BY <1>1, <1>5, <3>2 DEF WalletInv
      <4>2. transfer[p] = "unsent" => transfer'[p] = "unsent"
        BY <2>1, <3>2
      <4> QED
        BY <1>1, <2>5, <4>1, <4>2, RecordedCarried
    <3> QED
      BY <3>1, <3>2
  <2>7. ASSUME NEW p \in Orders, p \notin disturbed' PROVE Covered(p)'
    <3>1. CASE p = o
      <4>1. Covered(o)
        BY <2>3, <2>7, <3>1 DEF WalletInv
      <4>2. FundsSeen(o) /\ CostCovered(o)
        BY <1>1, <4>1 DEF Covered
      <4>3. FundsSeen(o)'
        BY <1>1, <4>2 DEF FundsSeen, Held, AccountTakes
      <4>4. CostCovered(o)'
        BY <1>1, <1>4, <1>5, <4>2
           DEF CostCovered, FeeCovered, Outgrown, Affordable, Cost, EvmCost, Value
      <4> QED
        BY <1>4, <1>5, <3>1, <4>3, <4>4 DEF Covered
    <3>2. CASE p # o
      <4>1. p \in Orders \ {o} /\ pay'[p].at = pay[p].at
        BY <1>5, <3>2
      <4>2. transfer'[p] = "posted" => transfer[p] = "posted"
        BY <2>1, <3>2
      <4> QED
        BY <1>6, <2>7, <4>1, <4>2, DisturbedAll
    <3> QED
      BY <3>1, <3>2
  <2>8. LockedOnlyIfDisturbed'
    BY <1>1, <1>6, <2>3 DEF LockedOnlyIfDisturbed
  <2> QED
    BY <2>4, <2>6, <2>7, <2>8 DEF WalletInv
<1>7. CASE /\ ~told
           /\ short' = IF Accepts(o) THEN short ELSE short \cup {o}
           /\ UNCHANGED <<transfer, disturbed>>
  <2>1. TypeOKWallet'
    BY <1>1, <1>5, <1>7 DEF TypeOKWallet
  <2>2. ChainGrows
    BY <1>1, <1>7, ChainStays
  <2>3. ASSUME NEW p \in Orders PROVE Recorded(p)'
    <3>1. CASE p = o
      BY <1>1, <1>4, <1>5, <1>7, <3>1 DEF Recorded, RecordHonest, Early
    <3>2. CASE p # o
      <4>1. Recorded(p) /\ pay'[p] = pay[p] /\ outcome'[p] = outcome[p]
        BY <1>1, <1>5, <3>2 DEF WalletInv
      <4> QED
        BY <1>1, <1>7, <2>2, <4>1, RecordedCarried
    <3> QED
      BY <3>1, <3>2
  <2>4. ASSUME NEW p \in Orders, p \notin disturbed' PROVE Covered(p)'
    <3>1. CASE p = o
      BY <1>1, <1>4, <1>5, <1>7, <3>1 DEF Covered
    <3>2. CASE p # o
      <4>1. Covered(p) /\ pay'[p] = pay[p]
        BY <1>5, <1>7, <2>4, <3>2 DEF WalletInv
      <4>2. \A q \in Orders \ {p} : transfer'[q] = "posted" =>
              transfer[q] = "posted" /\ pay'[q].nonce = pay[q].nonce
        BY <1>4, <1>5, <1>7
      <4> QED
        BY <1>1, <1>7, <4>1, <4>2, CoveredCarried
    <3> QED
      BY <3>1, <3>2
  <2>5. LockedOnlyIfDisturbed'
    <3>1. o \notin disturbed => Accepts(o)
      BY <1>1, CoveredAccepted DEF WalletInv
    <3> QED
      BY <1>1, <1>7, <3>1 DEF LockedOnlyIfDisturbed
  <2> QED
    BY <2>1, <2>3, <2>4, <2>5 DEF WalletInv
<1> QED
  BY <1>2, <1>6, <1>7

(* A transfer is included: it disturbs every other order under way, and    *)
(* succeeds if it was not disturbed itself.                                *)
LEMMA IncludeKeepsInv ==
  ASSUME WalletInv, NEW o \in Orders, Include(o)
  PROVE  WalletInv'
<1> DEFINE ok == Succeeds(o)
           paid == IF ok THEN Value(o) ELSE 0
           given == IF ok THEN form[o].due - Value(o) ELSE 0
<1>1. /\ TypeOKWallet /\ LockedOnlyIfDisturbed /\ Recorded(o) /\ transfer[o] = "posted"
      /\ UNCHANGED <<family, form, price, dataFee, pay, outcome>>
      /\ transfer' = [transfer EXCEPT ![o] = IF ok THEN "landed" ELSE "reverted"]
      /\ short' = IF ok THEN short ELSE short \cup {o}
      /\ mined' = IF family = "evm" THEN Append(mined, ok) ELSE mined
      /\ Disturb(Orders \ {o})
      /\ wallet' = [wallet EXCEPT !.coin = @ - Cost(o) - paid, !.tokens = @ - given]
  BY DEF WalletInv, Include
<1>2. ok \in BOOLEAN
  BY DEF Succeeds
<1>3. /\ wallet.coin - Cost(o) - paid \in Nat
      /\ wallet.tokens - given \in Nat
  <2>1. /\ Cost(o) \in Nat /\ Value(o) \in Nat /\ SolFee \in Nat /\ form[o] \in FormType
        /\ wallet.coin \in Nat /\ wallet.tokens \in Nat /\ form[o].due \in Nat
    BY <1>1, CostIsNat
  <2>2. wallet.coin - Cost(o) \in Nat
    <3>1. CASE family = "evm"
      BY <2>1, <3>1 DEF Include, Affordable
    <3>2. CASE family # "evm"
      BY <2>1, <3>2 DEF Include, Cost
    <3> QED
      BY <3>1, <3>2
  <2>3. ok => wallet.coin - Cost(o) - Value(o) >= 0
    <3>1. family = "evm" \/ family = "solana"
      BY <1>1 DEF TypeOKWallet
    <3> QED
      BY <3>1 DEF Include, Succeeds, Affordable
  <2>4. ok => wallet.tokens - (form[o].due - Value(o)) \in Nat
    <3>1. CASE form[o].native
      BY <2>1, <3>1 DEF Value
    <3>2. CASE ~form[o].native
      BY <2>1, <3>2 DEF Succeeds, Held, Value
    <3> QED
      BY <3>1, <3>2
  <2> QED
    BY <2>1, <2>2, <2>3, <2>4
<1> HIDE DEF ok, paid, given
<1>4. wallet' \in [coin : Nat, tokens : Nat, moves : 0..MaxWorld]
  BY <1>1, <1>3 DEF TypeOKWallet
<1>5. /\ mined' \in Seq(BOOLEAN)
      /\ Len(mined') \in Nat /\ Len(mined) <= Len(mined')
      /\ \A i \in 1..Len(mined) : mined'[i] = mined[i]
  BY <1>1, <1>2, MinedGrows
<1>6. disturbed \subseteq disturbed' /\ disturbed' \subseteq Orders
  BY <1>1, DisturbGrows DEF TypeOKWallet
<1>7. /\ transfer' \in [Orders -> {"unsent", "posted", "landed", "reverted", "replaced", "gone"}]
      /\ transfer'[o] \in {"landed", "reverted"}
      /\ \A p \in Orders \ {o} : transfer'[p] = transfer[p]
  BY <1>1 DEF TypeOKWallet
<1>8. TypeOKWallet'
  BY <1>1, <1>4, <1>5, <1>6, <1>7 DEF TypeOKWallet
<1>9. ChainGrows
  BY <1>1, <1>5, <1>7 DEF ChainGrows
<1>10. \A p \in Orders : transfer[p] = "unsent" => transfer'[p] = "unsent"
  BY <1>1, <1>7
<1>11. ASSUME NEW p \in Orders, p \notin disturbed' PROVE Covered(p)'
  <2>1. CASE p = o
    <3>1. pay[o].at \notin {"funds", "coin", "ready", "signed", "claimed"}
      BY <1>1 DEF Recorded, Early
    <3> QED
      BY <1>1, <1>7, <2>1, <3>1 DEF Covered
  <2>2. CASE p # o
    <3>1. p \in Orders \ {o} /\ pay'[p].at = pay[p].at
      BY <1>1, <2>2
    <3>2. transfer'[p] = "posted" => transfer[p] = "posted"
      BY <1>7, <2>2
    <3> QED
      BY <1>1, <1>11, <3>1, <3>2, DisturbedAll
  <2> QED
    BY <2>1, <2>2
<1>12. short' \subseteq disturbed'
  <2>1. o \notin disturbed => ok
    BY <1>1, CoveredSucceeds DEF WalletInv, ok
  <2> QED
    BY <1>1, <1>6, <2>1 DEF LockedOnlyIfDisturbed
<1> QED
  BY <1>1, <1>8, <1>9, <1>10, <1>11, <1>12, WorldRuns

LEMMA ForgetKeepsInv ==
  ASSUME WalletInv, NEW o \in Orders, Forget(o)
  PROVE  WalletInv'
<1>1. /\ TypeOKWallet /\ LockedOnlyIfDisturbed /\ Recorded(o) /\ transfer[o] = "posted"
      /\ UNCHANGED <<family, form, price, dataFee, wallet, mined, pay, outcome, disturbed>>
      /\ transfer' = [transfer EXCEPT ![o] = "gone"]
      /\ short' = IF Affordable(o) THEN short ELSE short \cup {o}
  BY DEF WalletInv, Forget
<1>2. /\ transfer' \in [Orders -> {"unsent", "posted", "landed", "reverted", "replaced", "gone"}]
      /\ transfer'[o] = "gone" /\ \A p \in Orders \ {o} : transfer'[p] = transfer[p]
  BY <1>1 DEF TypeOKWallet
<1>3. TypeOKWallet'
  BY <1>1, <1>2 DEF TypeOKWallet
<1>4. ChainGrows
  BY <1>1, <1>2, LenProperties DEF ChainGrows, TypeOKWallet
<1>5. \A p \in Orders : transfer[p] = "unsent" => transfer'[p] = "unsent"
  BY <1>1, <1>2
<1>6. ASSUME NEW p \in Orders, p \notin disturbed' PROVE Covered(p)'
  <2>1. Covered(p) /\ pay'[p] = pay[p]
    BY <1>1, <1>6 DEF WalletInv
  <2>2. transfer'[p] = "posted" => transfer[p] = "posted"
    BY <1>1, <1>2
  <2>3. \A q \in Orders \ {p} : transfer'[q] = "posted" =>
          transfer[q] = "posted" /\ pay'[q].nonce = pay[q].nonce
    BY <1>1, <1>2
  <2> QED
    BY <1>1, <2>1, <2>2, <2>3, CoveredCarried
<1>7. short' \subseteq disturbed'
  <2>1. o \notin disturbed => Affordable(o)
    BY <1>1, CoveredSucceeds DEF WalletInv
  <2> QED
    BY <1>1, <2>1 DEF LockedOnlyIfDisturbed
<1> QED
  BY <1>1, <1>3, <1>4, <1>5, <1>6, <1>7, WorldRuns

LEMMA OwnerKeepsInv ==
  ASSUME WalletInv, OwnerSpends
  PROVE  WalletInv'
<1>1. /\ TypeOKWallet /\ LockedOnlyIfDisturbed
      /\ UNCHANGED <<family, form, price, dataFee, pay, outcome, short>>
      /\ transfer' = [o \in Orders |->
            IF family = "evm" /\ transfer[o] = "posted" /\ pay[o].nonce = Len(mined)
              THEN "replaced" ELSE transfer[o]]
      /\ mined' = IF family = "evm" THEN Append(mined, TRUE) ELSE mined
      /\ Disturb(Orders)
  BY DEF WalletInv, OwnerSpends
<1>2. wallet' \in [coin : Nat, tokens : Nat, moves : 0..MaxWorld]
  <2>1. PICK coin \in {0, wallet.coin}, tokens \in {0, wallet.tokens} :
          wallet' = [coin |-> coin, tokens |-> tokens, moves |-> wallet.moves + 1]
    BY DEF OwnerSpends
  <2>2. MaxWorld \in Nat /\ wallet \in [coin : Nat, tokens : Nat, moves : 0..MaxWorld]
    BY <1>1, WalletSendAssumption DEF WalletSendAssumption, TypeOKWallet
  <2>3. coin \in Nat /\ tokens \in Nat
    BY <2>2
  <2>4. wallet.moves < MaxWorld
    BY DEF OwnerSpends
  <2>5. wallet.moves + 1 \in 0..MaxWorld
    BY <2>2, <2>4
  <2> QED
    BY <2>1, <2>3, <2>5
<1>3. /\ mined' \in Seq(BOOLEAN)
      /\ Len(mined') \in Nat /\ Len(mined) <= Len(mined')
      /\ \A i \in 1..Len(mined) : mined'[i] = mined[i]
  BY <1>1, MinedGrows
<1>4. disturbed \subseteq disturbed' /\ disturbed' \subseteq Orders
  BY <1>1, DisturbGrows DEF TypeOKWallet
<1>5. /\ transfer' \in [Orders -> {"unsent", "posted", "landed", "reverted", "replaced", "gone"}]
      /\ \A p \in Orders : \/ transfer'[p] = transfer[p]
                           \/ transfer[p] = "posted" /\ transfer'[p] = "replaced"
  BY <1>1 DEF TypeOKWallet
<1>6. TypeOKWallet'
  BY <1>1, <1>2, <1>3, <1>4, <1>5 DEF TypeOKWallet
<1>7. ChainGrows
  BY <1>1, <1>3, <1>5 DEF ChainGrows
<1>8. \A p \in Orders : transfer[p] = "unsent" => transfer'[p] = "unsent"
  BY <1>5
<1>9. ASSUME NEW p \in Orders, p \notin disturbed' PROVE Covered(p)'
  <2>1. pay'[p].at = pay[p].at /\ (transfer'[p] = "posted" => transfer[p] = "posted")
    BY <1>1, <1>5
  <2> QED
    BY <1>1, <1>9, <2>1, DisturbedAll
<1>10. short' \subseteq disturbed'
  BY <1>1, <1>4 DEF LockedOnlyIfDisturbed
<1> QED
  BY <1>1, <1>6, <1>7, <1>8, <1>9, <1>10, WorldRuns

LEMMA PriceKeepsInv ==
  ASSUME WalletInv, PriceMoves
  PROVE  WalletInv'
<1>1. /\ TypeOKWallet /\ LockedOnlyIfDisturbed /\ wallet.moves < MaxWorld
      /\ UNCHANGED <<family, form, dataFee, mined, pay, transfer, outcome, disturbed, short>>
      /\ wallet' = [wallet EXCEPT !.moves = @ + 1] /\ price' \in Prices
  BY DEF WalletInv, PriceMoves
<1>2. /\ price' \in Nat /\ wallet' \in [coin : Nat, tokens : Nat, moves : 0..MaxWorld]
      /\ wallet'.coin = wallet.coin /\ wallet'.tokens = wallet.tokens
  <2>1. MaxWorld \in Nat /\ wallet \in [coin : Nat, tokens : Nat, moves : 0..MaxWorld]
    BY <1>1, WalletSendAssumption DEF WalletSendAssumption, TypeOKWallet
  <2>2. wallet.moves + 1 \in 0..MaxWorld
    BY <1>1, <2>1
  <2>3. /\ wallet' \in [coin : Nat, tokens : Nat, moves : 0..MaxWorld]
        /\ wallet'.coin = wallet.coin /\ wallet'.tokens = wallet.tokens
    BY <1>1, <2>1, <2>2
  <2>4. price' \in Nat
    BY <1>1, WalletSendAssumption DEF WalletSendAssumption
  <2> QED
    BY <2>3, <2>4
<1>3. TypeOKWallet'
  BY <1>1, <1>2 DEF TypeOKWallet
<1>4. ChainGrows
  BY <1>1, ChainStays
<1>5. ASSUME NEW p \in Orders, p \notin disturbed' PROVE Covered(p)'
  <2>1. Covered(p) /\ pay'[p] = pay[p]
    BY <1>1, <1>5 DEF WalletInv
  <2>2. \A q \in Orders \ {p} : transfer'[q] = "posted" =>
          transfer[q] = "posted" /\ pay'[q].nonce = pay[q].nonce
    BY <1>1
  <2> QED
    BY <1>1, <1>2, <2>1, <2>2, CoveredCarried
<1>6. /\ \A p \in Orders : transfer[p] = "unsent" => transfer'[p] = "unsent"
      /\ short' \subseteq disturbed'
  BY <1>1 DEF LockedOnlyIfDisturbed
<1> QED
  BY <1>1, <1>3, <1>4, <1>5, <1>6, WorldRuns

(* The data fee may outgrow the buffer of what is signed or posted: those  *)
(* orders are disturbed, the others stay covered.                          *)
LEMMA DataFeeKeepsInv ==
  ASSUME WalletInv, DataFeeMoves
  PROVE  WalletInv'
<1>1. /\ TypeOKWallet /\ LockedOnlyIfDisturbed /\ wallet.moves < MaxWorld
      /\ UNCHANGED <<family, form, price, mined, pay, transfer, outcome, short>>
      /\ wallet' = [wallet EXCEPT !.moves = @ + 1] /\ dataFee' \in DataFees
      /\ family = "evm" /\ disturbed \subseteq disturbed' /\ disturbed' \subseteq Orders
      /\ \A p \in Orders : p \notin disturbed' =>
           \/ ~(pay[p].at \in {"signed", "claimed"} \/ transfer[p] = "posted")
           \/ ~Outgrown(p, EvmCost(pay[p].price, dataFee'))
  BY DEF WalletInv, TypeOKWallet, DataFeeMoves
<1>2. /\ dataFee' \in Nat /\ wallet' \in [coin : Nat, tokens : Nat, moves : 0..MaxWorld]
      /\ wallet'.coin = wallet.coin /\ wallet'.tokens = wallet.tokens
  <2>1. MaxWorld \in Nat /\ wallet \in [coin : Nat, tokens : Nat, moves : 0..MaxWorld]
    BY <1>1, WalletSendAssumption DEF WalletSendAssumption, TypeOKWallet
  <2>2. wallet.moves + 1 \in 0..MaxWorld
    BY <1>1, <2>1
  <2>3. /\ wallet' \in [coin : Nat, tokens : Nat, moves : 0..MaxWorld]
        /\ wallet'.coin = wallet.coin /\ wallet'.tokens = wallet.tokens
    BY <1>1, <2>1, <2>2
  <2>4. dataFee' \in Nat
    BY <1>1, WalletSendAssumption DEF WalletSendAssumption
  <2> QED
    BY <2>3, <2>4
<1>3. TypeOKWallet'
  BY <1>1, <1>2 DEF TypeOKWallet
<1>4. ChainGrows
  BY <1>1, ChainStays
<1>5. ASSUME NEW p \in Orders, p \notin disturbed' PROVE Covered(p)'
  <2>1. Covered(p) /\ pay' = pay /\ transfer' = transfer /\ Value(p)' = Value(p)
    BY <1>1, <1>5 DEF WalletInv, Value
  <2>2. FundsSeen(p) => FundsSeen(p)'
    BY <1>1, <1>2 DEF FundsSeen, Held, AccountTakes
  <2>3. FeeCovered(p) => FeeCovered(p)'
    BY <1>1, <1>2, <2>1 DEF FeeCovered
  <2>4. NonceFree(p) => NonceFree(p)'
    BY <1>1 DEF NonceFree
  <2>5. CostCovered(p) /\ ~Outgrown(p, EvmCost(pay[p].price, dataFee')) => CostCovered(p)'
    <3> SUFFICES ASSUME CostCovered(p), ~Outgrown(p, EvmCost(pay[p].price, dataFee'))
                 PROVE  CostCovered(p)'
      OBVIOUS
    <3>1. Cost(p)' = EvmCost(pay[p].price, dataFee')
      BY <1>1, <2>1 DEF Cost, EvmCost
    <3>2. /\ wallet.coin \in Nat /\ Value(p) \in Nat /\ pay[p].quoted \in Nat
          /\ pay[p].price \in Nat /\ Gas \in Nat
      BY <1>1, CostIsNat, WalletSendAssumption DEF PayType, WalletSendAssumption
    <3>3. Cost(p)' \in Nat
      <4>1. \A a, b \in Nat : a * b \in Nat /\ a + b \in Nat
        OBVIOUS
      <4> QED
        BY <1>2, <3>1, <3>2, <4>1 DEF EvmCost
    <3>4. FeeCovered(p)' /\ ~Outgrown(p, Cost(p))'
      BY <1>1, <2>1, <2>3, <3>1 DEF CostCovered, Outgrown
    <3>5. wallet.coin - Cost(p)' - Value(p) >= 0
      BY <1>1, <2>1, <3>1, <3>2, <3>3, BufferSuffices DEF CostCovered, FeeCovered, Outgrown
    <3> QED
      BY <1>1, <1>2, <2>1, <3>4, <3>5 DEF CostCovered, Affordable
  <2> QED
    BY <1>1, <1>2, <1>5, <2>1, <2>2, <2>3, <2>4, <2>5 DEF Covered
<1>6. /\ \A p \in Orders : transfer[p] = "unsent" => transfer'[p] = "unsent"
      /\ short' \subseteq disturbed'
  BY <1>1 DEF LockedOnlyIfDisturbed
<1> QED
  BY <1>1, <1>3, <1>4, <1>5, <1>6, WorldRuns

------------------------------------------------------------------------------
LEMMA NextKeepsWalletInv == WalletInv /\ [NextWallet]_walletVars => WalletInv'
<1> SUFFICES ASSUME WalletInv, [NextWallet]_walletVars PROVE WalletInv'
  OBVIOUS
<1>1. ASSUME NEW o \in Orders, WalletStep(o) PROVE WalletInv'
  BY <1>1, ReadFundsKeepsInv, ReadFeeCoinKeepsInv, CheckFeeKeepsInv, SignKeepsInv,
     ClaimKeepsInv, PostKeepsInv, OutcomeKeepsInv DEF WalletStep
<1>2. ASSUME NEW o \in Orders, Include(o) \/ Forget(o) PROVE WalletInv'
  BY <1>2, IncludeKeepsInv, ForgetKeepsInv
<1>3. CASE OwnerSpends \/ PriceMoves \/ DataFeeMoves
  BY <1>3, OwnerKeepsInv, PriceKeepsInv, DataFeeKeepsInv
<1>4. CASE UNCHANGED walletVars
  <2>1. /\ TypeOKWallet /\ LockedOnlyIfDisturbed
        /\ UNCHANGED <<family, form, price, dataFee, wallet, mined, pay, transfer, outcome,
                       disturbed, short>>
    BY <1>4 DEF WalletInv, walletVars
  <2>2. TypeOKWallet'
    BY <2>1 DEF TypeOKWallet
  <2>3. ChainGrows
    BY <2>1, ChainStays
  <2>4. ASSUME NEW p \in Orders, p \notin disturbed' PROVE Covered(p)'
    BY <2>1, <2>4, CoveredCarried DEF WalletInv
  <2>5. short' \subseteq disturbed'
    BY <2>1 DEF LockedOnlyIfDisturbed
  <2> QED
    BY <2>1, <2>2, <2>3, <2>4, <2>5, WorldRuns
<1> QED
  BY <1>1, <1>2, <1>3, <1>4 DEF NextWallet

LEMMA WalletInvariant == SpecWallet => []WalletInv
BY InitWalletInv, NextKeepsWalletInv, PTL DEF SpecWallet

(* Balances, prices, nonces and what each invocation has learnt stay in    *)
(* range: no transfer leaves a balance below zero (gas.mjs).               *)
THEOREM WalletTypeCorrect == SpecWallet => []TypeOKWallet
<1>1. WalletInv => TypeOKWallet
  BY DEF WalletInv
<1> QED
  BY <1>1, WalletInvariant, PTL

(* The prechecks of gas.mjs and native-send.mjs suffice: however many      *)
(* orders are paid from the wallet at once, a claim is spent on a transfer *)
(* that a node refuses or the chain fails only if the wallet was used      *)
(* otherwise after the order's first check, or the fee, of the gas before  *)
(* the signature or of the data at any time, outgrew the buffer.           *)
THEOREM LockedOnlyWhenDisturbed == SpecWallet => []LockedOnlyIfDisturbed
<1>1. WalletInv => LockedOnlyIfDisturbed
  BY DEF WalletInv
<1> QED
  BY <1>1, WalletInvariant, PTL

(* The send record claims no more than the chain shows, whoever replaces a *)
(* transaction (outcomes.mjs).                                             *)
THEOREM OutcomeHonest == SpecWallet => []OutcomeNotAhead
<1>1. WalletInv => OutcomeNotAhead
  BY DEF WalletInv, Recorded, RecordHonest, OutcomeNotAhead
<1> QED
  BY <1>1, WalletInvariant, PTL

------------------------------------------------------------------------------
(* Amounts. *)

Figures == Seq(0..9)

------------------------------------------------------------------------------
(* Arithmetic. *)

(* A nonempty set of numbers has a least one. *)
LEMMA LeastNumber ==
  ASSUME NEW S, S \subseteq Nat, S # {}
  PROVE  \E x \in S : \A y \in S : x <= y
<1> DEFINE R == OpToRel(<, Nat)
<1>1. \A x, y \in Nat : <<y, x>> \in R <=> y < x
  BY DEF OpToRel
<1>2. IsWellFoundedOn(R, Nat)
  BY NatLessThanWellFounded
<1> HIDE DEF R
<1>3. PICK x \in S : \A y \in S : ~(<<y, x>> \in R)
  BY <1>2, WFMin
<1>4. \A y \in S : ~(y < x)
  BY <1>1, <1>3
<1> QED
  BY <1>4

(* Induction up to n over a set of numbers. *)
LEMMA Climbs ==
  ASSUME NEW n \in Nat, NEW S,
         0 \in S, \A i \in 1..n : i - 1 \in S => i \in S
  PROVE  \A i \in 0..n : i \in S
<1> DEFINE Left == {i \in 0..n : i \notin S}
<1> SUFFICES ASSUME Left # {} PROVE FALSE
  OBVIOUS
<1>1. PICK i \in Left : \A j \in Left : i <= j
  <2>1. Left \subseteq Nat
    OBVIOUS
  <2> HIDE DEF Left
  <2> QED
    BY <2>1, LeastNumber
<1>2. i \in 1..n
  BY <1>1
<1>3. i - 1 \in 0..n /\ i - 1 \notin Left
  BY <1>1, <1>2
<1> QED
  BY <1>1, <1>2, <1>3

LEMMA Regroup ==
  ASSUME NEW x \in Nat, NEW y \in Nat, NEW q \in Nat, NEW d \in Nat
  PROVE  /\ 10 * (x * y + q) + d = x * (10 * y) + (10 * q + d)
         /\ 10 * (x * y) = x * (10 * y)
  OBVIOUS

(* Numbers multiply in any order. *)
LEMMA Reorder ==
  ASSUME NEW a \in Nat, NEW b \in Nat, NEW c \in Nat
  PROVE  /\ a * b = b * a
         /\ a * (b * c) = (a * b) * c
         /\ (a + b) * c = a * c + b * c
         /\ a * b \in Nat
  OBVIOUS

(* A common factor cancels, in an equation and in a comparison. *)
LEMMA Cancels ==
  ASSUME NEW a \in Nat, NEW b \in Nat, NEW n \in Nat, n > 0
  PROVE  /\ a * n = b * n => a = b
         /\ a < b => a * n < b * n
  OBVIOUS

(* The remainder by n of a multiple of n and a number less than n. *)
LEMMA Remainder ==
  ASSUME NEW q \in Nat, NEW n \in Nat, n > 0, NEW r \in Nat, r < n
  PROVE  (q * n + r) % n = r
<1> DEFINE u == q * n + r
           k == u \div n
<1>1. u \in Nat
  BY Reorder
<1>2. u = n * k + (u % n) /\ u % n \in 0..(n - 1) /\ k \in Nat
  BY <1>1
<1> SUFFICES ASSUME u % n # r PROVE FALSE
  OBVIOUS
<1>3. n * (q - k) = (u % n) - r
  BY <1>1, <1>2
<1> HIDE DEF u, k
<1>4. q - k \in Int
  BY <1>2
<1>5. CASE q - k = 0
  BY <1>2, <1>3, <1>5
<1>6. CASE q - k >= 1
  <2>1. n * (q - k) >= n
    BY <1>4, <1>6
  <2> QED
    BY <2>1, <1>2, <1>3
<1>7. CASE q - k <= -1
  <2>1. n * (q - k) <= -n
    BY <1>4, <1>7
  <2> QED
    BY <2>1, <1>2, <1>3
<1> QED
  BY <1>4, <1>5, <1>6, <1>7

------------------------------------------------------------------------------
(* Reading digits. *)

(* A function that reads the digits one by one. *)
Reads(r, start, digits, n) ==
  r = [i \in 0..n |-> IF i = 0 THEN start ELSE 10 * r[i - 1] + digits[i]]

(* There is one for any number of digits. *)
LEMMA SomethingReads ==
  ASSUME NEW start \in Nat, NEW digits \in Figures, NEW n \in 0..Len(digits)
  PROVE  \E r : Reads(r, start, digits, n)
<1> DEFINE S == {m \in 0..Len(digits) : \E r : Reads(r, start, digits, m)}
<1>0. Len(digits) \in Nat
  BY DEF Figures
<1>1. 0 \in S
  <2>1. Reads([i \in 0..0 |-> start], start, digits, 0)
    BY DEF Reads
  <2> QED
    BY <1>0, <2>1
<1>2. ASSUME NEW m \in 1..Len(digits), m - 1 \in S PROVE m \in S
  <2>1. PICK r : Reads(r, start, digits, m - 1)
    BY <1>2
  <2> DEFINE h == [i \in 0..m |-> IF i = m THEN 10 * r[m - 1] + digits[m] ELSE r[i]]
  <2>2. ASSUME NEW i \in 0..m
        PROVE  h[i] = IF i = 0 THEN start ELSE 10 * h[i - 1] + digits[i]
    <3>1. CASE i = m
      BY <3>1
    <3>2. CASE i # m
      <4>1. i \in 0..(m - 1)
        BY <3>2
      <4>2. r[i] = IF i = 0 THEN start ELSE 10 * r[i - 1] + digits[i]
        BY <4>1, <2>1 DEF Reads
      <4>3. h[i] = r[i] /\ (i # 0 => h[i - 1] = r[i - 1])
        BY <4>1, <3>2
      <4> QED
        BY <4>2, <4>3
    <3> QED
      BY <3>1, <3>2
  <2>3. h = [i \in 0..m |-> h[i]]
    OBVIOUS
  <2> HIDE DEF h
  <2>4. h = [i \in 0..m |-> IF i = 0 THEN start ELSE 10 * h[i - 1] + digits[i]]
    BY <2>2, <2>3
  <2>5. Reads(h, start, digits, m)
    BY <2>4 DEF Reads
  <2> QED
    BY <1>0, <2>5
<1>3. n \in S
  <2> HIDE DEF S
  <2> QED
    BY <1>0, <1>1, <1>2, Climbs
<1> QED
  BY <1>3

(* Reading is that function. *)
LEMMA ReadingReads ==
  ASSUME NEW start \in Nat, NEW digits \in Figures
  PROVE  Reads(Reading(start, digits), start, digits, Len(digits))
<1>1. Len(digits) \in 0..Len(digits)
  BY DEF Figures
<1>2. PICK r : Reads(r, start, digits, Len(digits))
  BY <1>1, SomethingReads
<1> QED
  BY <1>2 DEF Reads, Reading

Read(start, digits, i) == Reading(start, digits)[i]

(* What it has read before the first digit, and after one more. *)
LEMMA ReadNext ==
  ASSUME NEW start \in Nat, NEW digits \in Figures
  PROVE  /\ Read(start, digits, 0) = start
         /\ \A i \in 1..Len(digits) :
              Read(start, digits, i) = 10 * Read(start, digits, i - 1) + digits[i]
<1> DEFINE r == Reading(start, digits)
<1>1. Len(digits) \in Nat
  BY DEF Figures
<1>2. r = [i \in 0..Len(digits) |-> IF i = 0 THEN start ELSE 10 * r[i - 1] + digits[i]]
  BY ReadingReads DEF Reads
<1> HIDE DEF r
<1>3. \A i \in 0..Len(digits) : r[i] = IF i = 0 THEN start ELSE 10 * r[i - 1] + digits[i]
  BY <1>2
<1>4. r[0] = start /\ \A i \in 1..Len(digits) : r[i] = 10 * r[i - 1] + digits[i]
  BY <1>1, <1>3
<1> QED
  BY <1>4 DEF Read, r
(* It has read a number. *)
LEMMA ReadNat ==
  ASSUME NEW start \in Nat, NEW digits \in Figures
  PROVE  \A i \in 0..Len(digits) : Read(start, digits, i) \in Nat
<1> DEFINE S == {i \in 0..Len(digits) : Read(start, digits, i) \in Nat}
<1>0. Len(digits) \in Nat /\ \A i \in 1..Len(digits) : digits[i] \in 0..9
  BY DEF Figures
<1>1. 0 \in S
  BY <1>0, ReadNext
<1>2. ASSUME NEW i \in 1..Len(digits), i - 1 \in S PROVE i \in S
  <2>1. Read(start, digits, i) = 10 * Read(start, digits, i - 1) + digits[i]
    BY ReadNext
  <2> QED
    BY <1>0, <1>2, <2>1
<1>3. \A i \in 0..Len(digits) : i \in S
  <2> HIDE DEF S
  <2> QED
    BY <1>0, <1>1, <1>2, Climbs
<1> QED
  BY <1>3

(* Strings with the same first n digits read the same up to there. *)
LEMMA SameDigits ==
  ASSUME NEW start \in Nat, NEW a \in Figures, NEW b \in Figures,
         NEW n \in Nat, n <= Len(a), n <= Len(b), \A i \in 1..n : a[i] = b[i]
  PROVE  \A i \in 0..n : Read(start, a, i) = Read(start, b, i)
<1> DEFINE S == {i \in 0..n : Read(start, a, i) = Read(start, b, i)}
<1>0. Len(a) \in Nat /\ Len(b) \in Nat
  BY DEF Figures
<1>1. 0 \in S
  BY ReadNext
<1>2. ASSUME NEW i \in 1..n, i - 1 \in S PROVE i \in S
  <2>1. i \in 1..Len(a) /\ i \in 1..Len(b)
    BY <1>0
  <2>2. /\ Read(start, a, i) = 10 * Read(start, a, i - 1) + a[i]
        /\ Read(start, b, i) = 10 * Read(start, b, i - 1) + b[i]
    BY <2>1, ReadNext
  <2> QED
    BY <1>2, <2>2
<1>3. \A i \in 0..n : i \in S
  <2> HIDE DEF S
  <2> QED
    BY <1>1, <1>2, Climbs
<1> QED
  BY <1>3

------------------------------------------------------------------------------
(* Powers of ten. *)

LEMMA ZerosAreFigures ==
  ASSUME NEW n \in Nat
  PROVE  Zeros(n) \in Figures /\ Len(Zeros(n)) = n /\ \A i \in 1..n : Zeros(n)[i] = 0
  BY DEF Zeros, Figures

LEMMA TenToNext ==
  /\ TenTo(0) = 1
  /\ \A n \in Nat : TenTo(n) \in Nat \ {0} /\ TenTo(n + 1) = 10 * TenTo(n)
<1>0. \A n \in Nat : TenTo(n) = Read(1, Zeros(n), n)
  BY DEF TenTo, Read
<1>1. TenTo(0) = 1
  BY <1>0, ZerosAreFigures, ReadNext
<1>2. ASSUME NEW n \in Nat PROVE TenTo(n + 1) = 10 * TenTo(n) /\ TenTo(n) \in Nat
  <2>1. /\ Zeros(n) \in Figures /\ Len(Zeros(n)) = n
        /\ Zeros(n + 1) \in Figures /\ Len(Zeros(n + 1)) = n + 1
        /\ \A i \in 1..n : Zeros(n)[i] = 0
        /\ \A i \in 1..(n + 1) : Zeros(n + 1)[i] = 0
    BY ZerosAreFigures, n + 1 \in Nat
  <2>2. \A i \in 0..n : Read(1, Zeros(n), i) = Read(1, Zeros(n + 1), i)
    BY <2>1, SameDigits
  <2>3. Read(1, Zeros(n + 1), n + 1) = 10 * Read(1, Zeros(n + 1), n + 1 - 1) + Zeros(n + 1)[n + 1]
    BY <2>1, ReadNext, n + 1 \in 1..(n + 1)
  <2>4. Read(1, Zeros(n), n) \in Nat
    BY <2>1, ReadNat
  <2>5. Read(1, Zeros(n + 1), n + 1) = 10 * Read(1, Zeros(n), n) + 0
    BY <2>1, <2>2, <2>3
  <2> QED
    BY <1>0, <2>4, <2>5, n + 1 \in Nat
<1>3. ASSUME NEW n \in Nat PROVE TenTo(n) # 0
  <2> DEFINE S == {i \in Nat : TenTo(i) # 0}
  <2>1. 0 \in S
    BY <1>1
  <2>2. ASSUME NEW i \in 1..n, i - 1 \in S PROVE i \in S
    <3>1. TenTo(i - 1 + 1) = 10 * TenTo(i - 1) /\ TenTo(i - 1) \in Nat
      BY <1>2
    <3> QED
      BY <2>2, <3>1
  <2>3. \A i \in 0..n : i \in S
    <3> HIDE DEF S
    <3> QED
      BY <2>1, <2>2, Climbs
  <2> QED
    BY <2>3
<1> QED
  BY <1>1, <1>2, <1>3

LEMMA TenToPositive ==
  ASSUME NEW n \in Nat
  PROVE  TenTo(n) \in Nat /\ TenTo(n) > 0
<1>1. TenTo(n) \in Nat /\ TenTo(n) # 0
  BY TenToNext
<1> QED
  BY <1>1

LEMMA TenToSum ==
  ASSUME NEW a \in Nat, NEW b \in Nat
  PROVE  TenTo(a + b) = TenTo(a) * TenTo(b)
<1> DEFINE S == {i \in Nat : TenTo(a + i) = TenTo(a) * TenTo(i)}
<1>0. TenTo(a) \in Nat
  BY TenToNext
<1>1. 0 \in S
  BY <1>0, TenToNext
<1>2. ASSUME NEW i \in 1..b, i - 1 \in S PROVE i \in S
  <2>1. /\ TenTo((i - 1) + 1) = 10 * TenTo(i - 1)
        /\ TenTo((a + (i - 1)) + 1) = 10 * TenTo(a + (i - 1))
        /\ TenTo(i - 1) \in Nat
    BY TenToNext, i - 1 \in Nat, a + (i - 1) \in Nat
  <2>2. (i - 1) + 1 = i /\ (a + (i - 1)) + 1 = a + i /\ i \in Nat
    OBVIOUS
  <2>3. TenTo(a + (i - 1)) = TenTo(a) * TenTo(i - 1)
    BY <1>2
  <2>4. TenTo(a + i) = 10 * (TenTo(a) * TenTo(i - 1))
    BY <2>1, <2>2, <2>3
  <2>5. TenTo(a) * TenTo(i) = TenTo(a) * (10 * TenTo(i - 1))
    BY <2>1, <2>2
  <2>6. 10 * (TenTo(a) * TenTo(i - 1)) = TenTo(a) * (10 * TenTo(i - 1))
    BY <1>0, <2>1, Regroup
  <2> QED
    BY <2>2, <2>4, <2>5, <2>6
<1>3. \A i \in 0..b : i \in S
  <2> HIDE DEF S
  <2> QED
    BY <1>1, <1>2, Climbs
<1> QED
  BY <1>3
------------------------------------------------------------------------------
(* Reading on. *)

(* j digits after the first m add less than one unit of the mth, and       *)
(* nothing just when all of them are zero.                                 *)
ReadsOn(digits, m, j) ==
  \E rest \in Nat :
    /\ Read(0, digits, m + j) = Read(0, digits, m) * TenTo(j) + rest
    /\ rest < TenTo(j)
    /\ rest = 0 <=> \A i \in (m + 1)..(m + j) : digits[i] = 0

LEMMA Shift ==
  ASSUME NEW digits \in Figures, NEW m \in 0..Len(digits)
  PROVE  \A j \in 0..(Len(digits) - m) : ReadsOn(digits, m, j)
<1> DEFINE n == Len(digits) - m
           S == {j \in 0..n : ReadsOn(digits, m, j)}
<1>0. /\ Len(digits) \in Nat /\ m \in Nat /\ n \in Nat
      /\ \A i \in 1..Len(digits) : digits[i] \in 0..9
  BY DEF Figures
<1>4. \A i \in 0..Len(digits) : Read(0, digits, i) \in Nat
  BY ReadNat, 0 \in Nat
<1>1. 0 \in S
  <2>1. Read(0, digits, m + 0) = Read(0, digits, m) * TenTo(0) + 0
    BY <1>0, <1>4, TenToNext
  <2>2. 0 < TenTo(0) /\ \A i \in (m + 1)..(m + 0) : digits[i] = 0
    <3>1. TenTo(0) = 1 /\ (m + 1)..(m + 0) = {}
      BY <1>0, TenToNext
    <3> QED
      BY <3>1
  <2>3. ReadsOn(digits, m, 0)
    BY <2>1, <2>2 DEF ReadsOn
  <2> QED
    BY <1>0, <2>3
<1>2. ASSUME NEW j \in 1..n, j - 1 \in S PROVE j \in S
  <2> DEFINE x == Read(0, digits, m)
             y == TenTo(j - 1)
             d == digits[m + j]
  <2>1. PICK q \in Nat :
          /\ Read(0, digits, m + (j - 1)) = x * y + q
          /\ q < y
          /\ q = 0 <=> \A i \in (m + 1)..(m + (j - 1)) : digits[i] = 0
    BY <1>2 DEF ReadsOn
  <2>2. m + j \in 1..Len(digits) /\ (m + j) - 1 = m + (j - 1) /\ j - 1 \in Nat /\ (j - 1) + 1 = j
    BY <1>0
  <2>3. Read(0, digits, m + j) = 10 * Read(0, digits, (m + j) - 1) + d
    BY <2>2, ReadNext
  <2>4. x \in Nat /\ y \in Nat /\ d \in 0..9
    BY <1>0, <1>4, <2>2, TenToNext
  <2>5. TenTo(j) = 10 * y
    BY <2>2, TenToNext
  <2>6. Read(0, digits, m + j) = 10 * (x * y + q) + d
    BY <2>1, <2>2, <2>3
  <2>7. 10 * q + d < 10 * y /\ 10 * q + d \in Nat
    <3> HIDE DEF x, y, d
    <3> QED
      BY <2>1, <2>4
  <2>8. 10 * q + d = 0 <=> \A i \in (m + 1)..(m + j) : digits[i] = 0
    <3>1. 10 * q + d = 0 <=> q = 0 /\ d = 0
      <4> HIDE DEF x, y, d
      <4> QED
        BY <2>1, <2>4
    <3>2. \A i \in (m + 1)..(m + j) : i = m + j \/ i \in (m + 1)..(m + (j - 1))
      BY <1>0
    <3>3. (m + 1)..(m + (j - 1)) \subseteq (m + 1)..(m + j) /\ m + j \in (m + 1)..(m + j)
      BY <1>0
    <3> QED
      BY <2>1, <3>1, <3>2, <3>3
  <2>9. 10 * (x * y + q) + d = x * (10 * y) + (10 * q + d)
    <3> HIDE DEF x, y, d
    <3> QED
      BY <2>1, <2>4, Regroup
  <2>10. Read(0, digits, m + j) = x * TenTo(j) + (10 * q + d)
    <3> HIDE DEF x, y, d
    <3> QED
      BY <2>5, <2>6, <2>9
  <2>11. ReadsOn(digits, m, j)
    BY <2>5, <2>7, <2>8, <2>10 DEF ReadsOn
  <2> QED
    BY <1>0, <2>2, <2>11
<1>3. \A j \in 0..n : j \in S
  <2> HIDE DEF S, n
  <2> QED
    BY <1>0, <1>1, <1>2, Climbs
<1> QED
  BY <1>3

------------------------------------------------------------------------------
(* Converting an amount. *)

Money == [whole : Figures, frac : Figures]

(* What conversion promises of a decimal: the value of as many units, or a *)
(* refusal of a fraction of one.                                           *)
Exact(d, k) ==
  LET units == Digitwise(d) * TenTo(k)
      one   == TenTo(Len(d.frac))
  IN  IF units % one = 0 THEN ToAtomic(d, k) \in Nat /\ ToAtomic(d, k) * one = units
                         ELSE ToAtomic(d, k) = Refused

(* The digits that are converted. *)
Kept(d, k) == d.whole \o SubSeq(d.frac \o Zeros(k), 1, k)

LEMMA KeptDigits ==
  ASSUME NEW d \in Money, NEW k \in Nat
  PROVE  /\ Kept(d, k) \in Figures
         /\ Len(Kept(d, k)) = Len(d.whole) + k
         /\ \A i \in 1..(Len(d.whole) + k) :
              Kept(d, k)[i] = IF i <= Len(d.whole) THEN d.whole[i]
                              ELSE IF i <= Len(d.whole) + Len(d.frac)
                                     THEN d.frac[i - Len(d.whole)] ELSE 0
<1> DEFINE z == d.frac \o Zeros(k)
<1>1. d.whole \in Figures /\ d.frac \in Figures /\ Zeros(k) \in Figures /\ Len(Zeros(k)) = k
  BY ZerosAreFigures DEF Money
<1>2. /\ z \in Figures /\ Len(z) = Len(d.frac) + k
      /\ \A i \in 1..(Len(d.frac) + k) :
           z[i] = IF i <= Len(d.frac) THEN d.frac[i] ELSE Zeros(k)[i - Len(d.frac)]
  BY <1>1, ConcatProperties DEF Figures
<1>10. Len(d.frac) \in Nat /\ Len(d.whole) \in Nat
  BY <1>1 DEF Figures
<1>3. \A i \in 1..k : z[i] \in 0..9 /\ z[i] = IF i <= Len(d.frac) THEN d.frac[i] ELSE 0
  <2> TAKE i \in 1..k
  <2>1. i \in 1..(Len(d.frac) + k) /\ (i > Len(d.frac) => i - Len(d.frac) \in 1..k)
    BY <1>10
  <2>2. z[i] \in 0..9
    BY <1>2, <2>1 DEF Figures
  <2>3. i > Len(d.frac) => Zeros(k)[i - Len(d.frac)] = 0
    BY <2>1, ZerosAreFigures
  <2> QED
    BY <1>2, <1>10, <2>1, <2>2, <2>3
<1> DEFINE t == SubSeq(z, 1, k)
<1> HIDE DEF z
<1>4. Len(d.frac) \in Nat /\ Len(d.whole) \in Nat
  BY <1>1 DEF Figures
<1>5. t \in Figures /\ Len(t) = k /\ \A i \in 1..k : t[i] = z[i]
  <2>1. \A i \in 1..k : z[i] \in 0..9
    BY <1>3
  <2>2. /\ t \in Seq(0..9) /\ Len(t) = IF 1 <= k THEN k - 1 + 1 ELSE 0
        /\ \A i \in 1..(k - 1 + 1) : t[i] = z[1 + i - 1]
    BY <2>1, SubSeqProperties
  <2>3. k - 1 + 1 = k /\ \A i \in 1..k : 1 + i - 1 = i
    OBVIOUS
  <2> HIDE DEF t
  <2> QED
    BY <2>2, <2>3 DEF Figures
<1> HIDE DEF t
<1>6. /\ d.whole \o t \in Seq(0..9)
      /\ Len(d.whole \o t) = Len(d.whole) + Len(t)
      /\ \A i \in 1..(Len(d.whole) + Len(t)) :
           (d.whole \o t)[i] = IF i <= Len(d.whole) THEN d.whole[i] ELSE t[i - Len(d.whole)]
  <2>1. d.whole \in Seq(0..9) /\ t \in Seq(0..9)
    BY <1>1, <1>5 DEF Figures
  <2> QED
    BY <2>1, ConcatProperties
<1>8. Kept(d, k) = d.whole \o t
  BY DEF Kept, t, z
<1>9. PICK w \in Nat, f \in Nat : w = Len(d.whole) /\ f = Len(d.frac)
  BY <1>4
<1>11. ASSUME NEW i \in 1..(w + k), i > w
       PROVE  t[i - w] = IF i <= w + f THEN d.frac[i - w] ELSE 0
  <2>1. i - w \in 1..k /\ (i - w <= f <=> i <= w + f)
    BY <1>11
  <2> QED
    BY <1>3, <1>5, <1>9, <2>1
<1>12. \A i \in 1..(w + k) :
         (d.whole \o t)[i] = IF i <= w THEN d.whole[i] ELSE t[i - w]
  BY <1>5, <1>6, <1>9
<1>13. \A i \in 1..(w + k) :
         (d.whole \o t)[i] = IF i <= w THEN d.whole[i]
                             ELSE IF i <= w + f THEN d.frac[i - w] ELSE 0
  <2> TAKE i \in 1..(w + k)
  <2>1. CASE i <= w
    BY <1>12, <2>1
  <2>2. CASE ~(i <= w)
    <3>1. i > w
      BY <2>2
    <3> QED
      BY <1>11, <1>12, <2>2, <3>1
  <2> QED
    BY <2>1, <2>2
<1> QED
  BY <1>5, <1>6, <1>8, <1>9, <1>13 DEF Figures
LEMMA WrittenDigits ==
  ASSUME NEW d \in Money
  PROVE  LET c == d.whole \o d.frac
             w == Len(d.whole)
             f == Len(d.frac)
         IN  /\ c \in Figures /\ Len(c) = w + f /\ w \in Nat /\ f \in Nat
             /\ \A i \in 1..(w + f) : c[i] = IF i <= w THEN d.whole[i] ELSE d.frac[i - w]
<1>1. d.whole \in Seq(0..9) /\ d.frac \in Seq(0..9)
  BY DEF Money, Figures
<1>2. Len(d.whole) \in Nat /\ Len(d.frac) \in Nat
  BY <1>1
<1>3. /\ d.whole \o d.frac \in Seq(0..9)
      /\ Len(d.whole \o d.frac) = Len(d.whole) + Len(d.frac)
      /\ \A i \in 1..(Len(d.whole) + Len(d.frac)) :
           (d.whole \o d.frac)[i] =
             IF i <= Len(d.whole) THEN d.whole[i] ELSE d.frac[i - Len(d.whole)]
  BY <1>1, ConcatProperties
<1> QED
  BY <1>2, <1>3 DEF Figures

(* A fraction that fits the decimals is filled up with zeros. *)
LEMMA FilledUp ==
  ASSUME NEW d \in Money, NEW k \in Nat, Len(d.frac) <= k
  PROVE  Exact(d, k)
<1> DEFINE c == d.whole \o d.frac
           g == Kept(d, k)
<1>1. PICK w \in Nat, f \in Nat : w = Len(d.whole) /\ f = Len(d.frac)
  BY WrittenDigits
<1>2. /\ c \in Figures /\ Len(c) = w + f
      /\ \A i \in 1..(w + f) : c[i] = IF i <= w THEN d.whole[i] ELSE d.frac[i - w]
  BY <1>1, WrittenDigits
<1>3. /\ g \in Figures /\ Len(g) = w + k
      /\ \A i \in 1..(w + k) :
           g[i] = IF i <= w THEN d.whole[i] ELSE IF i <= w + f THEN d.frac[i - w] ELSE 0
  BY <1>1, KeptDigits
<1>4. Digitwise(d) = Read(0, c, w + f) /\ Numeral(g) = Read(0, g, w + k)
  BY <1>2, <1>3 DEF Digitwise, Numeral, Read
<1>5. f <= k
  BY <1>1
<1> HIDE DEF c, g
<1>6. Read(0, c, w + f) = Read(0, g, w + f)
  <2>1. w + f \in Nat /\ w + f <= w + k
    BY <1>5
  <2>2. \A i \in 1..(w + f) : i \in 1..(w + k) /\ c[i] = g[i]
    BY <1>2, <1>3, <1>5
  <2>3. \A i \in 0..(w + f) : Read(0, c, i) = Read(0, g, i)
    BY <1>2, <1>3, <2>1, <2>2, SameDigits
  <2> QED
    BY <2>1, <2>3
<1>7. Read(0, g, w + k) = Read(0, g, w + f) * TenTo(k - f) /\ Read(0, g, w + f) \in Nat
  <2>1. w + f \in 0..Len(g) /\ k - f \in 0..(Len(g) - (w + f)) /\ (w + f) + (k - f) = w + k
    BY <1>3, <1>5
  <2>2. ReadsOn(g, w + f, k - f)
    BY <1>3, <2>1, Shift
  <2>3. \A i \in (w + f + 1)..((w + f) + (k - f)) : g[i] = 0
    <3> SUFFICES ASSUME NEW i \in (w + f + 1)..((w + f) + (k - f)) PROVE g[i] = 0
      OBVIOUS
    <3>1. i \in 1..(w + k) /\ ~(i <= w) /\ ~(i <= w + f)
      BY <1>5
    <3> QED
      BY <1>3, <3>1
  <2>4. Read(0, g, w + f) \in Nat
    BY <1>3, <2>1, ReadNat
  <2>5. Read(0, g, (w + f) + (k - f)) = Read(0, g, w + f) * TenTo(k - f) + 0
    BY <2>2, <2>3 DEF ReadsOn
  <2>6. Read(0, g, w + f) * TenTo(k - f) \in Nat
    <3>1. k - f \in Nat
      BY <1>5
    <3> QED
      BY <2>4, <3>1, TenToNext, Reorder
  <2> QED
    BY <2>1, <2>4, <2>5, <2>6
<1>8. TenTo(k) = TenTo(k - f) * TenTo(f)
  <2>1. k - f \in Nat /\ (k - f) + f = k
    BY <1>5
  <2> QED
    BY <2>1, TenToSum
<1>9. ToAtomic(d, k) = Numeral(g)
  <2>1. k + 1..Len(d.frac) = {}
    BY <1>1, <1>5
  <2> QED
    BY <2>1 DEF ToAtomic, Kept, g
<1> DEFINE x == Read(0, g, w + f)
           y == TenTo(k - f)
           z == TenTo(f)
<1>10. x \in Nat /\ y \in Nat /\ z \in Nat /\ z > 0 /\ k - f \in Nat
  <2>1. k - f \in Nat
    BY <1>5
  <2> QED
    BY <1>7, <2>1, TenToPositive
<1>11. /\ Digitwise(d) * TenTo(k) = x * (y * z)
       /\ ToAtomic(d, k) = x * y
       /\ TenTo(Len(d.frac)) = z
  BY <1>1, <1>4, <1>6, <1>7, <1>8, <1>9
<1> HIDE DEF x, y, z
<1>12. x * (y * z) = (x * y) * z /\ x * y \in Nat
  BY <1>10, Reorder
<1>13. ((x * y) * z) % z = 0
  <2>1. ((x * y) * z + 0) % z = 0
    BY <1>10, <1>12, Remainder
  <2>2. (x * y) * z \in Nat
    BY <1>10, <1>12, Reorder
  <2> QED
    BY <2>1, <2>2
<1> QED
  BY <1>11, <1>12, <1>13 DEF Exact

(* A longer one is refused unless the rest of it is zeros. *)
LEMMA CutOff ==
  ASSUME NEW d \in Money, NEW k \in Nat, Len(d.frac) > k
  PROVE  Exact(d, k)
<1> DEFINE c == d.whole \o d.frac
           g == Kept(d, k)
<1>1. PICK w \in Nat, f \in Nat : w = Len(d.whole) /\ f = Len(d.frac)
  BY WrittenDigits
<1>2. /\ c \in Figures /\ Len(c) = w + f
      /\ \A i \in 1..(w + f) : c[i] = IF i <= w THEN d.whole[i] ELSE d.frac[i - w]
  BY <1>1, WrittenDigits
<1>3. /\ g \in Figures /\ Len(g) = w + k
      /\ \A i \in 1..(w + k) :
           g[i] = IF i <= w THEN d.whole[i] ELSE IF i <= w + f THEN d.frac[i - w] ELSE 0
  BY <1>1, KeptDigits
<1>4. Digitwise(d) = Read(0, c, w + f) /\ Numeral(g) = Read(0, g, w + k)
  BY <1>2, <1>3 DEF Digitwise, Numeral, Read
<1>5. f > k
  BY <1>1
<1> HIDE DEF c, g
<1>6. Read(0, c, w + k) = Read(0, g, w + k)
  <2>1. w + k \in Nat /\ w + k <= w + f
    BY <1>5
  <2>2. \A i \in 1..(w + k) : i \in 1..(w + f) /\ i <= w + f /\ c[i] = g[i]
    BY <1>2, <1>3, <1>5
  <2>3. \A i \in 0..(w + k) : Read(0, c, i) = Read(0, g, i)
    BY <1>2, <1>3, <2>1, <2>2, SameDigits
  <2> QED
    BY <2>1, <2>3
<1>7. PICK rest \in Nat :
        /\ Read(0, c, w + f) = Read(0, c, w + k) * TenTo(f - k) + rest
        /\ rest < TenTo(f - k)
        /\ rest = 0 <=> \A i \in (w + k + 1)..(w + f) : c[i] = 0
  <2>1. w + k \in 0..Len(c) /\ f - k \in 0..(Len(c) - (w + k)) /\ (w + k) + (f - k) = w + f
    BY <1>2, <1>5
  <2>2. ReadsOn(c, w + k, f - k)
    BY <1>2, <2>1, Shift
  <2> QED
    BY <2>1, <2>2 DEF ReadsOn
<1>8. TenTo(f) = TenTo(f - k) * TenTo(k)
  <2>1. f - k \in Nat /\ (f - k) + k = f
    BY <1>5
  <2> QED
    BY <2>1, TenToSum
<1>9. (\E i \in k + 1..Len(d.frac) : d.frac[i] # 0) <=> rest # 0
  <2>1. ASSUME NEW i \in (k + 1)..f PROVE c[w + i] = d.frac[i] /\ w + i \in (w + k + 1)..(w + f)
    <3>1. w + i \in 1..(w + f) /\ ~(w + i <= w) /\ (w + i) - w = i
      BY <2>1
    <3> QED
      BY <1>2, <3>1, <2>1
  <2>2. ASSUME NEW j \in (w + k + 1)..(w + f) PROVE c[j] = d.frac[j - w] /\ j - w \in (k + 1)..f
    <3>1. j \in 1..(w + f) /\ ~(j <= w) /\ j - w \in (k + 1)..f
      BY <2>2
    <3> QED
      BY <1>2, <3>1
  <2> QED
    BY <1>1, <1>7, <2>1, <2>2
<1>10. ToAtomic(d, k) = IF rest # 0 THEN Refused ELSE Numeral(g)
  BY <1>9 DEF ToAtomic, Kept, g
<1> DEFINE v == Read(0, c, w + k)
           y == TenTo(f - k)
           z == TenTo(k)
<1>11. v \in Nat /\ y \in Nat /\ z \in Nat /\ z > 0 /\ f - k \in Nat
  <2>1. w + k \in 0..Len(c) /\ f - k \in Nat
    BY <1>2, <1>5
  <2>2. v \in Nat
    BY <1>2, <2>1, ReadNat
  <2> QED
    BY <2>1, <2>2, TenToPositive
<1>12. /\ Digitwise(d) * TenTo(k) = (v * y + rest) * z
       /\ TenTo(Len(d.frac)) = y * z
       /\ ToAtomic(d, k) = IF rest # 0 THEN Refused ELSE v
       /\ rest < y
  BY <1>1, <1>4, <1>6, <1>7, <1>8, <1>10
<1> HIDE DEF v, y, z
<1>13. (v * y + rest) * z = v * (y * z) + rest * z
  <2>1. v * y \in Nat
    BY <1>11, Reorder
  <2> QED
    BY <2>1, <1>11, Reorder
<1>14. /\ y * z \in Nat /\ y * z > 0
       /\ rest * z \in Nat /\ rest * z < y * z /\ (rest * z = 0 <=> rest = 0)
  <2>1. rest * z < y * z
    BY <1>11, <1>12, Cancels
  <2>2. y * z \in Nat /\ rest * z \in Nat
    BY <1>11, Reorder
  <2>3. rest * z = 0 * z => rest = 0
    BY <1>11, Cancels
  <2>4. 0 * z = 0
    BY <1>11
  <2> QED
    BY <2>1, <2>2, <2>3, <2>4
<1>15. (v * (y * z) + rest * z) % (y * z) = rest * z
  <2> DEFINE n == y * z
             r == rest * z
  <2>1. n \in Nat /\ n > 0 /\ r \in Nat /\ r < n
    BY <1>14
  <2> HIDE DEF n, r
  <2>2. (v * n + r) % n = r
    BY <1>11, <2>1, Remainder
  <2> QED
    BY <2>2 DEF n, r
<1>16. CASE rest = 0
  <2>1. v * (y * z) + rest * z = v * (y * z)
    <3>1. rest * z = 0
      BY <1>14, <1>16
    <3>2. v * (y * z) \in Nat
      BY <1>11, <1>14, Reorder
    <3> QED
      BY <3>1, <3>2
  <2> QED
    BY <1>11, <1>12, <1>13, <1>14, <1>15, <1>16, <2>1 DEF Exact
<1>17. CASE rest # 0
  BY <1>12, <1>13, <1>14, <1>15, <1>17 DEF Exact
<1> QED
  BY <1>16, <1>17

LEMMA EveryAmountExact ==
  ASSUME NEW d \in Money, NEW k \in Nat
  PROVE  Exact(d, k)
<1>1. Len(d.frac) \in Nat
  BY WrittenDigits
<1> QED
  BY <1>1, FilledUp, CutOff
------------------------------------------------------------------------------
(* The bills the runs enumerate, and any other. *)
Bills == [amount : Money, received : Money, decimals : Nat]

LEMMA InitBills ==
  ASSUME InitAmounts
  PROVE  bill \in Bills
<1>1. Decimals \subseteq Money
  <2>1. SeqOf(Digits, MaxDigits) \subseteq Figures
    <3> SUFFICES ASSUME NEW m \in 0..MaxDigits, NEW s \in [1..m -> Digits]
                 PROVE  s \in Figures
      BY DEF SeqOf
    <3>1. Digits \subseteq 0..9 /\ m \in Nat
      BY AmountsAssumption DEF AmountsAssumption
    <3>2. s \in [1..m -> 0..9]
      BY <3>1
    <3> QED
      BY <3>1, <3>2 DEF Figures
  <2> QED
    BY <2>1 DEF Decimals, Money
<1> QED
  BY <1>1, AmountsAssumption DEF AmountsAssumption, InitAmounts, Bills

SpecAmounts == InitAmounts /\ [][FALSE]_bill

LEMMA BillsAlways == SpecAmounts => [](bill \in Bills)
<1>1. bill \in Bills /\ [FALSE]_bill => (bill \in Bills)'
  OBVIOUS
<1> QED
  BY InitBills, <1>1, PTL DEF SpecAmounts

(* An amount of any length converts, for a token of any decimals, to the   *)
(* units it is worth, to the last one, and is refused exactly when it is   *)
(* no whole number of them (toAtomic).                                     *)
THEOREM AmountsConvertExactly == SpecAmounts => []AtomicExact
<1>1. bill \in Bills => AtomicExact
  <2> SUFFICES ASSUME bill \in Bills PROVE AtomicExact
    OBVIOUS
  <2>1. Exact(bill.amount, bill.decimals)
    BY EveryAmountExact DEF Bills
  <2> QED
    BY <2>1 DEF Exact, AtomicExact
<1> QED
  BY BillsAlways, <1>1, PTL

(* Two amounts, the first divided by a power of ten p, the other by q, are *)
(* worth e and r units of a token each; they compare as the units do.      *)
LEMMA UnitsCompare ==
  ASSUME NEW e \in Nat, NEW r \in Nat, NEW a \in Nat, NEW b \in Nat,
         NEW p \in Nat, NEW q \in Nat, NEW t \in Nat, p > 0, q > 0, t > 0,
         e * p = a * t, r * q = b * t
  PROVE  /\ r = e => b * p = a * q
         /\ r < e => b * p < a * q
         /\ r > e => b * p > a * q
<1> DEFINE x == b * p
           y == a * q
           u == r * (p * q)
           v == e * (p * q)
<1>1. p * q \in Nat /\ p * q > 0
  OBVIOUS
<1>2. x * t = u
  <2>1. (b * p) * t = (b * t) * p
    BY Reorder
  <2>2. (r * q) * p = r * (p * q)
    BY Reorder
  <2> QED
    BY <2>1, <2>2
<1>3. y * t = v
  <2>1. (a * q) * t = (a * t) * q
    BY Reorder
  <2>2. (e * p) * q = e * (p * q)
    BY Reorder
  <2> QED
    BY <2>1, <2>2
<1>4. x \in Nat /\ y \in Nat /\ u \in Nat /\ v \in Nat
  BY <1>1, Reorder
<1>5. (r = e => u = v) /\ (r < e => u < v) /\ (r > e => u > v)
  BY <1>1, Cancels
<1> HIDE DEF x, y, u, v
<1>6. (x = y <=> u = v) /\ (x < y => u < v) /\ (y < x => v < u)
  BY <1>2, <1>3, <1>4, Cancels
<1>7. (r = e => x = y) /\ (r < e => x < y) /\ (r > e => x > y)
  BY <1>4, <1>5, <1>6
<1> QED
  BY <1>7 DEF x, y

(* A payment of any amount is called exact, short or over by what the two  *)
(* amounts are worth, however they are written (comparePayment).           *)
THEOREM PaymentsCompareExactly == SpecAmounts => []ComparedExactly
<1>1. bill \in Bills => ComparedExactly
  <2> SUFFICES ASSUME bill \in Bills PROVE ComparedExactly
    OBVIOUS
  <2> DEFINE x == bill.amount
             y == bill.received
             k == bill.decimals
             e == ToAtomic(x, k)
             r == ToAtomic(y, k)
             state == ComparePayment(x, y, k)
  <2>1. x \in Money /\ y \in Money /\ k \in Nat
    BY DEF Bills
  <2>2. Exact(x, k) /\ Exact(y, k)
    BY <2>1, EveryAmountExact
  <2> DEFINE a == Digitwise(x)
             b == Digitwise(y)
             p == TenTo(Len(x.frac))
             q == TenTo(Len(y.frac))
             t == TenTo(k)
  <2>3. /\ a \in Nat /\ b \in Nat
        /\ p \in Nat /\ p > 0 /\ q \in Nat /\ q > 0 /\ t \in Nat /\ t > 0
    <3>1. /\ Len(x.frac) \in Nat /\ Len(y.frac) \in Nat
      BY <2>1, WrittenDigits
    <3>2. \A d \in Money : Digitwise(d) \in Nat
      <4> TAKE d \in Money
      <4> DEFINE c == d.whole \o d.frac
      <4>1. c \in Figures
        BY WrittenDigits
      <4> HIDE DEF c
      <4>2. Len(c) \in Nat /\ Len(c) \in 0..Len(c)
        BY <4>1 DEF Figures
      <4>3. Read(0, c, Len(c)) \in Nat
        BY <4>1, <4>2, ReadNat
      <4> QED
        BY <4>3 DEF Digitwise, Numeral, Read, c
    <3> QED
      BY <2>1, <3>1, <3>2, TenToPositive
  <2>4. e # Refused => e \in Nat /\ e * p = a * t
    BY <2>2 DEF Exact
  <2>5. r # Refused => r \in Nat /\ r * q = b * t
    BY <2>2 DEF Exact
  <2>6. state = IF e = Refused \/ r = Refused THEN "error"
                ELSE IF r = 0 THEN "none"
                ELSE IF r = e THEN "exact" ELSE IF r < e THEN "underpaid" ELSE "overpaid"
    <3> HIDE DEF e, r, x, y, k
    <3>1. CASE e = Refused \/ r = Refused
      BY <3>1 DEF state, ComparePayment, e, r, Refused
    <3>2. CASE e # Refused /\ r = 0
      BY <3>2 DEF state, ComparePayment, e, r, Refused
    <3>3. CASE e # Refused /\ r # Refused /\ r # 0
      <4>1. r > 0
        BY <2>5, <3>3
      <4> QED
        BY <3>3, <4>1 DEF state, ComparePayment, e, r
    <3> QED
      BY <3>1, <3>2, <3>3
  <2>7. Over(x, y) = a * q /\ Over(y, x) = b * p
    BY DEF Over
  <2> HIDE DEF a, b, p, q, t
  <2> DEFINE oe == Over(x, y)
             or == Over(y, x)
  <2>8. /\ state = "exact"     => or = oe
        /\ state = "underpaid" => or < oe
        /\ state = "overpaid"  => or > oe
        /\ state = "none"      => or = 0
        /\ state = "error"     => e = Refused \/ r = Refused
    <3> HIDE DEF e, r, state, x, y, k
    <3>1. CASE e = Refused \/ r = Refused
      BY <2>6, <3>1
    <3>2. CASE e # Refused /\ r # Refused
      <4>1. /\ r = e => or = oe
            /\ r < e => or < oe
            /\ r > e => or > oe
        BY <2>3, <2>4, <2>5, <2>7, <3>2, UnitsCompare
      <4>2. r = 0 => or = 0
        <5> SUFFICES ASSUME r = 0 PROVE or = 0
          OBVIOUS
        <5>1. b * t = 0 * t
          BY <2>3, <2>5, <3>2
        <5>2. b = 0
          BY <2>3, <5>1, Cancels
        <5>3. 0 * p = 0
          BY <2>3
        <5> QED
          BY <2>7, <5>2, <5>3
      <4>3. r \in Nat /\ e \in Nat
        BY <2>4, <2>5, <3>2
      <4> HIDE DEF or, oe
      <4> QED
        BY <2>6, <3>2, <4>1, <4>2, <4>3
    <3> QED
      BY <3>1, <3>2
  <2> QED
    BY <2>8 DEF ComparedExactly
<1> QED
  BY BillsAlways, <1>1, PTL
==============================================================================
