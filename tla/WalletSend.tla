----------------------------- MODULE WalletSend -----------------------------
(***************************************************************************)
(* One wallet that pays several orders at once, each by an invocation of   *)
(* send-evm.mjs or send-sol.mjs: the checks of balances and fees before    *)
(* the signature (lib/gas.mjs, lib/native-send.mjs), the transaction on    *)
(* its chain, and what is recorded of it (lib/outcomes.mjs).  The order's  *)
(* own gates and its state file are in SendFlow; the invocations here      *)
(* share nothing but the wallet, which no lock covers and which its owner  *)
(* uses elsewhere too.                                                     *)
(***************************************************************************)
EXTENDS Integers, Sequences, FiniteSets, FiniteSetsExt

CONSTANTS
  Orders,      \* orders paid from the wallet
  Forms,       \* bound: what an order may ask for, see FormType
  Coins,       \* bound: the wallet's balances of the chain's native coin
  Tokens,      \* bound: its balances of the token
  Prices,      \* bound: what the network asks per unit of gas
  Gas,         \* gas a transfer takes
  DataFees,    \* bound: what Ethereum asks for its data (OP stack; {0} elsewhere)
  BufferPct,   \* gasBufferPct
  SolFee,      \* fee of a Solana transaction
  RentMin,     \* getMinimumBalanceForRentExemption(0)
  MaxWorld     \* bound: times the owner spends or a price moves

(* A plain wallet or a new one, the order's token account or its owner, or *)
(* an account that cannot take the deposit.                                *)
FormType == [native : BOOLEAN, due : Nat, dest : {"wallet", "new", "tokens", "other"}]

ASSUME WalletSendAssumption ==
  /\ IsFiniteSet(Orders)
  /\ Coins \cup Tokens \cup Prices \cup DataFees \subseteq Nat
  /\ {Gas, BufferPct, SolFee, RentMin, MaxWorld} \subseteq Nat
  /\ Forms \subseteq FormType
  /\ \A f \in Forms : f.due # 0

VARIABLES
  family,     \* "evm" or "solana"
  form,       \* form[o]: the confirmed deposit of order o
  price,      \* what the network asks now per unit of gas
  dataFee,    \* what Ethereum asks now for the data of a transfer
  wallet,     \* the balances on chain
  mined,      \* did the transaction with nonce n (from 0) succeed?
  pay,        \* pay[o]: the invocation
  transfer,   \* transfer[o]: what became of its transaction
  outcome,    \* outcome[o]: the status in its send record
  disturbed,  \* history: orders after whose first check the wallet was used
              \* otherwise, or the fee outgrew the buffer
  short       \* history: orders locked by a transfer a node refused or that failed

walletVars == <<family, form, price, dataFee, wallet, mined, pay, transfer, outcome,
                disturbed, short>>

PayType ==
  [at    : {"start", "funds", "coin", "ready", "signed", "claimed", "unheard",
            "accepted", "waiting", "done"},
   coin  : Nat, quoted : Nat, price : Nat, nonce : Nat]

TypeOKWallet ==
  /\ family \in {"evm", "solana"}
  /\ form \in [Orders -> FormType]
  /\ price \in Nat
  /\ dataFee \in Nat
  /\ wallet \in [coin : Nat, tokens : Nat, moves : 0..MaxWorld]
  /\ mined \in Seq(BOOLEAN)
  /\ pay \in [Orders -> PayType]
  /\ transfer \in [Orders -> {"unsent", "posted", "landed", "reverted", "replaced", "gone"}]
  /\ outcome \in [Orders -> {"none", "claimed", "submitted", "confirmed", "ambiguous", "failed"}]
  /\ disturbed \subseteq Orders
  /\ short \subseteq Orders

NotBegun == [at |-> "start", coin |-> 0, quoted |-> 0, price |-> 0, nonce |-> 0]
Stopped  == [NotBegun EXCEPT !.at = "done"]

InitWallet ==
  /\ family \in {"evm", "solana"}
  /\ form \in [Orders -> {f \in Forms : family = "evm" => f.dest = "wallet"}]
  /\ price \in IF family = "evm" THEN Prices ELSE {0}
  /\ dataFee \in IF family = "evm" THEN DataFees ELSE {0}
  /\ wallet \in [coin : Coins, tokens : Tokens, moves : {0}]
  /\ mined = <<>>
  /\ pay = [o \in Orders |-> NotBegun]
  /\ transfer = [o \in Orders |-> "unsent"]
  /\ outcome = [o \in Orders |-> "none"]
  /\ disturbed = {}
  /\ short = {}

------------------------------------------------------------------------------
(* The checks before the signature. *)

(* Every check may also fail because a node does not answer; either way    *)
(* the order stays as it was.                                              *)
CheckWallet(o, from, ok, learnt) ==
  /\ pay[o].at = from
  /\ \E heard \in BOOLEAN :
       pay' = [pay EXCEPT ![o] = IF heard /\ ok THEN learnt ELSE Stopped]
  /\ UNCHANGED <<family, form, price, dataFee, wallet, mined, transfer, outcome, disturbed, short>>

(* The part of the order paid in the coin that also pays the fee. *)
Value(o) == IF form[o].native THEN form[o].due ELSE 0

Held(o) == IF form[o].native THEN wallet.coin ELSE wallet.tokens

(* Mutant: a new account may be opened with less than the rent minimum. *)
AccountTakesAny(f) == IF f.native THEN f.dest \in {"wallet", "new"} ELSE f.dest = "tokens"

(* On Solana a coin goes to a plain wallet, or opens one with at least the *)
(* rent minimum; a token goes to a token account of its mint, given or     *)
(* derived.                                                                *)
AccountTakes(f) ==
  IF f.native THEN f.dest = "wallet" \/ (f.dest = "new" /\ f.due >= RentMin)
              ELSE f.dest = "tokens"

ReadFunds(o) ==
  CheckWallet(o, "start", Held(o) >= form[o].due /\ (family = "solana" => AccountTakes(form[o])),
              [pay[o] EXCEPT !.at = "funds"])

ReadFeeCoin(o) ==
  CheckWallet(o, "funds", TRUE, [pay[o] EXCEPT !.at = "coin", !.coin = wallet.coin])

Buffered(amount) == (amount * (100 + BufferPct) + 99) \div 100

(* What the network charges at a price: the signed one bounds the gas,     *)
(* nothing signed bounds the data.                                         *)
EvmCost(signed, data) == Gas * signed + data

(* Mutant: the data fee of an OP-stack chain is forgotten. *)
EvmFeeGasOnly == Buffered(Gas) * price

(* evmGasPrecheck: the fee at the prices asked now, each with a margin. *)
EvmFee == Buffered(Gas) * price + Buffered(dataFee)

(* Mutant: the payment itself is not counted against the fee coin. *)
EvmFeeAlone(o) == EvmFee

EvmRequired(o) == EvmFee + Value(o)

(* Mutant: the rent minimum is forgotten. *)
SolNoRent(o) == SolFee + Value(o)

(* solFeePrecheck: the payer ends at zero, or not below the rent minimum.  *)
SolRequired(o) ==
  LET spent == SolFee + Value(o)
  IN  IF pay[o].coin = spent THEN spent ELSE spent + RentMin

CheckFee(o) ==
  CheckWallet(o, "coin",
              pay[o].coin >= IF family = "evm" THEN EvmRequired(o) ELSE SolRequired(o),
              [pay[o] EXCEPT !.at = "ready", !.coin = 0,
                             !.quoted = IF family = "evm" THEN EvmCost(price, dataFee) ELSE 0])

(* A fee has grown by more than gasBufferPct since the order's precheck. *)
Outgrown(o, cost) == 100 * cost > (100 + BufferPct) * pay[o].quoted

(* The first nonce that no transaction known to the network uses. *)
NextNonce ==
  Min({n \in Len(mined)..(Len(mined) + Cardinality(Orders)) :
         \A o \in Orders : ~(transfer[o] = "posted" /\ pay[o].nonce = n)})

(* prepareTransactionRequest asks for the nonce and the price again, then  *)
(* the signature fixes both.                                               *)
SignTransfer(o) ==
  /\ pay[o].at = "ready"
  /\ pay' = [pay EXCEPT ![o] = IF family = "evm"
       THEN [pay[o] EXCEPT !.at = "signed", !.price = price, !.nonce = NextNonce]
       ELSE [NotBegun EXCEPT !.at = "signed"]]
  /\ disturbed' = IF family = "evm" /\ Outgrown(o, EvmCost(price, dataFee))
                    THEN disturbed \cup {o} ELSE disturbed
  /\ UNCHANGED <<family, form, price, dataFee, wallet, mined, transfer, outcome, short>>

------------------------------------------------------------------------------
(* The claim, the broadcast, and what is recorded. *)

(* The last gate may refuse; else claimSend locks the order for good. *)
ClaimTransfer(o) ==
  /\ pay[o].at = "signed"
  /\ \/ /\ pay' = [pay EXCEPT ![o].at = "claimed"]
        /\ outcome' = [outcome EXCEPT ![o] = "claimed"]
     \/ /\ pay' = [pay EXCEPT ![o] = Stopped]
        /\ UNCHANGED outcome
  /\ UNCHANGED <<family, form, price, dataFee, wallet, mined, transfer, disturbed, short>>

Cost(o) == IF family = "evm" THEN EvmCost(pay[o].price, dataFee) ELSE SolFee

(* The coin suffices, and a Solana payer ends at zero or not below the     *)
(* rent minimum.                                                           *)
Affordable(o) ==
  LET left == wallet.coin - Cost(o) - Value(o)
  IN  left >= 0 /\ (family = "solana" => left = 0 \/ left >= RentMin)

(* Coins may go anywhere but into a new account below the rent minimum.    *)
ChainTakes(f) == IF f.native THEN f.dest = "new" => f.due >= RentMin ELSE f.dest = "tokens"

Succeeds(o) ==
  /\ Held(o) >= form[o].due
  /\ family = "solana" => Affordable(o) /\ ChainTakes(form[o])

SameNonce(o) == {p \in Orders \ {o} : transfer[p] = "posted" /\ pay[p].nonce = pay[o].nonce}

(* What a node takes: on an EVM chain the next nonce at a price that beats *)
(* a transaction it replaces, on Solana what it can simulate.              *)
NonceTaken(o) ==
  /\ pay[o].nonce >= Len(mined)
  /\ \A p \in SameNonce(o) : pay[o].price > pay[p].price

Accepts(o) ==
  IF family = "evm" THEN NonceTaken(o) /\ Affordable(o) ELSE Succeeds(o)

(* Orders under way whose checks did not see what the wallet now spends.   *)
Disturb(who) ==
  disturbed' = disturbed \cup {p \in who :
                 \/ transfer[p] = "posted"
                 \/ pay[p].at \in {"funds", "coin", "ready", "signed", "claimed"}}

PostTransfer(o) ==
  /\ pay[o].at = "claimed"
  /\ \E told \in BOOLEAN :
       /\ told => Accepts(o)
       /\ pay' = [pay EXCEPT ![o].at = IF told THEN "accepted" ELSE "unheard"]
       /\ \/ /\ Accepts(o)
             /\ transfer' = [p \in Orders |->
                  IF p = o THEN "posted"
                  ELSE IF family = "evm" /\ p \in SameNonce(o) THEN "replaced"
                  ELSE transfer[p]]
             /\ Disturb(Orders \ {o})
             /\ UNCHANGED short
          \/ /\ ~told
             /\ short' = IF Accepts(o) THEN short ELSE short \cup {o}
             /\ UNCHANGED <<transfer, disturbed>>
  /\ UNCHANGED <<family, form, price, dataFee, wallet, mined, outcome>>

NonceUsed(o) == family = "evm" /\ Len(mined) > pay[o].nonce

OnRecord(o, from, status, next) ==
  /\ pay[o].at = from
  /\ pay' = [pay EXCEPT ![o].at = next]
  /\ outcome' = [outcome EXCEPT ![o] = status]
  /\ UNCHANGED <<family, form, price, dataFee, wallet, mined, transfer, disturbed, short>>

(* Mutant: a nonce not used yet counts as well. *)
LookUpPending(o) ==
  \E landed \in BOOLEAN :
    OnRecord(o, "unheard", IF landed THEN "ambiguous" ELSE "failed", "done")

(* Mutant: a look-up that finds nothing is recorded as one. *)
LookUpUnknown(o) ==
  \E landed \in BOOLEAN :
    OnRecord(o, "unheard", IF landed THEN "ambiguous" ELSE "unknown", "done")

(* One look-up of the hash; on an EVM chain then of the wallet's nonce.    *)
LookUp(o) ==
  \E landed \in BOOLEAN :
    /\ landed => transfer[o] \in {"posted", "landed", "reverted"} \/ NonceUsed(o)
    /\ OnRecord(o, "unheard", IF landed THEN "ambiguous" ELSE "failed", "done")

RecordAccepted(o) == OnRecord(o, "accepted", "submitted", "waiting")

(* broadcastOutcome, of a receipt that was seen. *)
BroadcastOutcome(success) == IF success THEN "confirmed" ELSE "failed"

(* Mutant: any receipt is a success. *)
ReceiptSeen(o) ==
  /\ IF family = "evm" THEN NonceUsed(o) ELSE transfer[o] \in {"landed", "reverted"}
  /\ OnRecord(o, "waiting", "confirmed", "done")

(* On Solana the answer is about the signature asked for; on an EVM chain  *)
(* viem returns the receipt of whichever transaction took the nonce.       *)
ReceiptFound(o) ==
  /\ IF family = "evm" THEN NonceUsed(o) ELSE transfer[o] \in {"landed", "reverted"}
  /\ LET success == IF family = "evm" THEN mined[pay[o].nonce + 1] ELSE transfer[o] = "landed"
     IN  OnRecord(o, "waiting", BroadcastOutcome(success), "done")

(* No receipt in 120 s, or before the blockhash expires. *)
ReceiptTimeout(o) == OnRecord(o, "waiting", outcome[o], "done")

WalletStep(o) ==
  \/ ReadFunds(o) \/ ReadFeeCoin(o) \/ CheckFee(o) \/ SignTransfer(o)
  \/ ClaimTransfer(o) \/ PostTransfer(o) \/ LookUp(o) \/ RecordAccepted(o)
  \/ ReceiptFound(o) \/ ReceiptTimeout(o)

------------------------------------------------------------------------------
(* The chain, and the owner. *)

(* A transaction is included in its turn, charged in full, and succeeds or *)
(* fails; one that cannot be charged is not included.                      *)
Include(o) ==
  LET ok == Succeeds(o) IN
  /\ transfer[o] = "posted"
  /\ IF family = "evm" THEN Affordable(o) /\ pay[o].nonce = Len(mined) /\ pay[o].price >= price
                       ELSE wallet.coin >= SolFee
  /\ transfer' = [transfer EXCEPT ![o] = IF ok THEN "landed" ELSE "reverted"]
  /\ short' = IF ok THEN short ELSE short \cup {o}
  /\ wallet' = [wallet EXCEPT
        !.coin = @ - Cost(o) - IF ok THEN Value(o) ELSE 0,
        !.tokens = @ - IF ok THEN form[o].due - Value(o) ELSE 0]
  /\ mined' = IF family = "evm" THEN Append(mined, ok) ELSE mined
  /\ Disturb(Orders \ {o})
  /\ UNCHANGED <<family, form, price, dataFee, pay, outcome>>

(* A posted transaction is forgotten: evicted, or its blockhash expired.   *)
Forget(o) ==
  /\ transfer[o] = "posted"
  /\ transfer' = [transfer EXCEPT ![o] = "gone"]
  /\ short' = IF Affordable(o) THEN short ELSE short \cup {o}
  /\ UNCHANGED <<family, form, price, dataFee, wallet, mined, pay, outcome, disturbed>>

(* The owner spends all of a balance, or a fee too small to count, and on  *)
(* an EVM chain takes the next nonce, as a cancellation does.              *)
OwnerSpends ==
  /\ wallet.moves < MaxWorld
  /\ \E coin \in {0, wallet.coin}, tokens \in {0, wallet.tokens} :
       wallet' = [coin |-> coin, tokens |-> tokens, moves |-> wallet.moves + 1]
  /\ transfer' = [o \in Orders |->
        IF family = "evm" /\ transfer[o] = "posted" /\ pay[o].nonce = Len(mined)
          THEN "replaced" ELSE transfer[o]]
  /\ mined' = IF family = "evm" THEN Append(mined, TRUE) ELSE mined
  /\ Disturb(Orders)
  /\ UNCHANGED <<family, form, price, dataFee, pay, outcome, short>>

(* A signed transfer keeps its price, so what the network asks later only  *)
(* delays it.                                                              *)
PriceMoves ==
  /\ family = "evm"
  /\ wallet.moves < MaxWorld
  /\ wallet' = [wallet EXCEPT !.moves = @ + 1]
  /\ price' \in Prices \ {price}
  /\ UNCHANGED <<family, form, dataFee, mined, pay, transfer, outcome, disturbed, short>>

(* Ethereum's base fee moves, and with it what a signed transfer costs.    *)
DataFeeMoves ==
  /\ family = "evm"
  /\ wallet.moves < MaxWorld
  /\ wallet' = [wallet EXCEPT !.moves = @ + 1]
  /\ dataFee' \in DataFees \ {dataFee}
  /\ disturbed' = disturbed \cup {o \in Orders :
        /\ pay[o].at \in {"signed", "claimed"} \/ transfer[o] = "posted"
        /\ Outgrown(o, EvmCost(pay[o].price, dataFee'))}
  /\ UNCHANGED <<family, form, price, mined, pay, transfer, outcome, short>>

NextWallet ==
  \/ \E o \in Orders : WalletStep(o) \/ Include(o) \/ Forget(o)
  \/ OwnerSpends \/ PriceMoves \/ DataFeeMoves

SpecWallet == InitWallet /\ [][NextWallet]_walletVars

------------------------------------------------------------------------------
(* An order is never locked by a transfer that could not succeed, unless   *)
(* the wallet was used otherwise after the order's first check, or the fee *)
(* grew by more than the buffer after its check: through the price before  *)
(* the signature, through the data fee of an OP-stack chain at any time    *)
(* (gas.mjs: "Both now stop before signing"; send-sol.mjs: a broadcast     *)
(* that fails for want of SOL "would otherwise lock this order against any *)
(* further automated send").                                               *)
LockedOnlyIfDisturbed == short \subseteq disturbed

(* The record claims no more than the chain shows: "submitted" was taken   *)
(* by a node, "ambiguous" was seen or its nonce is used, "confirmed"       *)
(* landed, or another transaction of the wallet with its nonce did.        *)
OutcomeNotAhead ==
  \A o \in Orders :
    /\ outcome[o] = "submitted" => transfer[o] # "unsent"
    /\ outcome[o] = "ambiguous" => transfer[o] # "unsent" \/ NonceUsed(o)
    /\ outcome[o] = "confirmed" =>
         transfer[o] = "landed" \/ (NonceUsed(o) /\ mined[pay[o].nonce + 1])

(* An order recorded as confirmed was paid ("0 confirmed", send-evm.mjs).  *)
ConfirmedLanded ==
  \A o \in Orders : outcome[o] = "confirmed" => transfer[o] = "landed"
==============================================================================
