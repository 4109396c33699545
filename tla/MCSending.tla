------------------------------ MODULE MCSending ------------------------------
(***************************************************************************)
(* Sending, for TLC: two invocations on one stablecoin order (SendFlow),   *)
(* two orders paid from one wallet (WalletSend), or an amount to convert   *)
(* and compare (Amounts).  A behaviour is of one kind and leaves the       *)
(* variables of the others alone.                                          *)
(***************************************************************************)
EXTENDS MCSendFlow, WalletSend, Amounts

CONSTANTS o1, o2, kinds   \* kinds: those of the run

VARIABLE kind

sendingVars == <<kind, flowVars, walletVars, bill>>

SendingSymmetry == MCSymmetry \cup Permutations({o1, o2})

Pays(native, due, dest) == [native |-> native, due |-> due, dest |-> dest]

MCForms == {Pays(TRUE, 10, "wallet"), Pays(FALSE, 10, "wallet"), Pays(TRUE, 10, "new"),
            Pays(TRUE, 20, "new"), Pays(FALSE, 10, "tokens"), Pays(FALSE, 10, "other")}

(* The variables of the other kinds stay at one initial value. *)
MCIntent == CHOOSE i \in IntentType :
              ~i.funded /\ i.payable /\ i.quote = None /\ i.invoiceExpiry = None

MCIdle ==
  /\ family = "evm" /\ \A o, p \in Orders : form[o] = form[p] /\ form[o].native
  /\ price = 5 /\ dataFee = 5 /\ wallet.coin = 15 /\ wallet.tokens = 10

MCBill == LET zero == [whole |-> <<0>>, frac |-> <<>>]
          IN  [amount |-> zero, received |-> zero, decimals |-> 0]

InitSending ==
  /\ kind \in kinds
  /\ InitFlow   /\ (kind # "order" => intent = MCIntent)
  /\ InitWallet /\ (kind # "wallet" => MCIdle)
  /\ IF kind = "bill" THEN InitAmounts ELSE bill = MCBill

NextSending ==
  \/ kind = "order"  /\ NextFlow   /\ UNCHANGED <<kind, walletVars, bill>>
  \/ kind = "wallet" /\ NextWallet /\ UNCHANGED <<kind, flowVars, bill>>

SpecSending == InitSending /\ [][NextSending]_sendingVars
==============================================================================
