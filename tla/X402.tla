-------------------------------- MODULE X402 --------------------------------
(***************************************************************************)
(* x402 payments: scripts/src/x402.mjs with lib/x402.mjs, lib/x402-key.mjs. *)
(* "pay" asks a seller for its price, has Rozo sign a payment out of the   *)
(* prepaid balance, and repeats the request with the signature.  "topup"   *)
(* creates the agent key that owns the balance, once, and shows where to   *)
(* deposit.  Any number of commands run at once; any of them may die.      *)
(*                                                                         *)
(* Rozo's ledger is modelled as SKILL.md:678-717 describes it: it debits   *)
(* in /sign, once per idempotency key, and answers a repeated key with the *)
(* stored signature or, for another requirement, with a conflict.  A       *)
(* request whose sender gave up may still reach it.                        *)
(***************************************************************************)
EXTENDS Integers, FiniteSets

CONSTANTS
  Payers,      \* x402 pay commands
  Topups,      \* x402 topup commands
  IdemKeys,    \* idempotency keys: uuids
  AgentKeys,   \* agent keys Rozo can issue
  EnvKeys,     \* agent keys a command's environment may name
  Challenges,  \* what the seller may ask for: sets of options
  Budget,      \* Budget[p]: --max-usd
  SignRetries, \* SIGN_RETRIES
  Listed,      \* blacklisted addresses
  Nothing

(* One entry of "accepts": "payable" when it is exact USDC on Base with a  *)
(* positive amount and an address (classifyRequirement).                   *)
OptionType == [amount : Nat, payTo : STRING, payable : BOOLEAN]

ASSUME X402Assumption ==
  /\ Challenges \subseteq SUBSET OptionType
  /\ EnvKeys \subseteq AgentKeys
  /\ Budget \in [Payers -> Nat]
  /\ SignRetries \in Nat
  /\ "empty" \notin AgentKeys
  /\ Nothing \notin IdemKeys \cup AgentKeys \cup Payers \cup OptionType \cup {"empty"}

VARIABLES
  payer,     \* what each pay command is doing
  inflight,  \* /sign requests that Rozo may yet process
  debits,    \* Rozo's ledger
  told,      \* the keys handed to the caller, for a rerun
  settlements,   \* the payments the seller has settled
  topup,     \* what each topup command is doing
  keyFile,   \* the key file: Nothing when absent, "empty", or a key
  issued,    \* the agent keys Rozo has issued
  shown      \* history: keys whose deposit address was shown

payVars == <<payer, inflight, debits, told, settlements>>
topupVars == <<topup, keyFile, issued, shown>>
x402Vars == <<payVars, topupVars>>

PayStep == {"call", "sign", "signing", "replay", "again", "done", "dead"}

(* How a pay command ended. *)
PayEnd == {Nothing, "nothing to pay", "planned", "refused", "no key", "disabled",
           "unsigned", "replay failed", "rejected", "paid"}

(* "purchase" is history: the command that began it, of which a rerun with *)
(* the key that one handed back is a part.                                 *)
PayerType == [at : PayStep, option : OptionType \cup {Nothing}, key : IdemKeys \cup {Nothing},
              purchase : Payers \cup {Nothing}, attempt : 0..SignRetries, end : PayEnd]

(* A /sign request, and a debit: the same fields, for one is the other     *)
(* processed.                                                              *)
SignRequest == [by : Payers, key : IdemKeys, purchase : Payers, option : OptionType,
                attempt : 0..SignRetries]

Handed == [key : IdemKeys, purchase : Payers]

TopupStep == {"start", "create", "open", "write", "order", "done", "dead"}
TopupType == [at : TopupStep, key : AgentKeys \cup {Nothing}]

InitX402 ==
  /\ payer = [p \in Payers |-> [at |-> "call", option |-> Nothing, key |-> Nothing,
                                purchase |-> Nothing, attempt |-> 0, end |-> Nothing]]
  /\ inflight = {}
  /\ debits = {}
  /\ told = {}
  /\ settlements = {}
  /\ topup = [t \in Topups |-> [at |-> "start", key |-> Nothing]]
  /\ keyFile \in {Nothing} \cup AgentKeys
  /\ issued = EnvKeys \cup ({keyFile} \ {Nothing})
  /\ shown = {}

------------------------------------------------------------------------------
(* pay: the price. *)

(* Mutant: the cheapest option, whatever it costs. *)
CheapestOf(challenge, budget) ==
  {o \in challenge : o.payable /\ \A q \in challenge : q.payable => o.amount <= q.amount}

(* selectRequirement: the cheapest payable option within the budget.       *)
Select(challenge, budget) ==
  LET within == {o \in challenge : o.payable /\ o.amount <= budget}
  IN {o \in within : \A q \in within : o.amount <= q.amount}

Ends(p, end) == payer' = [payer EXCEPT ![p].at = "done", ![p].end = end]

(* readAgentKey: the environment goes before the file; an empty file holds *)
(* no key.                                                                 *)
AgentKeyRead == EnvKeys \cup {IF keyFile \in AgentKeys THEN keyFile ELSE Nothing}

(* The seller wants no money, or cannot be reached; asks for more than the *)
(* budget, for something Rozo does not sign, or for a listed address; or   *)
(* the caller only wanted to know.  Nothing is signed.                     *)
CallUnpaid(p) ==
  /\ payer[p].at = "call"
  /\ \/ Ends(p, "nothing to pay")
     \/ \E c \in Challenges :
          \/ Select(c, Budget[p]) = {} /\ Ends(p, "refused")
          \/ \E o \in Select(c, Budget[p]) :
               Ends(p, IF o.payTo \in Listed THEN "refused" ELSE "planned")
  /\ UNCHANGED <<inflight, debits, told, settlements, topupVars>>

(* The key of a purchase: a uuid nobody else has, or, in a rerun, the one  *)
(* an earlier run handed back.                                             *)
FreshKeys == IdemKeys \ {payer[q].key : q \in Payers}

Purchases(p) == [key : FreshKeys, purchase : {p}] \cup told

(* The option is chosen and the agent key read. *)
CallPriced(p) ==
  /\ payer[p].at = "call"
  /\ \E c \in Challenges, b \in Purchases(p), agent \in AgentKeyRead :
     \E o \in Select(c, Budget[p]) :
       /\ o.payTo \notin Listed
       /\ IF agent = Nothing THEN Ends(p, "no key")
          ELSE payer' = [payer EXCEPT ![p].at = "sign", ![p].option = o,
                           ![p].key = b.key, ![p].purchase = b.purchase]
  /\ UNCHANGED <<inflight, debits, told, settlements, topupVars>>

------------------------------------------------------------------------------
(* pay: the signature. *)

RequestOf(p) == [by |-> p, key |-> payer[p].key, purchase |-> payer[p].purchase,
                 option |-> payer[p].option, attempt |-> payer[p].attempt]

(* Mutant: each attempt has a key of its own. *)
SendSignFresh(p) ==
  /\ payer[p].at = "sign"
  /\ \E k \in FreshKeys \cup {payer[p].key} :
       /\ payer' = [payer EXCEPT ![p].at = "signing", ![p].key = k]
       /\ inflight' = inflight \cup {[RequestOf(p) EXCEPT !.key = k]}
  /\ UNCHANGED <<debits, told, settlements, topupVars>>

SendSign(p) ==
  /\ payer[p].at = "sign"
  /\ payer' = [payer EXCEPT ![p].at = "signing"]
  /\ inflight' = inflight \cup {RequestOf(p)}
  /\ UNCHANGED <<debits, told, settlements, topupVars>>

(* Rozo debits a key it has not seen; it may take a request at any time,   *)
(* or refuse or lose it.                                                   *)
Debited(k) == \E d \in debits : d.key = k

RozoSigns ==
  /\ \E r \in inflight :
       /\ inflight' = inflight \ {r}
       /\ debits' = IF Debited(r.key) THEN debits ELSE debits \cup {r}
  /\ UNCHANGED <<payer, told, settlements, topupVars>>

(* Only a key debited for this very requirement is answered with its       *)
(* signature; for another one Rozo reports a conflict.                     *)
SignedFor(p) == \E d \in debits : d.key = payer[p].key /\ d.option = payer[p].option

SignAnswered(p) ==
  /\ payer[p].at = "signing"
  /\ SignedFor(p)
  /\ payer' = [payer EXCEPT ![p].at = "replay"]
  /\ UNCHANGED <<inflight, debits, told, settlements, topupVars>>

HandBack(p) == told' = told \cup {[key |-> payer[p].key, purchase |-> payer[p].purchase]}

(* Mutant: the key is handed back only when a signature had come. *)
SignUnusableSilently(p) ==
  /\ payer[p].at = "signing"
  /\ Debited(payer[p].key)
  /\ Ends(p, "unsigned")
  /\ UNCHANGED <<inflight, debits, told, settlements, topupVars>>

(* A refusal, or a payer that is switched off: Rozo does not debit this    *)
(* request.  The error names the key.                                      *)
SignRefused(p, end) ==
  /\ payer[p].at = "signing"
  /\ RequestOf(p) \in inflight
  /\ inflight' = inflight \ {RequestOf(p)}
  /\ Ends(p, end)
  /\ HandBack(p)
  /\ UNCHANGED <<debits, settlements, topupVars>>

(* A conflict, or a success without a signature in it.                     *)
SignUnusable(p) ==
  /\ payer[p].at = "signing"
  /\ Debited(payer[p].key)
  /\ Ends(p, "unsigned")
  /\ HandBack(p)
  /\ UNCHANGED <<inflight, debits, settlements, topupVars>>

(* Mutant: one attempt more than there should be. *)
SignUnansweredOnceMore(p) ==
  /\ payer[p].at = "signing"
  /\ IF payer[p].attempt <= SignRetries
       THEN /\ payer' = [payer EXCEPT ![p].at = "sign", ![p].attempt = @ + 1]
            /\ UNCHANGED told
       ELSE Ends(p, "unsigned") /\ HandBack(p)
  /\ UNCHANGED <<inflight, debits, settlements, topupVars>>

(* Mutant: attempts are not counted. *)
SignUnansweredForever(p) ==
  /\ payer[p].at = "signing"
  /\ payer' = [payer EXCEPT ![p].at = "sign"]
  /\ UNCHANGED <<inflight, debits, told, settlements, topupVars>>

(* isTransient: no answer, or one that may be retried; the request itself  *)
(* may have arrived, or arrive later.                                      *)
SignUnanswered(p) ==
  /\ payer[p].at = "signing"
  /\ IF payer[p].attempt < SignRetries
       THEN /\ payer' = [payer EXCEPT ![p].at = "sign", ![p].attempt = @ + 1]
            /\ UNCHANGED told
       ELSE Ends(p, "unsigned") /\ HandBack(p)
  /\ UNCHANGED <<inflight, debits, settlements, topupVars>>

------------------------------------------------------------------------------
(* pay: the paid request. *)

(* The seller settles a signature once, or not at all, whatever it answers *)
(* and whether or not the answer arrives.                                  *)
SellerMaySettle(p) == settlements' \in {settlements, settlements \cup {payer[p].key}}

ReplayAnswered(p) ==
  /\ payer[p].at \in {"replay", "again"}
  /\ SellerMaySettle(p)
  /\ \E end \in {"paid", "rejected"} : Ends(p, end)
  /\ HandBack(p)
  /\ UNCHANGED <<inflight, debits, topupVars>>

(* Lost once, the request is repeated with the same signature. *)
ReplayLost(p) ==
  /\ payer[p].at \in {"replay", "again"}
  /\ SellerMaySettle(p)
  /\ IF payer[p].at = "replay"
       THEN payer' = [payer EXCEPT ![p].at = "again"] /\ UNCHANGED told
       ELSE Ends(p, "replay failed") /\ HandBack(p)
  /\ UNCHANGED <<inflight, debits, topupVars>>

PayerDies(p) ==
  /\ payer[p].at \notin {"done", "dead"}
  /\ payer' = [payer EXCEPT ![p].at = "dead"]
  /\ UNCHANGED <<inflight, debits, told, settlements, topupVars>>

PayCommandStep(p) ==
  \/ CallUnpaid(p) \/ CallPriced(p)
  \/ SendSign(p) \/ SignAnswered(p) \/ SignUnusable(p) \/ SignUnanswered(p)
  \/ \E end \in {"unsigned", "disabled"} : SignRefused(p, end)
  \/ ReplayAnswered(p) \/ ReplayLost(p)

------------------------------------------------------------------------------
(* topup. *)

TopupTo(t, step, key) == topup' = [topup EXCEPT ![t].at = step, ![t].key = key]

ReadAgentKey(t) ==
  /\ topup[t].at = "start"
  /\ \E k \in AgentKeyRead : TopupTo(t, IF k = Nothing THEN "create" ELSE "order", k)
  /\ UNCHANGED <<payVars, keyFile, issued, shown>>

(* POST /keys: the key is named in the answer, once; the answer may be     *)
(* lost.                                                                   *)
CreateKey(t) ==
  /\ topup[t].at = "create"
  /\ \/ \E k \in AgentKeys \ issued :
          /\ issued' = issued \cup {k}
          /\ TopupTo(t, "open", k) \/ TopupTo(t, "done", Nothing)
     \/ UNCHANGED issued /\ TopupTo(t, "done", Nothing)
  /\ UNCHANGED <<payVars, keyFile, shown>>

(* Mutant: the file is opened for writing whether it exists or not. *)
OpenAny(t) ==
  /\ topup[t].at = "open"
  /\ keyFile' = "empty" /\ TopupTo(t, "write", topup[t].key)
  /\ UNCHANGED <<payVars, issued, shown>>

(* saveAgentKey: open with 'wx' creates the file, and fails if there is    *)
(* one; the write comes after.                                             *)
OpenKeyFile(t) ==
  /\ topup[t].at = "open"
  /\ IF keyFile = Nothing THEN keyFile' = "empty" /\ TopupTo(t, "write", topup[t].key)
     ELSE UNCHANGED keyFile /\ TopupTo(t, "done", Nothing)
  /\ UNCHANGED <<payVars, issued, shown>>

WriteKey(t) ==
  /\ topup[t].at = "write"
  /\ keyFile' = topup[t].key
  /\ TopupTo(t, "order", topup[t].key)
  /\ UNCHANGED <<payVars, issued, shown>>

(* POST /topup: refused, lost, for another coin, without an address or to  *)
(* a listed one; or a deposit of this key, which is shown.                 *)
OrderTopup(t) ==
  /\ topup[t].at = "order"
  /\ shown' \in {shown, shown \cup {topup[t].key}}
  /\ TopupTo(t, "done", Nothing)
  /\ UNCHANGED <<payVars, keyFile, issued>>

TopupDies(t) ==
  /\ topup[t].at \notin {"done", "dead"}
  /\ TopupTo(t, "dead", Nothing)
  /\ UNCHANGED <<payVars, keyFile, issued, shown>>

TopupCommandStep(t) ==
  ReadAgentKey(t) \/ CreateKey(t) \/ OpenKeyFile(t) \/ WriteKey(t) \/ OrderTopup(t)

NextPay == RozoSigns \/ \E p \in Payers : PayCommandStep(p) \/ PayerDies(p)

NextTopup == \E t \in Topups : TopupCommandStep(t) \/ TopupDies(t)

NextX402 == NextPay \/ NextTopup

(* Every request is answered or times out (API_TIMEOUT_MS,                 *)
(* TARGET_TIMEOUT_MS); Rozo and the seller owe nothing.                    *)
FairX402 ==
  /\ \A p \in Payers : WF_x402Vars(PayCommandStep(p))
  /\ \A t \in Topups : WF_x402Vars(TopupCommandStep(t))

SafeSpecX402 == InitX402 /\ [][NextX402]_x402Vars
SpecX402 == SafeSpecX402 /\ FairX402

------------------------------------------------------------------------------
TypeOKX402 ==
  /\ payer \in [Payers -> PayerType]
  /\ inflight \subseteq SignRequest
  /\ debits \subseteq SignRequest
  /\ told \subseteq Handed
  /\ settlements \subseteq IdemKeys
  /\ topup \in [Topups -> TopupType]
  /\ keyFile \in AgentKeys \cup {Nothing, "empty"}
  /\ issued \subseteq AgentKeys
  /\ shown \subseteq AgentKeys

(* A purchase is charged once: however many attempts it takes, whichever   *)
(* answers are lost, and however late Rozo takes a request whose sender    *)
(* gave up; a rerun with the key that was handed back included             *)
(* (signWithRetry: "retrying transient failures with the SAME key").       *)
ChargedOnce ==
  \A d, e \in debits : d.purchase = e.purchase => d = e

(* No command spends more than its --max-usd, or pays a listed address,    *)
(* although the seller may ask for something else each time                *)
(* (selectRequirement, X402_OVER_BUDGET).                                  *)
ChargedWithinBudget ==
  \A d \in debits :
    d.option.payable /\ d.option.amount <= Budget[d.by] /\ d.option.payTo \notin Listed

(* A command that has asked Rozo to sign and then ends, in whatever way,   *)
(* has handed back the key of every charge it made or may yet make, so     *)
(* that a rerun is no second charge ("Hand back everything needed to       *)
(* reconcile, so a rerun reuses the key instead of paying again").         *)
KeyHandedBack ==
  \A r \in inflight \cup debits :
    payer[r.by].at = "done" => [key |-> r.key, purchase |-> r.purchase] \in told

(* The key whose deposit address was shown is in the key file, and stays   *)
(* there, whichever topups run at once and wherever one dies: what is      *)
(* deposited can be spent (saveAgentKey: "an existing key (and its         *)
(* balance) is never silently replaced by a second create").               *)
DepositForKeptKey == \A k \in shown \ EnvKeys : keyFile = k

(* A command that is not killed ends, whichever answers are lost           *)
(* (SIGN_RETRIES, and one repetition of the paid request).                 *)
PayersOver == \A p \in Payers : payer[p].at \in {"done", "dead"}
TopupsOver == \A t \in Topups : topup[t].at \in {"done", "dead"}

(* "x402 payer not enabled for this key right now; nothing was charged"    *)
(* (DISABLED_MESSAGE).                                                     *)
NothingWasCharged ==
  \A p \in Payers : payer[p].end = "disabled" =>
    \A d \in debits : d.purchase # payer[p].purchase
=============================================================================
