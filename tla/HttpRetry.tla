------------------------------ MODULE HttpRetry ------------------------------
(***************************************************************************)
(* One call of the JSON client (scripts/src/lib/http.mjs, request), which  *)
(* every Rozo endpoint is asked through: lib/api.mjs quoteInvoice,         *)
(* createInvoice, createBitrefillInvoice, invoiceStatus, getPayment.  A    *)
(* rate-limited call is repeated after the wait the server asks for, as    *)
(* long as the waits stay within the caller's budget.                      *)
(***************************************************************************)
EXTENDS Naturals

CONSTANTS
  Timeout,      \* DEFAULT_TIMEOUT_MS of one request
  MaxRetries,   \* MAX_RETRIES
  MaxTotalWait, \* MAX_TOTAL_WAIT_MS
  ReceiptWait,  \* QUOTE_RECEIPT_RETRY_BUDGET_MS
  Backoff,      \* FALLBACK_BACKOFF_MS, a wait for each retry
  Hints,        \* bound: waits a server may ask for
  NoHint

ASSUME HttpRetryAssumption ==
  /\ {Timeout, MaxRetries, MaxTotalWait, ReceiptWait} \subseteq Nat
  /\ ReceiptWait <= MaxTotalWait
  /\ Backoff \in [0..MaxRetries -> Nat]
  /\ Hints \subseteq Nat
  /\ NoHint \notin Nat

VARIABLES
  clock,  \* the time
  call    \* the call

httpVars == <<clock, call>>

(* createInvoice with a quote receipt waits less than any other call.      *)
Budgets == {MaxTotalWait, ReceiptWait}

(* "due" is when the pending request times out, or the sleep ends.         *)
(* "notBefore" is history: the earliest time the server allows.            *)
CallType ==
  [at : {"idle", "sent", "asleep", "answered", "failed"}, budget : Budgets, started : Nat,
   due : Nat, retries : 0..MaxRetries, waited : Nat, notBefore : Nat]

InitHttp ==
  /\ clock = 0
  /\ call \in [at : {"idle"}, budget : Budgets, started : {0}, due : {0},
               retries : {0}, waited : {0}, notBefore : {0}]

Send ==
  /\ call.at = "idle"
  /\ call' = [call EXCEPT !.at = "sent", !.started = clock, !.due = clock + Timeout]
  /\ UNCHANGED clock

(* A success, an unreadable one, or an error that is not retried: no       *)
(* answer in time, nobody there, any status but 429 and 503 with a hint.   *)
Answer ==
  /\ call.at = "sent"
  /\ \E end \in {"answered", "failed"} : call' = [call EXCEPT !.at = end]
  /\ UNCHANGED clock

(* Mutant: the budget bounds each wait, not their sum. *)
AffordsEach(wait) == call.retries < MaxRetries /\ wait <= call.budget

(* A longer wait is not cut short: the call fails at once. *)
Affords(wait) == call.retries < MaxRetries /\ call.waited + wait <= call.budget

(* Mutant: the wait is cut down to what the budget leaves. *)
RateLimitedTruncating(hint) ==
  /\ call.at = "sent"
  /\ LET asked == IF hint = NoHint THEN Backoff[call.retries] ELSE hint
         wait  == IF call.waited + asked <= call.budget THEN asked
                  ELSE call.budget - call.waited
     IN call' = IF call.retries = MaxRetries THEN [call EXCEPT !.at = "failed"]
                ELSE [call EXCEPT !.at = "asleep", !.due = clock + wait,
                        !.retries = @ + 1, !.waited = @ + wait,
                        !.notBefore = clock + asked]
  /\ UNCHANGED clock

(* Mutant: repetitions are not counted. *)
RateLimitedUncounted(hint) ==
  /\ call.at = "sent"
  /\ LET wait == IF hint = NoHint THEN Backoff[call.retries] ELSE hint
     IN call' = IF ~Affords(wait) THEN [call EXCEPT !.at = "failed"]
                ELSE [call EXCEPT !.at = "asleep", !.due = clock + wait, !.waited = @ + wait]
  /\ UNCHANGED clock

(* 429, or 503 with a hint: the server's hint, in the header or the body,  *)
(* or a backoff of our own.                                                *)
RateLimited(hint) ==
  /\ call.at = "sent"
  /\ LET wait == IF hint = NoHint THEN Backoff[call.retries] ELSE hint
     IN call' = IF ~Affords(wait) THEN [call EXCEPT !.at = "failed"]
                ELSE [call EXCEPT !.at = "asleep", !.due = clock + wait,
                        !.retries = @ + 1, !.waited = @ + wait,
                        !.notBefore = clock + wait]
  /\ UNCHANGED clock

(* The same body again. *)
Resend ==
  /\ call.at = "asleep"
  /\ clock >= call.due
  /\ call' = [call EXCEPT !.at = "sent", !.due = clock + Timeout]
  /\ UNCHANGED clock

(* Timers are served when they are due. *)
TickHttp ==
  /\ call.at \in {"sent", "asleep"}
  /\ clock < call.due
  /\ clock' = clock + 1
  /\ UNCHANGED call

CallStep == Send \/ Answer \/ (\E hint \in Hints \cup {NoHint} : RateLimited(hint)) \/ Resend

NextHttp == CallStep \/ TickHttp

SafeSpecHttp == InitHttp /\ [][NextHttp]_httpVars

(* The abort timer and the sleep end when they are due. *)
SpecHttp == SafeSpecHttp /\ WF_httpVars(CallStep) /\ WF_httpVars(TickHttp)

------------------------------------------------------------------------------
(* A call that is not over is over soon: at most MaxRetries + 1 requests,  *)
(* and waits that never add up to more than the budget, however the server *)
(* mixes hints, refusals and silence ("The waits of one call never add up  *)
(* to more than MAX_TOTAL_WAIT_MS").                                       *)
CallBounded ==
  call.at \in {"sent", "asleep"} =>
    clock <= call.started + (MaxRetries + 1) * Timeout + call.budget

(* A request is never repeated before the server allows it ("we do not     *)
(* sleep a truncated time (that would only earn another 429)").            *)
NeverEarly == call.at = "sent" => clock >= call.notBefore

(* The call has ended, in an answer or an error. *)
CallOver == call.at \in {"answered", "failed"}
==============================================================================
