---------------------------- MODULE ClientProofs ----------------------------
(***************************************************************************)
(* Theorems about what the commands ask of others, and of each other.      *)
(*                                                                         *)
(* One rate-limited call (HttpRetry), for every timeout, budget, number of *)
(* retries and set of hints: it is over in bounded time and never repeated *)
(* early.  The inductive invariant says how far away the next timer can    *)
(* be, given the requests made and the waits served so far.                *)
(*                                                                         *)
(* The preferences file (Prefs), for any number of commands and values: as *)
(* long as one command only has judged a lock file stale and no live       *)
(* holder has overslept, saves merge and first runs agree on one install   *)
(* id, whoever dies and wherever.                                          *)
(*                                                                         *)
(* x402 payments (X402), for any number of pay and topup commands,         *)
(* retries, challenges and budgets, whichever answers are lost, however    *)
(* late Rozo takes a request, and wherever a command dies: a purchase is   *)
(* charged once.                                                           *)
(***************************************************************************)
EXTENDS HttpRetry, Prefs, X402, TLAPS

CallTypeInv == clock \in Nat /\ call \in CallType

(* While a request is out, one timeout more than repetitions has been      *)
(* spent; while the call sleeps, as many as repetitions.                   *)
TimerInv ==
  /\ call.at = "sent" =>
       /\ clock <= call.due
       /\ call.due <= call.started + call.retries * Timeout + Timeout + call.waited
  /\ call.at = "asleep" =>
       /\ clock <= call.due
       /\ call.due <= call.started + call.retries * Timeout + call.waited

WaitInv ==
  /\ call.waited <= call.budget
  /\ call.at \in {"idle", "sent"} => call.notBefore <= clock
  /\ call.at = "idle" => call.retries = 0 /\ call.waited = 0
  /\ call.at = "asleep" => call.notBefore <= call.due

CallInv == CallTypeInv /\ TimerInv /\ WaitInv

(* The backoff of a retry that may still be made, or the server's hint. *)
LEMMA WaitIsNat ==
  ASSUME NEW hint \in Hints \cup {NoHint}, NEW retries \in 0..MaxRetries
  PROVE  (IF hint = NoHint THEN Backoff[retries] ELSE hint) \in Nat
BY HttpRetryAssumption DEF HttpRetryAssumption

LEMMA OneMore ==
  ASSUME NEW n \in Nat, NEW t \in Nat
  PROVE  (n + 1) * t = n * t + t
OBVIOUS

LEMMA AtMost ==
  ASSUME NEW n \in Nat, NEW m \in Nat, NEW t \in Nat, n <= m
  PROVE  n * t <= m * t
OBVIOUS

(* The wait is counted once in the time and once in the sum of the waits,  *)
(* and the spent time-out becomes part of the product.                     *)
LEMMA SleepDue ==
  ASSUME NEW now \in Nat, NEW started \in Nat, NEW spent \in Nat, NEW t \in Nat,
         NEW waited \in Nat, NEW wait \in Nat,
         now <= started + spent + t + waited
  PROVE  now + wait <= started + (spent + t) + (waited + wait)
OBVIOUS

(* Time-outs and waits within their limits add up to less than both.       *)
LEMMA Within ==
  ASSUME NEW now \in Nat, NEW started \in Nat, NEW spent \in Nat, NEW most \in Nat,
         NEW t \in Nat, NEW waited \in Nat, NEW budget \in Nat,
         now <= started + spent + t + waited, spent <= most, waited <= budget
  PROVE  now <= started + (most + t) + budget
OBVIOUS

LEMMA InitCallInv == InitHttp => CallInv
<1> SUFFICES ASSUME InitHttp PROVE CallInv
  OBVIOUS
<1> USE DEF InitHttp
<1>1. CallTypeInv
  BY HttpRetryAssumption DEF HttpRetryAssumption, CallTypeInv, CallType, Budgets
<1>2. TimerInv
  BY DEF TimerInv
<1>3. WaitInv
  BY HttpRetryAssumption DEF HttpRetryAssumption, WaitInv, Budgets
<1> QED
  BY <1>1, <1>2, <1>3 DEF CallInv

LEMMA NextCallInv == CallInv /\ [NextHttp]_httpVars => CallInv'
<1> SUFFICES ASSUME CallInv, [NextHttp]_httpVars PROVE CallInv'
  OBVIOUS
<1> USE HttpRetryAssumption DEF HttpRetryAssumption
<1>0. clock \in Nat /\ call \in CallType
  BY DEF CallInv, CallTypeInv
<1>1. CASE Send
  <2>1. CallTypeInv'
    <3>1. clock + Timeout \in Nat
      BY <1>0
    <3>2. clock' \in Nat
      BY <1>0, <1>1 DEF Send
    <3>3. call' \in CallType
      <4> HIDE HttpRetryAssumption DEF HttpRetryAssumption
      <4> QED
        BY <1>0, <1>1, <3>1 DEF Send, CallType
    <3> QED
      BY <3>2, <3>3 DEF CallTypeInv
  <2>2. TimerInv'
    <3>1. call'.at = "sent" /\ call'.started = clock /\ call'.due = clock + Timeout
          /\ call'.retries = 0 /\ call'.waited = 0 /\ clock' = clock
      BY <1>0, <1>1 DEF Send, CallInv, WaitInv, CallType
    <3> QED
      BY <1>0, <3>1 DEF TimerInv
  <2>3. WaitInv'
    BY <1>0, <1>1 DEF Send, CallInv, WaitInv, CallType
  <2> QED
    BY <2>1, <2>2, <2>3 DEF CallInv
<1>2. CASE Answer
  <2>1. PICK end \in {"answered", "failed"} : call' = [call EXCEPT !.at = end]
    BY <1>2 DEF Answer
  <2>2. clock' = clock
    BY <1>2 DEF Answer
  <2> QED
    BY <1>0, <2>1, <2>2 DEF CallInv, CallTypeInv, TimerInv, WaitInv, CallType
<1>3. ASSUME NEW hint \in Hints \cup {NoHint}, RateLimited(hint) PROVE CallInv'
  <2> DEFINE wait == IF hint = NoHint THEN Backoff[call.retries] ELSE hint
  <2>1. wait \in Nat
    BY <1>0, WaitIsNat DEF CallType
  <2>2. call.at = "sent" /\ clock' = clock
    BY <1>3 DEF RateLimited
  <2>3. CASE ~Affords(wait)
    <3>1. call' = [call EXCEPT !.at = "failed"]
      BY <1>3, <2>3 DEF RateLimited
    <3> QED
      BY <1>0, <2>2, <3>1 DEF CallInv, CallTypeInv, TimerInv, WaitInv, CallType
  <2>4. CASE Affords(wait)
    <3> HIDE DEF wait
    <3>1. call' = [call EXCEPT !.at = "asleep", !.due = clock + wait, !.retries = @ + 1,
                              !.waited = @ + wait, !.notBefore = clock + wait]
      BY <1>3, <2>4 DEF RateLimited, wait
    <3>2. call.retries < MaxRetries /\ call.waited + wait <= call.budget
      BY <2>4 DEF Affords
    <3>3. CallTypeInv'
      <4>1. /\ clock + wait \in Nat /\ call.waited + wait \in Nat
            /\ call.retries + 1 \in 0..MaxRetries
        BY <1>0, <2>1, <3>2 DEF CallType
      <4>2. call' \in CallType
        <5> HIDE HttpRetryAssumption DEF HttpRetryAssumption
        <5> QED
          BY <1>0, <3>1, <4>1 DEF CallType
      <4> QED
        BY <1>0, <2>2, <4>2 DEF CallTypeInv
    <3>4. TimerInv'
      <4>1. clock <= call.started + call.retries * Timeout + Timeout + call.waited
        BY <1>0, <2>2 DEF CallInv, TimerInv, CallType
      <4>2. (call.retries + 1) * Timeout = call.retries * Timeout + Timeout
        BY <1>0, OneMore DEF CallType
      <4>3. /\ call'.at = "asleep" /\ call'.due = clock + wait
            /\ call'.retries = call.retries + 1 /\ call'.waited = call.waited + wait
            /\ call'.started = call.started
        BY <1>0, <3>1 DEF CallType
      <4>4. call.retries * Timeout \in Nat
        BY <1>0 DEF CallType
      <4>5. clock + wait <= call.started + (call.retries * Timeout + Timeout)
                            + (call.waited + wait)
        BY <1>0, <2>1, <4>1, <4>4, SleepDue DEF CallType
      <4>6. clock <= clock + wait
        BY <1>0, <2>1
      <4> QED
        BY <2>2, <4>2, <4>3, <4>5, <4>6 DEF TimerInv
    <3>5. WaitInv'
      BY <1>0, <2>1, <2>2, <3>1, <3>2 DEF WaitInv, CallType
    <3> QED
      BY <3>3, <3>4, <3>5 DEF CallInv
  <2> QED
    BY <2>3, <2>4
<1>4. CASE Resend
  <2>1. CallTypeInv'
    <3>1. clock + Timeout \in Nat
      BY <1>0
    <3>2. clock' \in Nat
      BY <1>0, <1>4 DEF Resend
    <3>3. call' \in CallType
      <4> HIDE HttpRetryAssumption DEF HttpRetryAssumption
      <4> QED
        BY <1>0, <1>4, <3>1 DEF Resend, CallType
    <3> QED
      BY <3>2, <3>3 DEF CallTypeInv
  <2>2. TimerInv'
    <3>1. /\ call'.at = "sent" /\ call'.due = clock + Timeout /\ clock' = clock
          /\ call'.retries = call.retries /\ call'.waited = call.waited
          /\ call'.started = call.started
      BY <1>0, <1>4 DEF Resend, CallType
    <3>2. clock <= call.started + call.retries * Timeout + call.waited
      BY <1>0, <1>4 DEF Resend, CallInv, TimerInv, CallType
    <3>3. call.retries * Timeout \in Nat
      BY <1>0 DEF CallType
    <3> QED
      BY <1>0, <3>1, <3>2, <3>3 DEF TimerInv, CallType
  <2>3. WaitInv'
    BY <1>0, <1>4 DEF Resend, CallInv, WaitInv, CallType
  <2> QED
    BY <2>1, <2>2, <2>3 DEF CallInv
<1>5. CASE TickHttp
  <2>1. CallTypeInv'
    BY <1>0, <1>5 DEF TickHttp, CallTypeInv
  <2>2. TimerInv'
    BY <1>0, <1>5 DEF TickHttp, CallInv, TimerInv, CallType
  <2>3. WaitInv'
    BY <1>0, <1>5 DEF TickHttp, CallInv, WaitInv, CallType
  <2> QED
    BY <2>1, <2>2, <2>3 DEF CallInv
<1>6. CASE UNCHANGED httpVars
  BY <1>6 DEF httpVars, CallInv, CallTypeInv, TimerInv, WaitInv
<1> QED
  BY <1>1, <1>2, <1>3, <1>4, <1>5, <1>6 DEF NextHttp, CallStep

(* The inductive invariant holds of every call. *)
THEOREM CallInvariant == SafeSpecHttp => []CallInv
  BY InitCallInv, NextCallInv, PTL DEF SafeSpecHttp

(* However the server mixes hints, refusals and silence, a call that is    *)
(* not over is over within MaxRetries + 1 timeouts and its budget.         *)
THEOREM CallIsBounded == SafeSpecHttp => []CallBounded
<1>1. CallInv => CallBounded
  <2> SUFFICES ASSUME CallInv, call.at \in {"sent", "asleep"}
               PROVE  clock <= call.started + (MaxRetries + 1) * Timeout + call.budget
    BY DEF CallBounded
  <2> USE HttpRetryAssumption DEF HttpRetryAssumption
  <2>0. clock \in Nat /\ call \in CallType /\ call.budget \in Nat
    BY DEF CallInv, CallTypeInv, CallType, Budgets
  <2>1. call.retries * Timeout <= MaxRetries * Timeout
    BY <2>0, AtMost DEF CallType
  <2>2. (MaxRetries + 1) * Timeout = MaxRetries * Timeout + Timeout
    BY OneMore
  <2>3. call.retries * Timeout \in Nat /\ MaxRetries * Timeout \in Nat
    BY <2>0 DEF CallType
  <2>4. clock <= call.started + call.retries * Timeout + Timeout + call.waited
    <3> DEFINE spent == call.retries * Timeout
    <3>1. spent \in Nat /\ clock \in Nat /\ call.due \in Nat
          /\ call.started \in Nat /\ call.waited \in Nat /\ Timeout \in Nat
      BY <2>0, <2>3 DEF CallType
    <3>2. /\ clock <= call.due
          /\ \/ call.due <= call.started + spent + Timeout + call.waited
             \/ call.due <= call.started + spent + call.waited
      BY DEF CallInv, TimerInv
    <3> HIDE DEF spent
    <3>3. clock <= call.started + spent + Timeout + call.waited
      BY <3>1, <3>2
    <3> QED
      BY <3>3 DEF spent
  <2>5. call.waited <= call.budget
    BY DEF CallInv, WaitInv
  <2>6. call.started \in Nat /\ call.waited \in Nat
    BY <2>0 DEF CallType
  <2> QED
    BY <2>0, <2>1, <2>2, <2>3, <2>4, <2>5, <2>6, Within
<1> QED
  BY <1>1, CallInvariant, PTL

(* A request is never repeated before the time the server asked for. *)
THEOREM CallNeverEarly == SafeSpecHttp => []NeverEarly
<1>1. CallInv => NeverEarly
  BY DEF CallInv, CallTypeInv, WaitInv, NeverEarly, CallType
<1> QED
  BY <1>1, CallInvariant, PTL

------------------------------------------------------------------------------
Places == {"start", "open", "stat", "remove", "read", "write", "unlock", "reread", "done", "dead"}

SaverType ==
  [at : Places, update : Updates, overdue : BOOLEAN, seen : PrefsType, saved : BOOLEAN,
   id : Savers \cup {Blank}]

PrefsTypeInv ==
  /\ prefs \in PrefsType
  /\ prefsLock \in [holder : Savers \cup {Former, Blank}, stale : BOOLEAN]
  /\ saver \in [Savers -> SaverType]
  /\ disturbed \in [reclaimers : SUBSET Savers, overslept : BOOLEAN]

(* The command is between the lock's creation and its removal.             *)
Inside(p) == saver[p].at \in {"read", "write", "unlock"}

LeftBehind == prefsLock.holder # Blank /\ ~Holds(prefsLock.holder)

(* Whoever is inside has its own file in place; only a file that a dead    *)
(* command, or a refused removal, left behind is stale, or about to be     *)
(* removed by the one that judged it so.                                   *)
LockInv ==
  /\ prefsLock.stale => LeftBehind
  /\ \A p \in Savers : Inside(p) => prefsLock.holder = p
  /\ \A p \in Savers : IsAt(p, "remove") => p \in disturbed.reclaimers /\ LeftBehind

(* What was read under the lock is still in the file, what was written is  *)
(* still there before the lock is given back, and no kept id is another.   *)
FileInv ==
  \A p \in Savers :
    /\ IsAt(p, "write") => saver[p].seen = prefs
    /\ IsAt(p, "unlock") /\ saver[p].saved => saver[p].seen = prefs
    /\ saver[p].id \in {Blank, prefs.installId}

PrefsInv == PrefsTypeInv /\ (Undisturbed => LockInv /\ FileInv)

LEMMA InitPrefsInv == InitPrefs => PrefsInv
<1> SUFFICES ASSUME InitPrefs PROVE PrefsInv
  OBVIOUS
<1>1. prefs \in PrefsType
  BY DEF InitPrefs
<1>2. NoPrefs \in PrefsType
  BY DEF NoPrefs, PrefsType
<1>3. saver \in [Savers -> SaverType]
  BY <1>2 DEF InitPrefs, SaverType, Places
<1>4. /\ prefsLock \in [holder : Savers \cup {Former, Blank}, stale : BOOLEAN]
      /\ prefsLock.stale = FALSE
  <2>1. prefsLock = NoLockFile \/ prefsLock \in [holder : {Former}, stale : {FALSE}]
    BY DEF InitPrefs
  <2>2. CASE prefsLock = NoLockFile
    BY <2>2 DEF NoLockFile
  <2>3. CASE prefsLock \in [holder : {Former}, stale : {FALSE}]
    <3>1. prefsLock = [holder |-> Former, stale |-> FALSE]
      BY <2>3
    <3> QED
      BY <3>1
  <2> QED
    BY <2>1, <2>2, <2>3
<1>5. disturbed \in [reclaimers : SUBSET Savers, overslept : BOOLEAN]
  BY DEF InitPrefs
<1>6. \A p \in Savers : saver[p].at = "start" /\ saver[p].id = Blank
  BY DEF InitPrefs
<1>7. LockInv
  BY <1>4, <1>6 DEF LockInv, Inside, IsAt
<1>8. FileInv
  BY <1>6 DEF FileInv, IsAt
<1> QED
  BY <1>1, <1>3, <1>4, <1>5, <1>7, <1>8 DEF PrefsInv, PrefsTypeInv

------------------------------------------------------------------------------
(* One command becomes r, the others stay.                                 *)
LEMMA Becomes ==
  ASSUME saver \in [Savers -> SaverType], NEW p \in Savers, NEW r \in SaverType,
         saver' = [saver EXCEPT ![p] = r]
  PROVE  /\ saver' \in [Savers -> SaverType]
         /\ saver'[p] = r
         /\ \A q \in Savers : q # p => saver'[q] = saver[q]
OBVIOUS

(* What a step from one place to another makes of a command.               *)
LEMMA Gone ==
  ASSUME saver \in [Savers -> SaverType], NEW p \in Savers, NEW place \in Places, Goes(p, place)
  PROVE  \E r \in SaverType :
           /\ saver' = [saver EXCEPT ![p] = r]
           /\ r.at = place /\ r.seen = saver[p].seen /\ r.saved = saver[p].saved
           /\ r.id = saver[p].id
<1> DEFINE r == [saver[p] EXCEPT !.at = place]
<1>1. saver[p] \in SaverType
  OBVIOUS
<1>2. r \in SaverType
  BY <1>1 DEF SaverType
<1>3. /\ r.at = place /\ r.seen = saver[p].seen /\ r.saved = saver[p].saved
      /\ r.id = saver[p].id
  BY <1>1 DEF SaverType
<1>4. saver' = [saver EXCEPT ![p] = r]
  BY DEF Goes
<1> QED
  BY <1>2, <1>3, <1>4

(* Who is not inside stays out while another command moves, or itself does *)
(* not go inside.                                                          *)
LEMMA OutStays ==
  ASSUME NEW p \in Savers, ~Inside(p)', NEW h, ~Holds(h),
         \A q \in Savers : q # p => saver'[q] = saver[q]
  PROVE  ~Holds(h)'
BY DEF Holds, Inside

(* A command that stays out of the lock, and that takes no other id than   *)
(* the one in the file, disturbs nothing.                                  *)
LEMMA StaysOut ==
  ASSUME PrefsInv, NEW p \in Savers, NEW r \in SaverType,
         saver' = [saver EXCEPT ![p] = r], UNCHANGED <<prefs, prefsLock, disturbed>>,
         r.at \notin {"read", "write", "unlock", "remove"},
         r.id \in {Blank, prefs.installId, saver[p].id}
  PROVE  PrefsInv'
<1>0. PrefsTypeInv
  BY DEF PrefsInv
<1>1. /\ saver' \in [Savers -> SaverType] /\ saver'[p] = r
      /\ \A q \in Savers : q # p => saver'[q] = saver[q]
  BY <1>0, Becomes DEF PrefsTypeInv
<1>2. PrefsTypeInv'
  BY <1>0, <1>1 DEF PrefsTypeInv
<1>3. ASSUME Undisturbed' PROVE LockInv' /\ FileInv'
  <2>1. LockInv /\ FileInv
    BY <1>3 DEF PrefsInv, Undisturbed
  <2>2. LeftBehind => LeftBehind'
    BY <1>1, OutStays DEF LeftBehind, Inside
  <2>3. LockInv'
    BY <1>1, <2>1, <2>2 DEF LockInv, Inside, IsAt
  <2>4. FileInv'
    BY <1>1, <2>1 DEF FileInv, IsAt
  <2> QED
    BY <2>3, <2>4
<1> QED
  BY <1>2, <1>3 DEF PrefsInv

------------------------------------------------------------------------------
LEMMA BeginKeeps ==
  ASSUME PrefsInv, NEW p \in Savers, BeginSave(p)
  PROVE  PrefsInv'
<1>0. saver \in [Savers -> SaverType] /\ prefs \in PrefsType
  BY DEF PrefsInv, PrefsTypeInv
<1>1. CASE saver' = [saver EXCEPT ![p].at = "done", ![p].id = prefs.installId]
  <2> DEFINE r == [saver[p] EXCEPT !.at = "done", !.id = prefs.installId]
  <2>1. r \in SaverType /\ r.at = "done" /\ r.id = prefs.installId
    BY <1>0 DEF SaverType, PrefsType, Places
  <2>2. saver' = [saver EXCEPT ![p] = r]
    BY <1>1
  <2> QED
    BY <2>1, <2>2, StaysOut DEF BeginSave, IsAt
<1>2. CASE Goes(p, "open")
  BY <1>0, <1>2, Gone, StaysOut DEF BeginSave, IsAt, Places
<1> QED
  BY <1>1, <1>2 DEF BeginSave

LEMMA UnsavedPlace ==
  ASSUME NEW p \in Savers
  PROVE  Unsaved(p) \in {"reread", "done"} /\ Unsaved(p) \in Places
BY DEF Unsaved, Places

LEMMA OpenKeeps ==
  ASSUME PrefsInv, NEW p \in Savers, OpenPrefs(p)
  PROVE  PrefsInv'
<1>0. saver \in [Savers -> SaverType] /\ PrefsTypeInv
  BY DEF PrefsInv, PrefsTypeInv
<1>1. CASE prefsLock # NoLockFile /\ Goes(p, "stat") /\ UNCHANGED prefsLock
  BY <1>0, <1>1, Gone, StaysOut DEF OpenPrefs, IsAt, Places
<1>2. CASE Goes(p, Unsaved(p)) /\ UNCHANGED prefsLock
  BY <1>0, <1>2, Gone, StaysOut, UnsavedPlace DEF OpenPrefs, IsAt
<1>3. CASE /\ prefsLock = NoLockFile /\ Goes(p, "read")
           /\ prefsLock' = [holder |-> p, stale |-> FALSE]
  <2>1. PICK r \in SaverType :
           saver' = [saver EXCEPT ![p] = r] /\ r.at = "read" /\ r.id = saver[p].id
    BY <1>0, <1>3, Gone DEF Places
  <2>2. /\ saver' \in [Savers -> SaverType] /\ saver'[p] = r
        /\ \A q \in Savers : q # p => saver'[q] = saver[q]
    BY <1>0, <2>1, Becomes
  <2>3. UNCHANGED <<prefs, disturbed>>
    BY DEF OpenPrefs
  <2>4. PrefsTypeInv'
    BY <1>0, <1>3, <2>2, <2>3 DEF PrefsTypeInv
  <2>5. ASSUME Undisturbed' PROVE LockInv' /\ FileInv'
    <3>1. LockInv /\ FileInv
      BY <2>3, <2>5 DEF PrefsInv, Undisturbed
    <3>2. prefsLock.holder = Blank /\ prefsLock'.holder = p /\ ~prefsLock'.stale
      BY <1>3 DEF NoLockFile
    <3>3. \A q \in Savers : ~Inside(q) /\ ~IsAt(q, "remove")
      BY <3>1, <3>2, PrefsAssumption DEF PrefsAssumption, LockInv, LeftBehind
    <3>4. LockInv'
      BY <2>1, <2>2, <3>2, <3>3 DEF LockInv, Inside, IsAt
    <3>5. FileInv'
      BY <2>1, <2>2, <2>3, <3>1 DEF FileInv, IsAt
    <3> QED
      BY <3>4, <3>5
  <2> QED
    BY <2>4, <2>5 DEF PrefsInv
<1> QED
  BY <1>1, <1>2, <1>3 DEF OpenPrefs

LEMMA StatRefusedKeeps ==
  ASSUME PrefsInv, NEW p \in Savers, StatRefused(p)
  PROVE  PrefsInv'
<1>1. saver \in [Savers -> SaverType] /\ PrefsTypeInv
  BY DEF PrefsInv, PrefsTypeInv
<1> QED
  BY <1>1, Gone, StaysOut DEF StatRefused, IsAt, Places

(* The judge of a stale file finds it left behind.                         *)
LEMMA StatKeeps ==
  ASSUME PrefsInv, NEW p \in Savers, StatPrefs(p)
  PROVE  PrefsInv'
<1>0. saver \in [Savers -> SaverType] /\ PrefsTypeInv
  BY DEF PrefsInv, PrefsTypeInv
<1>1. CASE ~prefsLock.stale
  <2>1. PICK place \in {"open", "reread", "done"} : Goes(p, place)
    BY <1>1, UnsavedPlace DEF StatPrefs
  <2>2. UNCHANGED <<prefs, prefsLock, disturbed>>
    BY <1>1 DEF StatPrefs
  <2> QED
    BY <1>0, <2>1, <2>2, Gone, StaysOut DEF StatPrefs, IsAt, Places
<1>2. CASE prefsLock.stale
  <2>0. prefsLock # NoLockFile
    BY <1>2 DEF NoLockFile
  <2>1. Goes(p, "remove")
    BY <1>2, <2>0 DEF StatPrefs, Goes
  <2>2. /\ UNCHANGED <<prefs, prefsLock>>
        /\ disturbed' = [disturbed EXCEPT !.reclaimers = @ \cup {p}]
    BY <1>2 DEF StatPrefs
  <2>3. PICK r \in SaverType :
           saver' = [saver EXCEPT ![p] = r] /\ r.at = "remove" /\ r.id = saver[p].id
    BY <1>0, <2>1, Gone DEF Places
  <2>4. /\ saver' \in [Savers -> SaverType] /\ saver'[p] = r
        /\ \A q \in Savers : q # p => saver'[q] = saver[q]
    BY <1>0, <2>3, Becomes
  <2>5. /\ disturbed' \in [reclaimers : SUBSET Savers, overslept : BOOLEAN]
        /\ disturbed'.overslept = disturbed.overslept
        /\ disturbed'.reclaimers = disturbed.reclaimers \cup {p}
    BY <1>0, <2>2 DEF PrefsTypeInv
  <2>6. PrefsTypeInv'
    BY <1>0, <2>2, <2>4, <2>5 DEF PrefsTypeInv
  <2>7. ASSUME Undisturbed' PROVE LockInv' /\ FileInv'
    <3>1. LockInv /\ FileInv
      BY <2>5, <2>7 DEF PrefsInv, Undisturbed
    <3>2. LeftBehind
      BY <1>2, <3>1 DEF LockInv
    <3>3. LeftBehind'
      BY <2>2, <2>3, <2>4, <3>2, OutStays DEF LeftBehind, Inside
    <3>4. LockInv'
      BY <2>2, <2>3, <2>4, <2>5, <3>1, <3>3 DEF LockInv, Inside, IsAt
    <3>5. FileInv'
      BY <2>2, <2>3, <2>4, <3>1 DEF FileInv, IsAt
    <3> QED
      BY <3>4, <3>5
  <2> QED
    BY <2>6, <2>7 DEF PrefsInv
<1> QED
  BY <1>1, <1>2

(* A command inside the lock keeps the others out.                         *)
LEMMA HolderAlone ==
  ASSUME LockInv, NEW p \in Savers, Inside(p)
  PROVE  /\ prefsLock.holder = p /\ ~LeftBehind /\ ~prefsLock.stale
         /\ \A q \in Savers : q # p => ~Inside(q)
         /\ \A q \in Savers : ~IsAt(q, "remove")
<1>1. prefsLock.holder = p
  BY DEF LockInv
<1>2. Holds(p)
  BY DEF Holds, Inside
<1>3. ~LeftBehind
  BY <1>1, <1>2 DEF LeftBehind
<1> QED
  BY <1>1, <1>3 DEF LockInv

LEMMA RemoveKeeps ==
  ASSUME PrefsInv, NEW p \in Savers, RemoveLock(p)
  PROVE  PrefsInv'
<1>0. saver \in [Savers -> SaverType] /\ PrefsTypeInv
  BY DEF PrefsInv, PrefsTypeInv
<1>1. PICK r \in SaverType :
         saver' = [saver EXCEPT ![p] = r] /\ r.at = "open" /\ r.id = saver[p].id
  BY <1>0, Gone DEF RemoveLock, Places
<1> SUFFICES ASSUME prefsLock' = NoLockFile PROVE PrefsInv'
  BY <1>1, StaysOut DEF RemoveLock
<1>2. /\ saver' \in [Savers -> SaverType] /\ saver'[p] = r
      /\ \A q \in Savers : q # p => saver'[q] = saver[q]
  BY <1>0, <1>1, Becomes
<1>3. /\ UNCHANGED <<prefs, disturbed>> /\ IsAt(p, "remove")
      /\ prefsLock'.holder = Blank /\ prefsLock'.stale = FALSE
      /\ prefsLock' \in [holder : Savers \cup {Former, Blank}, stale : BOOLEAN]
  BY DEF RemoveLock, NoLockFile
<1>4. PrefsTypeInv'
  BY <1>0, <1>2, <1>3 DEF PrefsTypeInv
<1>5. ASSUME Undisturbed' PROVE LockInv' /\ FileInv'
  <2>1. LockInv /\ FileInv /\ Undisturbed
    BY <1>3, <1>5 DEF PrefsInv, Undisturbed
  <2>2. \A q \in Savers : q # p => ~IsAt(q, "remove")
    BY <1>3, <2>1 DEF LockInv, Undisturbed
  <2>3. \A q \in Savers : ~Inside(q)
    BY <1>3, <2>1, HolderAlone
  <2>4. LockInv'
    BY <1>1, <1>2, <1>3, <2>2, <2>3 DEF LockInv, Inside, IsAt
  <2>5. FileInv'
    BY <1>1, <1>2, <1>3, <2>1 DEF FileInv, IsAt
  <2> QED
    BY <2>4, <2>5
<1> QED
  BY <1>4, <1>5 DEF PrefsInv

(* A step of the holder inside the lock, to another place inside it.       *)
LEMMA StaysInside ==
  ASSUME PrefsInv, NEW p \in Savers, NEW r \in SaverType,
         saver' = [saver EXCEPT ![p] = r], UNCHANGED <<prefsLock, disturbed>>,
         prefs' \in PrefsType, Inside(p), r.at \in {"write", "unlock"},
         Undisturbed =>
           /\ r.at = "write" \/ r.saved => r.seen = prefs'
           /\ \A q \in Savers : q # p => saver[q].id \in {Blank, prefs'.installId}
           /\ r.id \in {Blank, prefs'.installId}
  PROVE  PrefsInv'
<1>0. saver \in [Savers -> SaverType] /\ PrefsTypeInv
  BY DEF PrefsInv, PrefsTypeInv
<1>1. /\ saver' \in [Savers -> SaverType] /\ saver'[p] = r
      /\ \A q \in Savers : q # p => saver'[q] = saver[q]
  BY <1>0, Becomes
<1>2. PrefsTypeInv'
  BY <1>0, <1>1 DEF PrefsTypeInv
<1>3. ASSUME Undisturbed' PROVE LockInv' /\ FileInv'
  <2>1. LockInv /\ Undisturbed
    BY <1>3 DEF PrefsInv, Undisturbed
  <2>2. /\ prefsLock.holder = p /\ ~prefsLock.stale
        /\ \A q \in Savers : q # p => ~Inside(q) /\ ~IsAt(q, "remove")
    BY <2>1, HolderAlone
  <2>3. LockInv'
    BY <1>1, <2>2 DEF LockInv, Inside, IsAt
  <2>4. FileInv'
    BY <1>1, <2>1, <2>2 DEF FileInv, Inside, IsAt
  <2> QED
    BY <2>3, <2>4
<1> QED
  BY <1>2, <1>3 DEF PrefsInv

LEMMA ReadKeeps ==
  ASSUME PrefsInv, NEW p \in Savers, ReadPrefs(p)
  PROVE  PrefsInv'
<1>0. saver \in [Savers -> SaverType] /\ PrefsTypeInv
  BY DEF PrefsInv, PrefsTypeInv
<1> DEFINE r == [saver[p] EXCEPT !.at = "write", !.seen = prefs]
<1>1. r \in SaverType /\ r.at = "write" /\ r.seen = prefs /\ r.id = saver[p].id
  BY <1>0 DEF SaverType, Places, PrefsTypeInv
<1>2. saver' = [saver EXCEPT ![p] = r]
  BY DEF ReadPrefs
<1>3. Inside(p) /\ UNCHANGED <<prefs, prefsLock, disturbed>>
  BY DEF ReadPrefs, Inside, IsAt
<1>4. Undisturbed => \A q \in Savers : saver[q].id \in {Blank, prefs.installId}
  BY DEF PrefsInv, FileInv
<1> HIDE DEF r
<1> QED
  BY <1>0, <1>1, <1>2, <1>3, <1>4, StaysInside DEF PrefsTypeInv

(* What is saved has a type, and never another id than one that was there. *)
LEMMA MergedType ==
  ASSUME NEW old \in PrefsType, NEW update \in Updates, NEW p \in Savers
  PROVE  /\ Merged(old, update, p) \in PrefsType
         /\ old.installId # Blank => Merged(old, update, p).installId = old.installId
<1>1. update.wallet \in Wallets \cup {Blank} /\ update.preset \in Presets \cup {Blank}
  BY DEF Updates, Identify
<1>2. /\ old.installId \in Savers \cup {Blank}
      /\ old.wallet \in Wallets \cup {Blank} /\ old.preset \in Presets \cup {Blank}
  BY DEF PrefsType
<1> QED
  BY <1>1, <1>2 DEF Merged, Or, PrefsType

LEMMA WriteKeeps ==
  ASSUME PrefsInv, NEW p \in Savers, WritePrefs(p)
  PROVE  PrefsInv'
<1>0. saver \in [Savers -> SaverType] /\ PrefsTypeInv
  BY DEF PrefsInv, PrefsTypeInv
<1>1. Inside(p) /\ IsAt(p, "write") /\ UNCHANGED <<prefsLock, disturbed>>
  BY DEF WritePrefs, Inside, IsAt
<1>2. /\ saver[p] \in SaverType /\ prefs \in PrefsType
      /\ saver[p].seen \in PrefsType /\ saver[p].update \in Updates
  BY <1>0 DEF PrefsTypeInv, SaverType
<1>3. Undisturbed =>
        /\ saver[p].seen = prefs
        /\ \A q \in Savers : saver[q].id \in {Blank, prefs.installId}
  BY <1>1 DEF PrefsInv, FileInv
<1> DEFINE next == Merged(saver[p].seen, saver[p].update, p)
<1>4. CASE /\ prefs' = next
           /\ saver' = [saver EXCEPT ![p].at = "unlock", ![p].seen = next, ![p].saved = TRUE]
  <2> DEFINE r == [saver[p] EXCEPT !.at = "unlock", !.seen = next, !.saved = TRUE]
  <2>1. next \in PrefsType /\ (saver[p].seen.installId # Blank => next.installId = saver[p].seen.installId)
    BY <1>2, MergedType
  <2> HIDE DEF next
  <2>2. r \in SaverType /\ r.at = "unlock" /\ r.seen = next /\ r.id = saver[p].id
    BY <1>2, <2>1 DEF SaverType, Places
  <2>3. saver' = [saver EXCEPT ![p] = r]
    BY <1>4
  <2>4. Undisturbed => \A q \in Savers : saver[q].id \in {Blank, prefs'.installId}
    BY <1>3, <1>4, <2>1
  <2> HIDE DEF r
  <2> QED
    BY <1>1, <1>4, <2>1, <2>2, <2>3, <2>4, StaysInside
<1>5. CASE Goes(p, "unlock") /\ UNCHANGED prefs
  <2>1. PICK r \in SaverType :
           /\ saver' = [saver EXCEPT ![p] = r]
           /\ r.at = "unlock" /\ r.seen = saver[p].seen /\ r.id = saver[p].id
    BY <1>0, <1>5, Gone DEF Places
  <2> QED
    BY <1>1, <1>2, <1>3, <1>5, <2>1, StaysInside
<1> QED
  BY <1>4, <1>5 DEF WritePrefs

(* What was saved is in the file while the lock is given back, so the id   *)
(* that is kept is the file's.                                             *)
LEMMA UnlockKeeps ==
  ASSUME PrefsInv, NEW p \in Savers, UnlockPrefs(p)
  PROVE  PrefsInv'
<1>0. saver \in [Savers -> SaverType] /\ PrefsTypeInv
  BY DEF PrefsInv, PrefsTypeInv
<1>10. PICK saved \in BOOLEAN :
        /\ saved => prefsLock' = NoLockFile /\ saver[p].saved
        /\ prefsLock' \in {NoLockFile, prefsLock} /\ Answers(p, saved)
  BY <1>0 DEF UnlockPrefs, PrefsTypeInv, SaverType
<1> DEFINE place == IF saved THEN "done" ELSE Unsaved(p)
           kept  == IF saver[p].update = Identify /\ saved
                      THEN saver[p].seen.installId ELSE Blank
           r     == [saver[p] EXCEPT !.at = place, !.id = kept, !.seen = NoPrefs]
<1>1. place \in {"reread", "done"} /\ place \in Places
  BY UnsavedPlace DEF Places
<1>2. saver[p] \in SaverType /\ saver[p].seen \in PrefsType /\ NoPrefs \in PrefsType
  BY <1>0 DEF SaverType, NoPrefs, PrefsType
<1>3. kept \in Savers \cup {Blank} /\ (kept # Blank => saver[p].saved /\ kept = saver[p].seen.installId)
  BY <1>2, <1>10 DEF PrefsType
<1>4. saver' = [saver EXCEPT ![p] = r]
  BY <1>10 DEF Answers
<1> HIDE DEF place, kept
<1>5. r \in SaverType /\ r.at \in {"reread", "done"} /\ r.id = kept
  BY <1>1, <1>2, <1>3 DEF SaverType
<1>11. ~saved => r.id = Blank
  BY <1>5 DEF kept
<1> HIDE DEF r
<1> SUFFICES ASSUME prefsLock' = NoLockFile PROVE PrefsInv'
  BY <1>4, <1>5, <1>10, <1>11, StaysOut DEF UnlockPrefs
<1>6. /\ saver' \in [Savers -> SaverType] /\ saver'[p] = r
      /\ \A q \in Savers : q # p => saver'[q] = saver[q]
  BY <1>0, <1>4, <1>5, Becomes
<1>7. /\ UNCHANGED <<prefs, disturbed>> /\ IsAt(p, "unlock") /\ Inside(p)
      /\ prefsLock'.holder = Blank /\ prefsLock'.stale = FALSE
      /\ prefsLock' \in [holder : Savers \cup {Former, Blank}, stale : BOOLEAN]
  BY DEF UnlockPrefs, NoLockFile, Inside, IsAt
<1>8. PrefsTypeInv'
  BY <1>0, <1>6, <1>7 DEF PrefsTypeInv
<1>9. ASSUME Undisturbed' PROVE LockInv' /\ FileInv'
  <2>1. LockInv /\ FileInv
    BY <1>7, <1>9 DEF PrefsInv, Undisturbed
  <2>2. \A q \in Savers : q # p => ~Inside(q) /\ ~IsAt(q, "remove")
    BY <1>7, <2>1, HolderAlone
  <2>3. LockInv'
    BY <1>5, <1>6, <1>7, <2>2 DEF LockInv, Inside, IsAt
  <2>4. kept \in {Blank, prefs.installId}
    BY <1>3, <1>7, <2>1 DEF FileInv
  <2>5. FileInv'
    BY <1>5, <1>6, <1>7, <2>1, <2>4 DEF FileInv, IsAt
  <2> QED
    BY <2>3, <2>5
<1> QED
  BY <1>8, <1>9 DEF PrefsInv

LEMMA RereadKeeps ==
  ASSUME PrefsInv, NEW p \in Savers, RereadPrefs(p)
  PROVE  PrefsInv'
<1>0. saver \in [Savers -> SaverType] /\ prefs \in PrefsType
  BY DEF PrefsInv, PrefsTypeInv
<1> DEFINE r == [saver[p] EXCEPT !.at = "done", !.id = prefs.installId]
<1>1. r \in SaverType /\ r.at = "done" /\ r.id = prefs.installId
  BY <1>0 DEF SaverType, PrefsType, Places
<1>2. saver' = [saver EXCEPT ![p] = r]
  BY DEF RereadPrefs
<1> QED
  BY <1>1, <1>2, StaysOut DEF RereadPrefs, IsAt

LEMMA DieKeeps ==
  ASSUME PrefsInv, NEW p \in Savers, Die(p)
  PROVE  PrefsInv'
<1>0. saver \in [Savers -> SaverType]
  BY DEF PrefsInv, PrefsTypeInv
<1> QED
  BY <1>0, Gone, StaysOut DEF Die, IsAt, Places

LEMMA WaitKeeps ==
  ASSUME PrefsInv, NEW p \in Savers, WaitOver(p)
  PROVE  PrefsInv'
<1>0. saver \in [Savers -> SaverType]
  BY DEF PrefsInv, PrefsTypeInv
<1> DEFINE r == [saver[p] EXCEPT !.overdue = TRUE]
<1>1. r \in SaverType /\ r.at = saver[p].at /\ r.id = saver[p].id
  BY <1>0 DEF SaverType
<1>2. saver' = [saver EXCEPT ![p] = r]
  BY DEF WaitOver
<1> QED
  BY <1>1, <1>2, StaysOut DEF WaitOver

(* A file grows stale undisturbed only when it was left behind.            *)
LEMMA GrowKeeps ==
  ASSUME PrefsInv, GrowStale
  PROVE  PrefsInv'
<1>0. PrefsTypeInv
  BY DEF PrefsInv
<1>1. /\ UNCHANGED <<prefs, saver>> /\ prefsLock.holder # Blank
      /\ prefsLock' \in [holder : Savers \cup {Former, Blank}, stale : BOOLEAN]
      /\ prefsLock'.holder = prefsLock.holder
  BY <1>0 DEF GrowStale, PrefsTypeInv
<1>2. /\ disturbed' \in [reclaimers : SUBSET Savers, overslept : BOOLEAN]
      /\ disturbed'.reclaimers = disturbed.reclaimers
      /\ disturbed'.overslept = (disturbed.overslept \/ Holds(prefsLock.holder))
  <2> DEFINE late == disturbed.overslept \/ Holds(prefsLock.holder)
  <2>1. disturbed' = [disturbed EXCEPT !.overslept = late]
    BY DEF GrowStale
  <2>2. late \in BOOLEAN
    OBVIOUS
  <2> HIDE DEF late
  <2>3. /\ disturbed' \in [reclaimers : SUBSET Savers, overslept : BOOLEAN]
        /\ disturbed'.reclaimers = disturbed.reclaimers /\ disturbed'.overslept = late
    BY <1>0, <2>1, <2>2 DEF PrefsTypeInv
  <2> QED
    BY <2>3 DEF late
<1>3. PrefsTypeInv'
  BY <1>0, <1>1, <1>2 DEF PrefsTypeInv
<1>4. ASSUME Undisturbed' PROVE LockInv' /\ FileInv'
  <2>1. ~Holds(prefsLock.holder) /\ Undisturbed
    BY <1>2, <1>4 DEF Undisturbed
  <2>2. LockInv /\ FileInv
    BY <2>1 DEF PrefsInv
  <2>3. LeftBehind'
    BY <1>1, <2>1 DEF LeftBehind, Holds
  <2>4. LockInv'
    BY <1>1, <1>2, <2>2, <2>3 DEF LockInv, Inside, IsAt
  <2>5. FileInv'
    BY <1>1, <2>2 DEF FileInv, IsAt
  <2> QED
    BY <2>4, <2>5
<1> QED
  BY <1>3, <1>4 DEF PrefsInv

LEMMA NextPrefsInv ==
  ASSUME PrefsInv, [NextPrefs]_prefsVars
  PROVE  PrefsInv'
<1>1. ASSUME NEW p \in Savers, SaverStep(p) PROVE PrefsInv'
  BY <1>1, BeginKeeps, OpenKeeps, StatKeeps, StatRefusedKeeps, RemoveKeeps, ReadKeeps, WriteKeeps, UnlockKeeps,
     RereadKeeps DEF SaverStep
<1>2. ASSUME NEW p \in Savers, Die(p) \/ WaitOver(p) PROVE PrefsInv'
  BY <1>2, DieKeeps, WaitKeeps
<1>3. CASE GrowStale
  BY <1>3, GrowKeeps
<1>4. CASE UNCHANGED prefsVars
  BY <1>4 DEF prefsVars, PrefsInv, PrefsTypeInv, Undisturbed, LockInv, FileInv, Inside,
     LeftBehind, Holds, IsAt
<1> QED
  BY <1>1, <1>2, <1>3, <1>4 DEF NextPrefs

------------------------------------------------------------------------------
(* The lock of the preferences and what is read under it: the invariant    *)
(* holds in every reachable state, whoever dies and wherever.              *)
THEOREM PrefsInvariant == SafeSpecPrefs => []PrefsInv
<1>1. InitPrefs => PrefsInv
  BY InitPrefsInv
<1>2. PrefsInv /\ [NextPrefs]_prefsVars => PrefsInv'
  BY NextPrefsInv
<1> QED
  BY <1>1, <1>2, PTL DEF SafeSpecPrefs

(* However many first runs there are at once, every command that got an    *)
(* install id to keep got the one in the file (getOrCreateInstallId).      *)
THEOREM FirstRunsAgree == SafeSpecPrefs => []InstallsAgree
<1>1. PrefsInv => InstallsAgree
  BY DEF PrefsInv, FileInv, InstallsAgree
<1> QED
  BY <1>1, PrefsInvariant, PTL

(* A save changes the fields it names in the file as it is (savePrefs), so *)
(* no concurrent save is lost.                                             *)
THEOREM SavesDoMerge == SafeSpecPrefs => SavesMerge
<1> DEFINE Merges ==
      Undisturbed' => \A p \in Savers :
        IsAt(p, "write") /\ prefs' # prefs /\ saver'[p].at = "unlock" =>
          prefs' = Merged(prefs, saver[p].update, p)
<1>1. ASSUME PrefsInv, [NextPrefs]_prefsVars, Undisturbed',
             NEW p \in Savers, IsAt(p, "write"), prefs' # prefs, saver'[p].at = "unlock"
      PROVE  prefs' = Merged(prefs, saver[p].update, p)
  <2>1. PICK w \in Savers : WritePrefs(w)
    BY <1>1 DEF NextPrefs, prefsVars, SaverStep, BeginSave, OpenPrefs, StatPrefs, StatRefused, RemoveLock,
       ReadPrefs, UnlockPrefs, Answers, RereadPrefs, Die, WaitOver, GrowStale
  <2>2. Undisturbed
    BY <1>1, <2>1 DEF WritePrefs, Undisturbed
  <2>3. LockInv /\ FileInv
    BY <1>1, <2>2 DEF PrefsInv
  <2>4. w = p
    BY <1>1, <2>1, <2>3, HolderAlone DEF WritePrefs, Inside, IsAt
  <2>5. prefs' = Merged(saver[p].seen, saver[p].update, p)
    BY <1>1, <2>1, <2>4 DEF WritePrefs
  <2>6. saver[p].seen = prefs
    BY <1>1, <2>3 DEF FileInv
  <2> QED
    BY <2>5, <2>6
<1>2. PrefsInv /\ [NextPrefs]_prefsVars => [Merges]_prefsVars
  BY <1>1
<1> QED
  BY <1>2, PrefsInvariant, PTL DEF SafeSpecPrefs, SavesMerge

------------------------------------------------------------------------------
(* x402 payments. *)


PayTypeInv ==
  /\ payer \in [Payers -> PayerType]
  /\ inflight \subseteq SignRequest
  /\ debits \subseteq SignRequest
  /\ told \subseteq Handed
  /\ settlements \subseteq IdemKeys

TopupTypeInv ==
  /\ topup \in [Topups -> TopupType]
  /\ keyFile \in AgentKeys \cup {Nothing, "empty"}
  /\ issued \subseteq AgentKeys
  /\ shown \subseteq AgentKeys

(* A command that signs or pays has chosen what and under which key; what  *)
(* it has chosen is within its budget, and its purchase has begun.         *)
Chosen(p) ==
  /\ payer[p].at \in {"sign", "signing", "replay", "again"} => payer[p].key # Nothing
  /\ payer[p].at = "call" => payer[p].key = Nothing
  /\ payer[p].key = Nothing <=> payer[p].purchase = Nothing
  /\ payer[p].key = Nothing <=> payer[p].option = Nothing
  /\ payer[p].key # Nothing => payer[payer[p].purchase].at # "call"
  /\ payer[p].option # Nothing =>
       /\ payer[p].option.payable
       /\ payer[p].option.amount <= Budget[p]
       /\ payer[p].option.payTo \notin Listed

(* One key for each purchase, and one purchase for each key.               *)
OneKeyEach ==
  \A p, q \in Payers : payer[p].key # Nothing /\ payer[q].key # Nothing =>
    (payer[p].key = payer[q].key <=> payer[p].purchase = payer[q].purchase)

Pair(p) == [key |-> payer[p].key, purchase |-> payer[p].purchase]

(* A request is of the command that made it, as is the debit it becomes,   *)
(* and what is handed back is of some command.                             *)
OfItsCommand(r) ==
  /\ payer[r.by].at # "call"
  /\ r.key = payer[r.by].key /\ r.purchase = payer[r.by].purchase
  /\ r.option = payer[r.by].option
  /\ payer[r.by].at = "done" => Pair(r.by) \in told

ToldOfSome == \A x \in told : \E p \in Payers : payer[p].key # Nothing /\ x = Pair(p)

DebitedOnce == \A d, e \in debits : d.key = e.key => d = e

PayInv ==
  /\ PayTypeInv
  /\ \A p \in Payers : Chosen(p)
  /\ OneKeyEach
  /\ \A r \in inflight \cup debits : OfItsCommand(r)
  /\ ToldOfSome
  /\ DebitedOnce

(* The key file is created by one command, which writes its key there; a   *)
(* command that orders a deposit has its key from the environment or the   *)
(* file.                                                                   *)
TopupInv ==
  /\ TopupTypeInv
  /\ \A t \in Topups : topup[t].at \in {"open", "write", "order"} => topup[t].key \in AgentKeys
  /\ \A t \in Topups : topup[t].at = "write" => keyFile = "empty"
  /\ \A t, u \in Topups : topup[t].at = "write" /\ topup[u].at = "write" => t = u
  /\ \A t \in Topups : topup[t].at = "order" => topup[t].key \in EnvKeys \/ keyFile = topup[t].key
  /\ DepositForKeptKey

X402Inv == PayInv /\ TopupInv

LEMMA InitX402Inv == InitX402 => X402Inv
<1> SUFFICES ASSUME InitX402 PROVE X402Inv
  OBVIOUS
<1>1. PayInv
  <2>1. 0 \in 0..SignRetries
    BY X402Assumption DEF X402Assumption
  <2>2. PayTypeInv
    BY <2>1 DEF InitX402, PayTypeInv, PayerType, PayStep, PayEnd
  <2> QED
    BY <2>2 DEF InitX402, PayInv, Chosen, OneKeyEach, ToldOfSome, DebitedOnce
<1>2. TopupInv
  <2>1. TopupTypeInv
    BY X402Assumption DEF X402Assumption, InitX402, TopupTypeInv, TopupType, TopupStep
  <2> QED
    BY <2>1 DEF InitX402, TopupInv, DepositForKeptKey
<1> QED
  BY <1>1, <1>2 DEF X402Inv

------------------------------------------------------------------------------
(* A command becomes r: elsewhere, with what it has chosen.                *)
PayerBecomes(p, r) ==
  /\ payer' = [payer EXCEPT ![p] = r]
  /\ r.key = payer[p].key /\ r.purchase = payer[p].purchase /\ r.option = payer[p].option

(* It may repeat its request while it is not over, and hand back its key.  *)
AsksOnly(p, r) ==
  /\ inflight' \subseteq SignRequest
  /\ \/ inflight' \subseteq inflight
     \/ payer[p].at # "call" /\ r.at # "done" /\ inflight' \subseteq inflight \cup {RequestOf(p)}
  /\ UNCHANGED debits

TellsOnly(p, r) ==
  /\ told \subseteq told' /\ told' \subseteq Handed
  /\ \/ told' \subseteq told
     \/ payer[p].key # Nothing /\ told' \subseteq told \cup {Pair(p)}
  /\ r.at = "done" => payer[p].at = "call" \/ Pair(p) \in told'

(* That is enough to keep the invariant.                                   *)
LEMMA MovesOn ==
  ASSUME PayInv, NEW p \in Payers, NEW r \in PayerType, PayerBecomes(p, r), r.at # "call",
         r.at \in {"sign", "signing", "replay", "again"} => payer[p].key # Nothing,
         AsksOnly(p, r), TellsOnly(p, r), settlements' \subseteq IdemKeys
  PROVE  PayInv'
<1>1. /\ payer' \in [Payers -> PayerType] /\ payer'[p] = r
      /\ \A q \in Payers : q # p => payer'[q] = payer[q]
      /\ r.key = payer[p].key /\ r.purchase = payer[p].purchase /\ r.option = payer[p].option
  BY DEF PayInv, PayTypeInv, PayerBecomes
<1>2. PayTypeInv'
  BY <1>1 DEF PayInv, PayTypeInv, AsksOnly, TellsOnly
<1>3. \A q \in Payers : /\ payer'[q].key = payer[q].key
                        /\ payer'[q].purchase = payer[q].purchase
                        /\ payer'[q].option = payer[q].option
                        /\ payer[q].at # "call" => payer'[q].at # "call"
                        /\ Pair(q)' = Pair(q)
  BY <1>1 DEF Pair
<1>4. ASSUME NEW q \in Payers PROVE Chosen(q)'
  <2>1. Chosen(q) /\ Chosen(p)
    BY DEF PayInv
  <2>2. payer[q].key # Nothing => payer[q].purchase \in Payers
    BY <2>1 DEF Chosen, PayInv, PayTypeInv, PayerType
  <2> QED
    BY <1>1, <1>3, <2>1, <2>2 DEF Chosen
<1>5. OneKeyEach'
  BY <1>3 DEF OneKeyEach, PayInv
<1>6. ASSUME NEW x \in (inflight \cup debits)' PROVE OfItsCommand(x)'
  <2>1. CASE x \in inflight \cup debits
    <3>1. OfItsCommand(x) /\ x.by \in Payers
      BY <2>1 DEF PayInv, PayTypeInv, SignRequest
    <3> QED
      BY <1>1, <1>3, <3>1 DEF OfItsCommand, TellsOnly
  <2>2. CASE x = RequestOf(p) /\ payer[p].at # "call" /\ r.at # "done"
    BY <1>1, <1>3, <2>2 DEF OfItsCommand, RequestOf
  <2> QED
    BY <1>6, <2>1, <2>2 DEF AsksOnly
<1>7. ToldOfSome'
  BY <1>3 DEF ToldOfSome, PayInv, TellsOnly
<1>8. DebitedOnce'
  BY DEF DebitedOnce, PayInv, AsksOnly
<1> QED
  BY <1>2, <1>4, <1>5, <1>6, <1>7, <1>8 DEF PayInv

LEMMA PayerGoes ==
  ASSUME payer \in [Payers -> PayerType], NEW p \in Payers, NEW place \in PayStep,
         payer' = [payer EXCEPT ![p].at = place]
  PROVE  \E r \in PayerType : PayerBecomes(p, r) /\ r.at = place
<1> DEFINE r == [payer[p] EXCEPT !.at = place]
<1>1. payer[p] \in PayerType
  OBVIOUS
<1>2. /\ r \in PayerType /\ r.at = place /\ r.key = payer[p].key
      /\ r.purchase = payer[p].purchase /\ r.option = payer[p].option
  BY <1>1 DEF PayerType
<1>3. payer' = [payer EXCEPT ![p] = r]
  OBVIOUS
<1> QED
  BY <1>2, <1>3 DEF PayerBecomes

LEMMA Ending ==
  ASSUME payer \in [Payers -> PayerType], NEW p \in Payers, NEW end \in PayEnd, Ends(p, end)
  PROVE  \E r \in PayerType : PayerBecomes(p, r) /\ r.at = "done"
<1> DEFINE r == [payer[p] EXCEPT !.at = "done", !.end = end]
<1>1. payer[p] \in PayerType
  OBVIOUS
<1>2. /\ r \in PayerType /\ r.at = "done" /\ r.key = payer[p].key
      /\ r.purchase = payer[p].purchase /\ r.option = payer[p].option
  BY <1>1 DEF PayerType, PayStep
<1>3. payer' = [payer EXCEPT ![p] = r]
  BY DEF Ends
<1> QED
  BY <1>2, <1>3 DEF PayerBecomes

(* The key and the purchase of a command that has chosen can be handed     *)
(* back, and asked for.                                                    *)
LEMMA Asks ==
  ASSUME PayInv, NEW p \in Payers, payer[p].at \in {"sign", "signing", "replay", "again"}
  PROVE  /\ payer[p].key # Nothing /\ Pair(p) \in Handed /\ RequestOf(p) \in SignRequest
         /\ payer \in [Payers -> PayerType]
<1>1. payer[p] \in PayerType /\ payer \in [Payers -> PayerType]
  BY DEF PayInv, PayTypeInv
<1>2. payer[p].key # Nothing /\ payer[p].purchase # Nothing /\ payer[p].option # Nothing
  BY DEF PayInv, Chosen
<1>3. /\ payer[p].key \in IdemKeys /\ payer[p].purchase \in Payers
      /\ payer[p].option \in OptionType /\ payer[p].attempt \in 0..SignRetries
  BY <1>1, <1>2 DEF PayerType
<1>4. Pair(p) \in Handed
  BY <1>3 DEF Pair, Handed
<1>5. RequestOf(p) \in SignRequest
  BY <1>3 DEF RequestOf, SignRequest
<1> QED
  BY <1>1, <1>2, <1>4, <1>5

LEMMA HandsBack ==
  ASSUME PayInv, NEW p \in Payers, HandBack(p), Pair(p) \in Handed
  PROVE  /\ told' = told \cup {Pair(p)} /\ told' \subseteq Handed
         /\ told \subseteq told' /\ Pair(p) \in told'
BY DEF HandBack, Pair, PayInv, PayTypeInv

(* Who ends without asking had no key, or asked nothing.                   *)
LEMMA UnpaidKeeps ==
  ASSUME PayInv, NEW p \in Payers, CallUnpaid(p) PROVE PayInv'
<1>1. \E end \in PayEnd : Ends(p, end)
  BY DEF CallUnpaid, PayEnd
<1>2. PayTypeInv /\ payer[p].at = "call" /\ UNCHANGED <<inflight, debits, told, settlements>>
  BY DEF PayInv, CallUnpaid
<1>3. PICK r \in PayerType : PayerBecomes(p, r) /\ r.at = "done"
  BY <1>1, <1>2, Ending DEF PayTypeInv
<1>4. AsksOnly(p, r) /\ TellsOnly(p, r)
  BY <1>2 DEF AsksOnly, TellsOnly, PayTypeInv
<1> QED
  BY <1>2, <1>3, <1>4, MovesOn DEF PayTypeInv

(* Who asks and ends hands back the key.                                   *)
LEMMA HandingKeeps ==
  ASSUME PayInv, NEW p \in Payers, NEW end \in PayEnd, Ends(p, end), HandBack(p),
         payer[p].at \in {"signing", "replay", "again"},
         inflight' \subseteq inflight, UNCHANGED debits, settlements' \subseteq IdemKeys
  PROVE  PayInv'
<1>1. /\ PayTypeInv /\ Pair(p) \in Handed /\ payer[p].key # Nothing
      /\ payer \in [Payers -> PayerType]
  BY Asks DEF PayInv
<1>2. PICK r \in PayerType : PayerBecomes(p, r) /\ r.at = "done"
  BY <1>1, Ending
<1>3. TellsOnly(p, r)
  BY <1>1, HandsBack DEF TellsOnly
<1>4. AsksOnly(p, r)
  BY <1>1 DEF AsksOnly, PayTypeInv
<1> QED
  BY <1>2, <1>3, <1>4, MovesOn

(* Who goes on hands back nothing, and asks for what it has chosen.        *)
LEMMA GoingKeeps ==
  ASSUME PayInv, NEW p \in Payers, NEW r \in PayerType, PayerBecomes(p, r),
         r.at \in {"sign", "signing", "replay", "again", "dead"},
         r.at = "dead" \/ payer[p].at \in {"sign", "signing", "replay", "again"},
         AsksOnly(p, r), UNCHANGED told, settlements' \subseteq IdemKeys
  PROVE  PayInv'
<1>1. TellsOnly(p, r)
  BY DEF TellsOnly, PayInv, PayTypeInv
<1>2. r.at # "dead" => payer[p].key # Nothing
  BY Asks
<1> QED
  BY <1>1, <1>2, MovesOn

LEMMA AsksNothing ==
  ASSUME PayInv, NEW p \in Payers, NEW r \in PayerType, UNCHANGED <<inflight, debits>>
  PROVE  AsksOnly(p, r)
BY DEF AsksOnly, PayInv, PayTypeInv

LEMMA SettledType ==
  ASSUME PayInv, NEW p \in Payers, SellerMaySettle(p), payer[p].at \in {"replay", "again"}
  PROVE  settlements' \subseteq IdemKeys
<1>1. payer[p].key \in IdemKeys
  BY Asks DEF Pair, Handed
<1> QED
  BY <1>1 DEF SellerMaySettle, PayInv, PayTypeInv

LEMMA AskingKeeps ==
  ASSUME PayInv, NEW p \in Payers, SendSign(p) \/ SignAnswered(p) \/ PayerDies(p)
  PROVE  PayInv'
<1>1. PayTypeInv
  BY DEF PayInv
<1>2. CASE SendSign(p)
  <2>1. PICK r \in PayerType : PayerBecomes(p, r) /\ r.at = "signing"
    BY <1>1, <1>2, PayerGoes DEF SendSign, PayTypeInv, PayStep
  <2>2. AsksOnly(p, r)
    BY <1>1, <1>2, <2>1, Asks DEF SendSign, AsksOnly, PayTypeInv
  <2>3. payer[p].at = "sign" /\ UNCHANGED told /\ settlements' \subseteq IdemKeys
    BY <1>1, <1>2 DEF SendSign, PayTypeInv
  <2> QED
    BY <2>1, <2>2, <2>3, GoingKeeps
<1>3. CASE SignAnswered(p)
  <2>1. PICK r \in PayerType : PayerBecomes(p, r) /\ r.at = "replay"
    BY <1>1, <1>3, PayerGoes DEF SignAnswered, PayTypeInv, PayStep
  <2>2. payer[p].at = "signing" /\ UNCHANGED <<inflight, debits, told>> /\ settlements' \subseteq IdemKeys
    BY <1>1, <1>3 DEF SignAnswered, PayTypeInv
  <2> QED
    BY <2>1, <2>2, GoingKeeps, AsksNothing
<1>4. CASE PayerDies(p)
  <2>1. PICK r \in PayerType : PayerBecomes(p, r) /\ r.at = "dead"
    BY <1>1, <1>4, PayerGoes DEF PayerDies, PayTypeInv, PayStep
  <2>2. UNCHANGED <<inflight, debits, told>> /\ settlements' \subseteq IdemKeys
    BY <1>1, <1>4 DEF PayerDies, PayTypeInv
  <2> QED
    BY <2>1, <2>2, GoingKeeps, AsksNothing
<1> QED
  BY <1>2, <1>3, <1>4

LEMMA UnsignedKeeps ==
  ASSUME PayInv, NEW p \in Payers,
         \/ SignUnusable(p)
         \/ \E end \in {"unsigned", "disabled"} : SignRefused(p, end)
         \/ SignUnanswered(p)
  PROVE  PayInv'
<1>1. PayTypeInv
  BY DEF PayInv
<1>2. CASE SignUnusable(p)
  BY <1>1, <1>2, HandingKeeps DEF SignUnusable, PayEnd, PayTypeInv
<1>3. ASSUME NEW end \in {"unsigned", "disabled"}, SignRefused(p, end) PROVE PayInv'
  BY <1>1, <1>3, HandingKeeps DEF SignRefused, PayEnd, PayTypeInv
<1>4. CASE SignUnanswered(p)
  <2>1. CASE payer[p].attempt < SignRetries
    <3> DEFINE r == [payer[p] EXCEPT !.at = "sign", !.attempt = @ + 1]
    <3>1. payer[p] \in PayerType
      BY <1>1 DEF PayTypeInv
    <3>2. payer[p].attempt + 1 \in 0..SignRetries
      BY <2>1, <3>1, X402Assumption DEF PayerType, X402Assumption
    <3>3. /\ r \in PayerType /\ r.at = "sign" /\ r.key = payer[p].key
          /\ r.purchase = payer[p].purchase /\ r.option = payer[p].option
      BY <3>1, <3>2 DEF PayerType, PayStep
    <3>4. payer' = [payer EXCEPT ![p] = r]
      BY <1>4, <2>1 DEF SignUnanswered
    <3> HIDE DEF r
    <3>5. PayerBecomes(p, r)
      BY <3>3, <3>4 DEF PayerBecomes
    <3>6. /\ payer[p].at = "signing" /\ UNCHANGED <<inflight, debits, told>>
          /\ settlements' \subseteq IdemKeys
      BY <1>1, <1>4, <2>1 DEF SignUnanswered, PayTypeInv
    <3> QED
      BY <3>3, <3>5, <3>6, GoingKeeps, AsksNothing
  <2>2. CASE ~(payer[p].attempt < SignRetries)
    <3>1. /\ Ends(p, "unsigned") /\ HandBack(p) /\ payer[p].at = "signing"
          /\ UNCHANGED <<inflight, debits>> /\ settlements' \subseteq IdemKeys
      BY <1>1, <1>4, <2>2 DEF SignUnanswered, PayTypeInv
    <3> QED
      BY <3>1, HandingKeeps DEF PayEnd
  <2> QED
    BY <2>1, <2>2
<1> QED
  BY <1>2, <1>3, <1>4

LEMMA ReplayKeeps ==
  ASSUME PayInv, NEW p \in Payers, ReplayAnswered(p) \/ ReplayLost(p)
  PROVE  PayInv'
<1>1. PayTypeInv
  BY DEF PayInv
<1>2. CASE ReplayAnswered(p)
  <2>1. settlements' \subseteq IdemKeys
    BY <1>2, SettledType DEF ReplayAnswered
  <2> QED
    BY <1>2, <2>1, HandingKeeps DEF ReplayAnswered, PayEnd
<1>3. CASE ReplayLost(p)
  <2>1. settlements' \subseteq IdemKeys
    BY <1>3, SettledType DEF ReplayLost
  <2>2. CASE payer[p].at = "replay"
    <3>1. PICK r \in PayerType : PayerBecomes(p, r) /\ r.at = "again"
      BY <1>1, <1>3, <2>2, PayerGoes DEF ReplayLost, PayTypeInv, PayStep
    <3>2. UNCHANGED <<inflight, debits, told>>
      BY <1>3, <2>2 DEF ReplayLost
    <3> QED
      BY <2>1, <2>2, <3>1, <3>2, GoingKeeps, AsksNothing
  <2>3. CASE payer[p].at = "again"
    BY <1>3, <2>1, <2>3, HandingKeeps DEF ReplayLost, PayEnd
  <2> QED
    BY <1>3, <2>2, <2>3 DEF ReplayLost
<1> QED
  BY <1>2, <1>3

(* Rozo debits each key once.                                              *)
LEMMA RozoKeeps == ASSUME PayInv, RozoSigns PROVE PayInv'
<1>1. PICK r \in inflight :
         /\ inflight' = inflight \ {r}
         /\ debits' = IF Debited(r.key) THEN debits ELSE debits \cup {r}
  BY DEF RozoSigns
<1>2. UNCHANGED <<payer, told, settlements>>
  BY DEF RozoSigns
<1>3. PayTypeInv'
  BY <1>1, <1>2 DEF PayInv, PayTypeInv
<1>4. (inflight \cup debits)' \subseteq inflight \cup debits
  BY <1>1
<1>5. \A x \in (inflight \cup debits)' : OfItsCommand(x)'
  BY <1>2, <1>4 DEF PayInv, OfItsCommand, Pair
<1>6. DebitedOnce'
  BY <1>1 DEF PayInv, DebitedOnce, Debited
<1>7. (\A p \in Payers : Chosen(p)') /\ OneKeyEach' /\ ToldOfSome'
  BY <1>2 DEF PayInv, Chosen, OneKeyEach, ToldOfSome, Pair
<1> QED
  BY <1>3, <1>5, <1>6, <1>7 DEF PayInv

(* A purchase begins with a key nobody has, or goes on with one that was   *)
(* handed back.                                                            *)
LEMMA BoundKey ==
  ASSUME PayInv, NEW p \in Payers, payer[p].at = "call", NEW b \in Purchases(p)
  PROVE  /\ b.key \in IdemKeys /\ b.purchase \in Payers
         /\ b.purchase = p \/ payer[b.purchase].at # "call"
         /\ \A q \in Payers : payer[q].key # Nothing =>
              (payer[q].key = b.key <=> payer[q].purchase = b.purchase)
<1>1. CASE b \in [key : FreshKeys, purchase : {p}]
  <2>1. b.key \in IdemKeys /\ b.purchase = p /\ \A q \in Payers : payer[q].key # b.key
    BY <1>1 DEF FreshKeys
  <2>2. \A q \in Payers : payer[q].key # Nothing => payer[q].purchase # p
    BY DEF PayInv, Chosen
  <2> QED
    BY <2>1, <2>2
<1>2. CASE b \in told
  <2>1. b.key \in IdemKeys /\ b.purchase \in Payers
    BY <1>2 DEF PayInv, PayTypeInv, Handed
  <2>2. PICK q \in Payers : payer[q].key # Nothing /\ b = Pair(q)
    BY <1>2 DEF PayInv, ToldOfSome
  <2>3. b.key = payer[q].key /\ b.purchase = payer[q].purchase
    BY <2>2 DEF Pair
  <2>4. payer[b.purchase].at # "call"
    BY <2>2, <2>3 DEF PayInv, Chosen
  <2> QED
    BY <2>1, <2>2, <2>3, <2>4 DEF PayInv, OneKeyEach
<1> QED
  BY <1>1, <1>2 DEF Purchases

LEMMA SelectedOption ==
  ASSUME NEW c \in Challenges, NEW p \in Payers, NEW o \in Select(c, Budget[p])
  PROVE  o \in OptionType /\ o.payable /\ o.amount <= Budget[p]
BY X402Assumption DEF X402Assumption, Select

LEMMA PricedKeeps ==
  ASSUME PayInv, NEW p \in Payers, CallPriced(p) PROVE PayInv'
<1>0. PayTypeInv /\ payer[p].at = "call" /\ UNCHANGED <<inflight, debits, told, settlements>>
  BY DEF PayInv, CallPriced
<1>1. PICK c \in Challenges, b \in Purchases(p), agent \in AgentKeyRead :
      \E o \in Select(c, Budget[p]) :
        /\ o.payTo \notin Listed
        /\ IF agent = Nothing THEN Ends(p, "no key")
           ELSE payer' = [payer EXCEPT ![p].at = "sign", ![p].option = o,
                            ![p].key = b.key, ![p].purchase = b.purchase]
  BY DEF CallPriced
<1>2. PICK o \in Select(c, Budget[p]) :
        /\ o.payTo \notin Listed
        /\ IF agent = Nothing THEN Ends(p, "no key")
           ELSE payer' = [payer EXCEPT ![p].at = "sign", ![p].option = o,
                            ![p].key = b.key, ![p].purchase = b.purchase]
  BY <1>1
<1>3. CASE Ends(p, "no key")
  <2>1. PICK r \in PayerType : PayerBecomes(p, r) /\ r.at = "done"
    BY <1>0, <1>3, Ending DEF PayTypeInv, PayEnd
  <2>2. AsksOnly(p, r) /\ TellsOnly(p, r)
    BY <1>0 DEF AsksOnly, TellsOnly, PayTypeInv
  <2> QED
    BY <1>0, <2>1, <2>2, MovesOn DEF PayTypeInv
<1>4. CASE payer' = [payer EXCEPT ![p].at = "sign", ![p].option = o,
                       ![p].key = b.key, ![p].purchase = b.purchase]
  <2> DEFINE r == [payer[p] EXCEPT !.at = "sign", !.option = o, !.key = b.key,
                                   !.purchase = b.purchase]
  <2>1. /\ o \in OptionType /\ o.payable /\ o.amount <= Budget[p] /\ o.payTo \notin Listed
        /\ o # Nothing
    BY <1>2, SelectedOption, X402Assumption DEF X402Assumption
  <2>2. /\ b.key \in IdemKeys /\ b.purchase \in Payers
        /\ b.purchase = p \/ payer[b.purchase].at # "call"
        /\ \A q \in Payers : payer[q].key # Nothing =>
             (payer[q].key = b.key <=> payer[q].purchase = b.purchase)
        /\ b.key # Nothing /\ b.purchase # Nothing
    BY <1>0, BoundKey, X402Assumption DEF X402Assumption
  <2>3. payer[p] \in PayerType
    BY <1>0 DEF PayTypeInv
  <2>4. /\ r \in PayerType /\ r.at = "sign" /\ r.option = o /\ r.key = b.key
        /\ r.purchase = b.purchase
    BY <2>1, <2>2, <2>3 DEF PayerType, PayStep
  <2>5. payer' = [payer EXCEPT ![p] = r]
    BY <1>4
  <2> HIDE DEF r
  <2>6. /\ payer' \in [Payers -> PayerType] /\ payer'[p] = r
        /\ \A q \in Payers : q # p => payer'[q] = payer[q]
    BY <1>0, <2>4, <2>5 DEF PayTypeInv
  <2>7. PayTypeInv'
    BY <1>0, <2>6 DEF PayTypeInv
  <2>8. \A q \in Payers : payer[q].key # Nothing => q # p
    BY <1>0 DEF PayInv, Chosen
  <2>9. ASSUME NEW q \in Payers PROVE Chosen(q)'
    <3>1. Chosen(q)
      BY DEF PayInv
    <3>2. payer[q].key # Nothing => payer[q].purchase \in Payers
      BY <1>0, <3>1 DEF Chosen, PayTypeInv, PayerType
    <3>3. CASE q = p
      BY <2>1, <2>2, <2>4, <2>6, <3>3 DEF Chosen
    <3>4. CASE q # p
      <4>1. payer[q].key # Nothing => payer'[payer[q].purchase].at # "call"
        BY <2>4, <2>6, <3>1, <3>2 DEF Chosen
      <4> QED
        BY <2>6, <3>1, <3>4, <4>1 DEF Chosen
    <3> QED
      BY <3>3, <3>4
  <2>10. OneKeyEach'
    <3>1. OneKeyEach
      BY DEF PayInv
    <3> QED
      BY <2>2, <2>4, <2>6, <3>1 DEF OneKeyEach
  <2>11. ASSUME NEW x \in (inflight \cup debits)' PROVE OfItsCommand(x)'
    <3>1. OfItsCommand(x) /\ x.by \in Payers
      BY <1>0, <2>11 DEF PayInv, PayTypeInv, SignRequest
    <3>2. x.by # p
      BY <1>0, <3>1 DEF OfItsCommand
    <3> QED
      BY <1>0, <2>6, <3>1, <3>2 DEF OfItsCommand, Pair
  <2>12. ToldOfSome'
    <3>1. ASSUME NEW x \in told
          PROVE  \E q \in Payers : payer'[q].key # Nothing /\ x = Pair(q)'
      <4>1. PICK q \in Payers : payer[q].key # Nothing /\ x = Pair(q)
        BY <3>1 DEF PayInv, ToldOfSome
      <4>2. payer'[q] = payer[q]
        BY <2>6, <2>8, <4>1
      <4> QED
        BY <4>1, <4>2 DEF Pair
    <3> QED
      BY <1>0, <3>1 DEF ToldOfSome
  <2>13. DebitedOnce'
    BY <1>0 DEF PayInv, DebitedOnce
  <2> QED
    BY <2>7, <2>9, <2>10, <2>11, <2>12, <2>13 DEF PayInv
<1> QED
  BY <1>2, <1>3, <1>4

LEMMA PayStepKeeps ==
  ASSUME PayInv, NextPay PROVE PayInv'
<1>1. ASSUME NEW p \in Payers, PayCommandStep(p) PROVE PayInv'
  BY <1>1, UnpaidKeeps, PricedKeeps, AskingKeeps, UnsignedKeeps, ReplayKeeps DEF PayCommandStep
<1>2. ASSUME NEW p \in Payers, PayerDies(p) PROVE PayInv'
  BY <1>2, AskingKeeps
<1> QED
  BY <1>1, <1>2, RozoKeeps DEF NextPay

LEMMA PayRests ==
  ASSUME PayInv, UNCHANGED payVars PROVE PayInv'
BY DEF payVars, PayInv, PayTypeInv, Chosen, OneKeyEach, OfItsCommand, Pair, ToldOfSome, DebitedOnce

------------------------------------------------------------------------------
(* Where a topup command goes, and with which key.                         *)
LEMMA TopupGoes ==
  ASSUME TopupInv, NEW t \in Topups, NEW place \in TopupStep,
         NEW k \in AgentKeys \cup {Nothing}, TopupTo(t, place, k)
  PROVE  /\ topup' \in [Topups -> TopupType]
         /\ topup'[t].at = place /\ topup'[t].key = k
         /\ \A u \in Topups : u # t => topup'[u] = topup[u]
<1> DEFINE r == [topup[t] EXCEPT !.at = place, !.key = k]
<1>1. topup \in [Topups -> TopupType] /\ topup[t] \in TopupType
  BY DEF TopupInv, TopupTypeInv
<1>2. r \in TopupType /\ r.at = place /\ r.key = k
  BY <1>1 DEF TopupType
<1>3. topup' = [topup EXCEPT ![t] = r]
  BY DEF TopupTo
<1> HIDE DEF r
<1> QED
  BY <1>1, <1>2, <1>3

(* A step that leaves the file and what was shown alone, and does not open *)
(* the file.                                                               *)
LEMMA TopupAside ==
  ASSUME TopupInv, NEW t \in Topups, NEW place \in TopupStep \ {"write"},
         NEW k \in AgentKeys \cup {Nothing}, TopupTo(t, place, k),
         UNCHANGED <<keyFile, shown>>, issued' \subseteq AgentKeys,
         place \in {"open", "order"} => k \in AgentKeys,
         place = "order" => k \in EnvKeys \/ keyFile = k
  PROVE  TopupInv'
<1>1. /\ topup' \in [Topups -> TopupType]
      /\ topup'[t].at = place /\ topup'[t].key = k
      /\ \A u \in Topups : u # t => topup'[u] = topup[u]
  BY TopupGoes
<1>2. TopupTypeInv'
  BY <1>1 DEF TopupInv, TopupTypeInv
<1> QED
  BY <1>1, <1>2 DEF TopupInv, DepositForKeptKey

LEMMA TopupStepKeeps ==
  ASSUME TopupInv, NEW t \in Topups, TopupCommandStep(t) \/ TopupDies(t)
  PROVE  TopupInv'
<1>0. TopupTypeInv
  BY DEF TopupInv
<1>10. AgentKeys \cap {Nothing, "empty"} = {} /\ Nothing # "empty" /\ EnvKeys \subseteq AgentKeys
  BY X402Assumption DEF X402Assumption
<1>1. CASE ReadAgentKey(t)
  <2>1. PICK k \in AgentKeyRead : TopupTo(t, IF k = Nothing THEN "create" ELSE "order", k)
    BY <1>1 DEF ReadAgentKey
  <2>2. /\ k \in AgentKeys \cup {Nothing}
        /\ k # Nothing => k \in AgentKeys /\ (k \in EnvKeys \/ keyFile = k)
    BY <1>10 DEF AgentKeyRead
  <2>3. UNCHANGED <<keyFile, shown, issued>> /\ issued' \subseteq AgentKeys
    BY <1>0, <1>1 DEF ReadAgentKey, TopupTypeInv
  <2>4. CASE k = Nothing
    BY <2>1, <2>2, <2>3, <2>4, TopupAside DEF TopupStep
  <2>5. CASE k # Nothing
    BY <2>1, <2>2, <2>3, <2>5, TopupAside DEF TopupStep
  <2> QED
    BY <2>4, <2>5
<1>2. CASE CreateKey(t)
  <2>1. PICK k \in AgentKeys \cup {Nothing}, place \in {"open", "done"} :
          TopupTo(t, place, k) /\ (place = "open" => k \in AgentKeys)
    BY <1>2 DEF CreateKey
  <2>2. UNCHANGED <<keyFile, shown>> /\ issued' \subseteq AgentKeys
    BY <1>0, <1>2 DEF CreateKey, TopupTypeInv
  <2> QED
    BY <2>1, <2>2, TopupAside DEF TopupStep
<1>3. CASE OpenKeyFile(t)
  <2>1. CASE keyFile = Nothing
    <3>1. /\ topup[t].at = "open" /\ keyFile' = "empty" /\ TopupTo(t, "write", topup[t].key)
          /\ UNCHANGED <<issued, shown>>
      BY <1>3, <2>1 DEF OpenKeyFile
    <3>2. topup[t].key \in AgentKeys
      BY <3>1 DEF TopupInv
    <3>3. /\ topup' \in [Topups -> TopupType]
          /\ topup'[t].at = "write" /\ topup'[t].key = topup[t].key
          /\ \A u \in Topups : u # t => topup'[u] = topup[u]
      BY <3>1, <3>2, TopupGoes DEF TopupStep
    <3>4. TopupTypeInv'
      BY <1>0, <3>1, <3>3 DEF TopupTypeInv
    <3>5. \A u \in Topups : topup[u].at # "write"
      BY <1>10, <2>1 DEF TopupInv
    <3>6. \A u \in Topups : topup[u].at = "order" => topup[u].key \in EnvKeys
      BY <1>10, <2>1 DEF TopupInv
    <3>7. shown \subseteq EnvKeys
      BY <1>0, <1>10, <2>1 DEF TopupInv, DepositForKeptKey, TopupTypeInv
    <3> QED
      BY <3>1, <3>2, <3>3, <3>4, <3>5, <3>6, <3>7 DEF TopupInv, DepositForKeptKey
  <2>2. CASE keyFile # Nothing
    <3>1. /\ TopupTo(t, "done", Nothing) /\ UNCHANGED <<keyFile, issued, shown>>
          /\ issued' \subseteq AgentKeys
      BY <1>0, <1>3, <2>2 DEF OpenKeyFile, TopupTypeInv
    <3> QED
      BY <3>1, TopupAside DEF TopupStep
  <2> QED
    BY <2>1, <2>2
<1>4. CASE WriteKey(t)
  <2>1. /\ topup[t].at = "write" /\ keyFile' = topup[t].key
        /\ TopupTo(t, "order", topup[t].key) /\ UNCHANGED <<issued, shown>>
    BY <1>4 DEF WriteKey
  <2>2. topup[t].key \in AgentKeys /\ keyFile = "empty"
    BY <2>1 DEF TopupInv
  <2>3. /\ topup' \in [Topups -> TopupType]
        /\ topup'[t].at = "order" /\ topup'[t].key = topup[t].key
        /\ \A u \in Topups : u # t => topup'[u] = topup[u]
    BY <2>1, <2>2, TopupGoes DEF TopupStep
  <2>4. TopupTypeInv'
    BY <1>0, <2>1, <2>2, <2>3 DEF TopupTypeInv
  <2>5. \A u \in Topups : u # t => topup[u].at # "write"
    BY <2>1 DEF TopupInv
  <2>6. \A u \in Topups : topup[u].at = "order" => topup[u].key \in EnvKeys
    BY <1>10, <2>2 DEF TopupInv
  <2>7. shown \subseteq EnvKeys
    BY <1>0, <1>10, <2>2 DEF TopupInv, DepositForKeptKey, TopupTypeInv
  <2> QED
    BY <2>1, <2>2, <2>3, <2>4, <2>5, <2>6, <2>7 DEF TopupInv, DepositForKeptKey
<1>5. CASE OrderTopup(t)
  <2>1. /\ topup[t].at = "order" /\ shown' \in {shown, shown \cup {topup[t].key}}
        /\ TopupTo(t, "done", Nothing) /\ UNCHANGED <<keyFile, issued>>
    BY <1>5 DEF OrderTopup
  <2>2. /\ topup' \in [Topups -> TopupType]
        /\ topup'[t].at = "done"
        /\ \A u \in Topups : u # t => topup'[u] = topup[u]
    BY <2>1, TopupGoes DEF TopupStep
  <2>3. topup[t].key \in AgentKeys /\ (topup[t].key \in EnvKeys \/ keyFile = topup[t].key)
    BY <2>1 DEF TopupInv
  <2>4. TopupTypeInv'
    BY <1>0, <2>1, <2>2, <2>3 DEF TopupTypeInv
  <2>5. DepositForKeptKey'
    BY <2>1, <2>3 DEF TopupInv, DepositForKeptKey
  <2> QED
    BY <2>1, <2>2, <2>4, <2>5 DEF TopupInv
<1>6. CASE TopupDies(t)
  <2>1. /\ TopupTo(t, "dead", Nothing) /\ UNCHANGED <<keyFile, issued, shown>>
        /\ issued' \subseteq AgentKeys
    BY <1>0, <1>6 DEF TopupDies, TopupTypeInv
  <2> QED
    BY <2>1, TopupAside DEF TopupStep
<1> QED
  BY <1>1, <1>2, <1>3, <1>4, <1>5, <1>6 DEF TopupCommandStep

LEMMA TopupRests ==
  ASSUME TopupInv, UNCHANGED topupVars PROVE TopupInv'
BY DEF topupVars, TopupInv, TopupTypeInv, DepositForKeptKey

------------------------------------------------------------------------------
LEMMA StaysAside ==
  /\ NextPay => UNCHANGED topupVars
  /\ NextTopup => UNCHANGED payVars
<1>1. ASSUME NextPay PROVE UNCHANGED topupVars
  BY <1>1 DEF NextPay, RozoSigns, PayerDies, PayCommandStep, CallUnpaid, CallPriced, SendSign,
     SignAnswered, SignUnusable, SignUnanswered, SignRefused, ReplayAnswered, ReplayLost
<1>2. ASSUME NextTopup PROVE UNCHANGED payVars
  BY <1>2 DEF NextTopup, TopupCommandStep, TopupDies, ReadAgentKey, CreateKey, OpenKeyFile,
     WriteKey, OrderTopup
<1> QED
  BY <1>1, <1>2

LEMMA NextX402Inv ==
  ASSUME X402Inv, [NextX402]_x402Vars PROVE X402Inv'
<1>1. PayInv /\ TopupInv
  BY DEF X402Inv
<1>2. CASE NextPay
  BY <1>1, <1>2, StaysAside, PayStepKeeps, TopupRests DEF X402Inv
<1>3. CASE NextTopup
  BY <1>1, <1>3, StaysAside, TopupStepKeeps, PayRests DEF X402Inv, NextTopup
<1>4. CASE UNCHANGED x402Vars
  BY <1>1, <1>4, PayRests, TopupRests DEF X402Inv, x402Vars
<1> QED
  BY <1>2, <1>3, <1>4 DEF NextX402

LEMMA X402Invariant == SafeSpecX402 => []X402Inv
<1>1. X402Inv /\ [NextX402]_x402Vars => X402Inv'
  BY NextX402Inv
<1> QED
  BY <1>1, InitX402Inv, PTL DEF SafeSpecX402

(* The ledger, the commands and the key file keep their types.             *)
THEOREM X402TypeCorrect == SafeSpecX402 => []TypeOKX402
<1>1. X402Inv => TypeOKX402
  BY DEF X402Inv, PayInv, TopupInv, PayTypeInv, TopupTypeInv, TypeOKX402
<1> QED
  BY <1>1, X402Invariant, PTL

(* Whatever is retried, lost or rerun, one purchase is one charge          *)
(* (signWithRetry).                                                        *)
THEOREM PurchaseChargedOnce == SafeSpecX402 => []ChargedOnce
<1>1. ASSUME X402Inv PROVE ChargedOnce
  <2> SUFFICES ASSUME NEW d \in debits, NEW e \in debits, d.purchase = e.purchase
               PROVE  d = e
    BY DEF ChargedOnce
  <2>1. OfItsCommand(d) /\ OfItsCommand(e) /\ d.by \in Payers /\ e.by \in Payers
        /\ d.key \in IdemKeys /\ e.key \in IdemKeys
    BY <1>1 DEF X402Inv, PayInv, PayTypeInv, SignRequest
  <2>2. d.key # Nothing /\ e.key # Nothing
    BY <2>1, X402Assumption DEF X402Assumption
  <2>3. d.key = e.key
    BY <1>1, <2>1, <2>2 DEF X402Inv, PayInv, OneKeyEach, OfItsCommand
  <2> QED
    BY <1>1, <2>3 DEF X402Inv, PayInv, DebitedOnce
<1> QED
  BY <1>1, X402Invariant, PTL

(* No charge is over its command's --max-usd or for a listed address       *)
(* (selectRequirement).                                                    *)
THEOREM NeverOverBudget == SafeSpecX402 => []ChargedWithinBudget
<1>1. ASSUME X402Inv PROVE ChargedWithinBudget
  <2> SUFFICES ASSUME NEW d \in debits
               PROVE  /\ d.option.payable /\ d.option.amount <= Budget[d.by]
                      /\ d.option.payTo \notin Listed
    BY DEF ChargedWithinBudget
  <2>1. OfItsCommand(d) /\ Chosen(d.by) /\ d.option # Nothing
    BY <1>1, X402Assumption DEF X402Inv, PayInv, PayTypeInv, SignRequest, X402Assumption
  <2> QED
    BY <2>1 DEF OfItsCommand, Chosen
<1> QED
  BY <1>1, X402Invariant, PTL

(* A command that asked Rozo to sign and ended has handed back the key of  *)
(* whatever it was, or may yet be, charged.                                *)
THEOREM EndedHandsBack == SafeSpecX402 => []KeyHandedBack
<1>1. ASSUME X402Inv PROVE KeyHandedBack
  BY <1>1 DEF X402Inv, PayInv, OfItsCommand, Pair, KeyHandedBack
<1> QED
  BY <1>1, X402Invariant, PTL

(* A deposit is shown for a key of the environment or for the one in the   *)
(* key file, which stays there (saveAgentKey).                             *)
THEOREM DepositKeyKept == SafeSpecX402 => []DepositForKeptKey
<1>1. X402Inv => DepositForKeptKey
  BY DEF X402Inv, TopupInv
<1> QED
  BY <1>1, X402Invariant, PTL
==============================================================================
