------------------------------ MODULE MCClient ------------------------------
(***************************************************************************)
(* What commands wait for, for TLC: the state lock, answers to x402        *)
(* payments, or to x402 topups, to one rate-limited call, to the snapshots *)
(* of a watched order, or the lock of the preferences.  A behaviour is of  *)
(* one kind, and all of them must end.                                     *)
(***************************************************************************)
EXTENDS SendLock, MCX402, HttpRetry, MCStatus, Prefs

CONSTANT p3   \* p1, p2 and p3 also contend for the lock

VARIABLE kind

clientVars == <<kind, lockVars, x402Vars, httpVars, statusVars, prefsVars>>

(* An order per rule a watch takes its limit from. *)
MCWatched == {o \in MCOrders : o.family # "zec"}

MCBackoff == [r \in 0..MaxRetries |-> CASE r = 0 -> 1 [] r = 1 -> 2 [] OTHER -> 4]

(* One command at least needs the install id, and there is none yet.       *)
MCIdentifying ==
  [p \in Savers |-> [at |-> "start", update |-> Identify, overdue |-> FALSE,
                     seen |-> NoPrefs, saved |-> FALSE, id |-> Blank]]

InitClient ==
  /\ kind \in {"lock", "pay", "topup", "http", "watch", "prefs"}
  /\ LockInit
  /\ InitX402   /\ (kind \notin {"pay", "topup"} => keyFile = Nothing)
  /\ InitHttp   /\ (kind # "http" => call.budget = MaxTotalWait)
  /\ InitStatus /\ (kind # "watch" => payment.ready /\ order = MCStable)
  /\ InitPrefs  /\ prefs = NoPrefs /\ (\E p \in Savers : saver[p].update = Identify)
                /\ (kind # "prefs" => prefsLock = NoLockFile /\ saver = MCIdentifying)

OfLock  == kind = "lock"  /\ UNCHANGED <<kind, x402Vars, httpVars, statusVars, prefsVars>>
OfPay   == kind = "pay"   /\ UNCHANGED <<kind, lockVars, httpVars, statusVars, prefsVars>>
OfTopup == kind = "topup" /\ UNCHANGED <<kind, lockVars, httpVars, statusVars, prefsVars>>
OfHttp  == kind = "http"  /\ UNCHANGED <<kind, lockVars, x402Vars, statusVars, prefsVars>>
OfWatch == kind = "watch" /\ UNCHANGED <<kind, lockVars, x402Vars, httpVars, prefsVars>>
OfPrefs == kind = "prefs" /\ UNCHANGED <<kind, lockVars, x402Vars, httpVars, statusVars>>

NextClient ==
  \/ OfLock  /\ LockNext
  \/ OfPay   /\ NextPay
  \/ OfTopup /\ NextTopup
  \/ OfHttp  /\ NextHttp
  \/ OfWatch /\ NextStatus
  \/ OfPrefs /\ NextPrefs

(* The fairness of FairLockSpec, SpecX402, SpecHttp, SpecStatus and        *)
(* SpecPrefs: a process takes its steps, an answer or the end of a wait    *)
(* comes, a clock runs.  A behaviour keeps its kind, so one condition      *)
(* serves them all.                                                        *)
ProcessStep(p) ==
  \/ OfLock  /\ (Contend(p) \/ Release(p))
  \/ OfPay   /\ p \in Payers /\ PayCommandStep(p)
  \/ OfTopup /\ p \in Topups /\ TopupCommandStep(p)
  \/ OfPrefs /\ p \in Savers /\ SaverStep(p)

DeadlineStep(p) == (OfLock /\ Overdue(p)) \/ (OfPrefs /\ p \in Savers /\ WaitOver(p))

RequestStep == (OfHttp /\ CallStep) \/ (OfWatch /\ ReaderStepNext)
ClockStep   == (OfHttp /\ TickHttp) \/ (OfWatch /\ Tick)

FairClient ==
  /\ \A p \in Procs : WF_clientVars(ProcessStep(p)) /\ WF_clientVars(DeadlineStep(p))
  /\ WF_clientVars(RequestStep)
  /\ WF_clientVars(ClockStep)

SpecClient == InitClient /\ [][NextClient]_clientVars /\ FairClient

------------------------------------------------------------------------------
(* Whatever a command waits for, it ends unless it is killed: pay and      *)
(* topup, although answers are lost; a rate-limited call, in an answer or  *)
(* an error; a watch, by its limit, although the order may never reach a   *)
(* final state; and a save of preferences, although their lock is held     *)
(* ("Returns undefined if the lock cannot be had in time"), unless the     *)
(* system refuses every look at it, or every removal of a stale one: then  *)
(* it retries for ever.                                                    *)
CommandsEnd ==
  /\ kind = "pay"   ~> PayersOver
  /\ kind = "topup" ~> TopupsOver
  /\ kind = "http"  ~> CallOver
  /\ PrefsLockServed => (kind = "prefs" ~> SaversOver)
  /\ WatchEnds
=============================================================================
