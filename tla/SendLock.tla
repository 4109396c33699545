------------------------------- MODULE SendLock -------------------------------
(***************************************************************************)
(* withLock of scripts/src/lib/state.mjs: cross-process mutual exclusion   *)
(* through one lock file in the state root.  Each system call (open with   *)
(* O_EXCL, stat, rename, unlink) is an action of its own, so processes     *)
(* interleave, stall and crash between any two of them.                    *)
(*                                                                         *)
(* Time appears only as two facts: that the lock file has become older     *)
(* than LOCK_STALE_MS, and that a waiter has waited past LOCK_WAIT_MS.     *)
(* The stolen file's random name is private to the thief, so the rename    *)
(* and the unlink of that name are one action.  Whether the file system    *)
(* lets a process rename or unlink the lock file (permissions, a mount     *)
(* turned read-only) is its own choice at each call: every such error is   *)
(* swallowed.                                                              *)
(***************************************************************************)
EXTENDS Integers

CONSTANTS
  Procs,       \* concurrent rozo-checkout invocations
  NoLock,      \* the lock file does not exist
  MaxEntries,  \* bound: withLock calls one invocation makes
  MayCrash,    \* may an invocation die at any point?
  MayStall,    \* may a live holder keep the lock past LOCK_STALE_MS?
  MayRefuse    \* may the file system refuse to rename or unlink the lock file?

ASSUME LockAssumption ==
  /\ NoLock \notin Procs
  /\ MaxEntries \in Nat \ {0}
  /\ MayCrash \in BOOLEAN
  /\ MayStall \in BOOLEAN
  /\ MayRefuse \in BOOLEAN

VARIABLES
  lock,        \* the process whose lock file is in place, or NoLock
  stale,       \* is that file older than LOCK_STALE_MS?
  wpc,         \* where each process is in withLock
  overdue,     \* has the process waited past its deadline?
  entries,     \* withLock calls made so far
  stealers,    \* history: processes that ever judged a lock file stale
  stalled      \* history: did a live holder's file ever grow stale?

lockVars == <<lock, stale, wpc, overdue, entries, stealers, stalled>>

Waiting == {"try", "stat", "rename"}
Places  == Waiting \cup {"out", "in", "timedOut", "crashed"}

LockTypeOK ==
  /\ lock \in Procs \cup {NoLock}
  /\ stale \in BOOLEAN
  /\ wpc \in [Procs -> Places]
  /\ overdue \in [Procs -> BOOLEAN]
  /\ entries \in [Procs -> 0..MaxEntries]
  /\ stealers \subseteq Procs
  /\ stalled \in BOOLEAN

LockInit ==
  /\ lock = NoLock
  /\ stale = FALSE
  /\ wpc = [p \in Procs |-> "out"]
  /\ overdue = [p \in Procs |-> FALSE]
  /\ entries = [p \in Procs |-> 0]
  /\ stealers = {}
  /\ stalled = FALSE

Goto(p, from, to) ==
  /\ wpc[p] = from
  /\ wpc' = [wpc EXCEPT ![p] = to]

------------------------------------------------------------------------------
(* withLock(fn) is called: the deadline is set LOCK_WAIT_MS ahead. *)
Enter(p) ==
  /\ Goto(p, "out", "try")
  /\ entries[p] < MaxEntries
  /\ entries' = [entries EXCEPT ![p] = @ + 1]
  /\ overdue' = [overdue EXCEPT ![p] = FALSE]
  /\ UNCHANGED <<lock, stale, stealers, stalled>>

(* Mutant: the file is opened without O_EXCL. *)
OpenAnyway(p) ==
  /\ Goto(p, "try", "in")
  /\ lock' = p
  /\ stale' = FALSE
  /\ UNCHANGED <<overdue, entries, stealers, stalled>>

(* tryAcquire: openSync(file, 'wx') creates the file or fails with EEXIST. *)
TryAcquire(p) ==
  /\ \/ /\ lock = NoLock
        /\ Goto(p, "try", "in")
        /\ lock' = p
        /\ stale' = FALSE
     \/ /\ lock # NoLock
        /\ Goto(p, "try", "stat")
        /\ UNCHANGED <<lock, stale>>
  /\ UNCHANGED <<overdue, entries, stealers, stalled>>

(* statSync: ENOENT retries at once, an old file is to be stolen, and only *)
(* a fresh one reaches the deadline check, then sleeps and polls again.    *)
StatGone(p) ==
  /\ lock = NoLock
  /\ Goto(p, "stat", "try")
  /\ UNCHANGED <<lock, stale, overdue, entries, stealers, stalled>>

(* Mutant: any lock file is judged stale. *)
JudgeAnyStale(p) ==
  /\ lock # NoLock
  /\ Goto(p, "stat", "rename")
  /\ stealers' = stealers \cup {p}
  /\ UNCHANGED <<lock, stale, overdue, entries, stalled>>

JudgeStale(p) ==
  /\ lock # NoLock /\ stale
  /\ Goto(p, "stat", "rename")
  /\ stealers' = stealers \cup {p}
  /\ UNCHANGED <<lock, stale, overdue, entries, stalled>>

(* Mutant: the deadline is never looked at. *)
PollForever(p) ==
  /\ lock # NoLock /\ ~stale
  /\ Goto(p, "stat", "try")
  /\ UNCHANGED <<lock, stale, overdue, entries, stealers, stalled>>

(* Mutant: the waiter sleeps and is not woken. *)
SleepOnce(p) ==
  /\ lock # NoLock /\ ~stale
  /\ Goto(p, "stat", "asleep")
  /\ UNCHANGED <<lock, stale, overdue, entries, stealers, stalled>>

JudgeFresh(p) ==
  /\ lock # NoLock /\ ~stale
  /\ Goto(p, "stat", IF overdue[p] THEN "timedOut" ELSE "try")
  /\ UNCHANGED <<lock, stale, overdue, entries, stealers, stalled>>

(* What a rename or an unlink of the lock file does to it: it takes        *)
(* whatever file now has that name, if any, or is refused.                 *)
TakeFile ==
  \/ lock' = NoLock /\ stale' = FALSE
  \/ MayRefuse /\ UNCHANGED <<lock, stale>>

(* renameSync(file, stolen): whatever it throws is swallowed, and the loop *)
(* retries at once, past the deadline check.                               *)
RenameOut(p) ==
  /\ Goto(p, "rename", "try")
  /\ TakeFile
  /\ UNCHANGED <<overdue, entries, stealers, stalled>>

(* finally: unlinkSync(file), whose errors are swallowed too: a live       *)
(* process may leave its file behind.                                      *)
Release(p) ==
  /\ Goto(p, "in", "out")
  /\ TakeFile
  /\ UNCHANGED <<overdue, entries, stealers, stalled>>

Contend(p) ==
  \/ TryAcquire(p)
  \/ StatGone(p)
  \/ JudgeStale(p)
  \/ JudgeFresh(p)
  \/ RenameOut(p)

------------------------------------------------------------------------------
(* The process dies; its lock file, if any, stays behind. *)
Crash(p) ==
  /\ MayCrash
  /\ wpc[p] \notin {"timedOut", "crashed"}
  /\ wpc' = [wpc EXCEPT ![p] = "crashed"]
  /\ UNCHANGED <<lock, stale, overdue, entries, stealers, stalled>>

(* LOCK_STALE_MS passes over a lock file.  A live holder's critical section *)
(* is a few synchronous file operations, so this happens to a live holder   *)
(* only if it may stall (a suspended machine, a stopped process).           *)
Age ==
  /\ lock # NoLock /\ ~stale
  /\ MayStall \/ wpc[lock] # "in"
  /\ stale' = TRUE
  /\ stalled' = (stalled \/ wpc[lock] = "in")
  /\ UNCHANGED <<lock, wpc, overdue, entries, stealers>>

(* LOCK_WAIT_MS passes over a waiter. *)
Overdue(p) ==
  /\ wpc[p] \in Waiting /\ ~overdue[p]
  /\ overdue' = [overdue EXCEPT ![p] = TRUE]
  /\ UNCHANGED <<lock, stale, wpc, entries, stealers, stalled>>

LockEnvironment ==
  \/ \E p \in Procs : Crash(p) \/ Overdue(p)
  \/ Age

LockNext ==
  \/ \E p \in Procs : Enter(p) \/ Contend(p) \/ Release(p)
  \/ LockEnvironment

(* The operating system runs every live process, and clocks advance. *)
LockFairness ==
  \A p \in Procs :
    /\ WF_lockVars(Contend(p) \/ Release(p))
    /\ WF_lockVars(Overdue(p))

LockSpec     == LockInit /\ [][LockNext]_lockVars
FairLockSpec == LockSpec /\ LockFairness

------------------------------------------------------------------------------
(* At most one process is inside withLock. *)
MutualExclusion ==
  \A p, q \in Procs : wpc[p] = "in" /\ wpc[q] = "in" => p = q

(* No live holder has stalled past LOCK_STALE_MS, and one process only has *)
(* ever judged a lock file stale.                                          *)
CleanReclaim ==
  /\ \A p, q \in stealers : p = q
  /\ ~stalled

(* Cross-process mutual exclusion survives any number of holders that died *)
(* inside withLock: only a second thief, or a live holder that stalls, can *)
(* put two invocations inside at once (state.mjs, the reclaim of a stale   *)
(* lock).                                                                  *)
ExclusionUnlessRaced == CleanReclaim => MutualExclusion

(* Under the same conditions nobody takes away, by the reclaim or by the   *)
(* finally of its own call, the lock file of a live process that is inside *)
(* withLock.                                                               *)
LiveLockKept ==
  [][CleanReclaim' =>
       \A p \in Procs :
         lock = p /\ wpc[p] = "in" /\ lock' # p => wpc'[p] # "in"]_lockVars

(* The file system does not refuse for ever to take a stale lock file away. *)
Reclaim(p) == RenameOut(p) /\ lock' # lock

ReclaimsSucceed == SF_lockVars(\E p \in Procs : Reclaim(p))

(* Waiting is bounded, unless every reclaim is refused: a call of withLock *)
(* ends inside the critical section or with LOCK_TIMEOUT, whatever the     *)
(* other processes do or fail to do.  Without the condition it does not:   *)
(* a waiter whose renameSync throws every time never reaches the deadline  *)
(* check.                                                                  *)
WaitEnds ==
  ReclaimsSucceed =>
    \A p \in Procs :
      wpc[p] \in Waiting ~> wpc[p] \in {"in", "timedOut", "crashed"}
==============================================================================
