---------------------------- MODULE SendLockProofs ----------------------------
(***************************************************************************)
(* Theorems about withLock for every number of processes and calls.        *)
(*                                                                         *)
(* Mutual exclusion does not hold unconditionally: two waiters that both   *)
(* judge a dead holder's file stale can both enter.  What is proved is the *)
(* condition under which it does hold, CleanReclaim: no live holder has    *)
(* stalled, and no two processes ever judged a lock file stale.            *)
(***************************************************************************)
EXTENDS SendLock, TLAPS

(* Every step of the protocol keeps the type invariant. *)
LEMMA LockTypeStep == LockTypeOK /\ [LockNext]_lockVars => LockTypeOK'
<1> SUFFICES ASSUME LockTypeOK, [LockNext]_lockVars
             PROVE  LockTypeOK'
  OBVIOUS
<1> USE DEF LockTypeOK, Places, Waiting, Goto, TakeFile
<1>1. CASE UNCHANGED lockVars
  BY <1>1 DEF lockVars
<1>2. ASSUME NEW p \in Procs, Enter(p)
      PROVE  LockTypeOK'
  <2>1. entries[p] + 1 \in 0..MaxEntries
    BY <1>2, LockAssumption DEF Enter, LockAssumption
  <2>2. QED
    BY <1>2, <2>1 DEF Enter
<1>3. ASSUME NEW p \in Procs, Contend(p)
      PROVE  LockTypeOK'
  <2>1. CASE TryAcquire(p)
    BY <2>1 DEF TryAcquire
  <2>2. CASE StatGone(p)
    BY <2>2 DEF StatGone
  <2>3. CASE JudgeStale(p)
    BY <2>3 DEF JudgeStale
  <2>4. CASE JudgeFresh(p)
    BY <2>4 DEF JudgeFresh
  <2>5. CASE RenameOut(p)
    BY <2>5 DEF RenameOut
  <2>6. QED
    BY <1>3, <2>1, <2>2, <2>3, <2>4, <2>5 DEF Contend
<1>4. ASSUME NEW p \in Procs, Release(p)
      PROVE  LockTypeOK'
  BY <1>4 DEF Release
<1>5. ASSUME NEW p \in Procs, Crash(p)
      PROVE  LockTypeOK'
  BY <1>5 DEF Crash
<1>6. ASSUME NEW p \in Procs, Overdue(p)
      PROVE  LockTypeOK'
  BY <1>6 DEF Overdue
<1>7. CASE Age
  BY <1>7 DEF Age
<1>8. QED
  BY <1>1, <1>2, <1>3, <1>4, <1>5, <1>6, <1>7 DEF LockNext, LockEnvironment

LEMMA LockTypeInit == LockInit => LockTypeOK
<1> SUFFICES ASSUME LockInit PROVE LockTypeOK
  OBVIOUS
<1>1. 0 \in 0..MaxEntries
  BY LockAssumption DEF LockAssumption
<1>2. QED
  BY <1>1 DEF LockInit, LockTypeOK, Places, Waiting

(* The type invariant of the lock protocol holds in every behaviour. *)
THEOREM LockTypeCorrect == LockSpec => []LockTypeOK
BY LockTypeInit, LockTypeStep, PTL DEF LockSpec

-----------------------------------------------------------------------------
(* Where removals are not refused, a lock file is in place only for a      *)
(* process inside withLock or dead.                                        *)
LockHasOwner ==
  ~MayRefuse /\ lock # NoLock => wpc[lock] \in {"in", "crashed"}

(* Without a stall, a file past LOCK_STALE_MS was left by a process that   *)
(* is not inside: it died, or the unlink of its finally was refused.       *)
StaleMeansLeft ==
  stale /\ ~stalled => lock # NoLock /\ wpc[lock] # "in"

(* A process about to rename the file out has judged it stale. *)
ThievesKnown ==
  \A p \in Procs : wpc[p] = "rename" => p \in stealers

(* With a single thief: whoever is inside has its own file in place, and   *)
(* the thief's next rename takes a file nobody inside relies on.           *)
HolderHasFile ==
  \A p \in Procs : wpc[p] = "in" => lock = p

RenameTakesLeftFile ==
  \A p \in Procs : wpc[p] = "rename" =>
    lock # NoLock /\ stale /\ wpc[lock] # "in"

LockInv ==
  /\ LockTypeOK
  /\ LockHasOwner
  /\ StaleMeansLeft
  /\ ThievesKnown
  /\ CleanReclaim => HolderHasFile /\ RenameTakesLeftFile

LEMMA LockInvInit == LockInit => LockInv
BY LockTypeInit
   DEF LockInit, LockInv, LockHasOwner, StaleMeansLeft, ThievesKnown,
       CleanReclaim, HolderHasFile, RenameTakesLeftFile

(* One step at a time. *)
LEMMA LockInvStep ==
  ASSUME LockInv, [LockNext]_lockVars
  PROVE  LockInv'
<1>1. LockTypeOK /\ LockTypeOK'
  BY LockTypeStep DEF LockInv
<1>2. CleanReclaim' => CleanReclaim
  BY DEF CleanReclaim, LockNext, lockVars, Enter, Contend, TryAcquire, StatGone,
         JudgeStale, JudgeFresh, RenameOut, Release, LockEnvironment, Crash,
         Overdue, Age
<1> USE LockAssumption, <1>1, <1>2
    DEF LockAssumption, LockInv, LockTypeOK, LockHasOwner, StaleMeansLeft,
        ThievesKnown, HolderHasFile, RenameTakesLeftFile, Goto, TakeFile
<1>3. CASE UNCHANGED lockVars
  BY <1>3 DEF lockVars, CleanReclaim
<1>4. ASSUME NEW p \in Procs, Enter(p)
      PROVE  LockInv'
  BY <1>4 DEF Enter
<1>5. ASSUME NEW p \in Procs, TryAcquire(p)
      PROVE  LockInv'
  BY <1>5 DEF TryAcquire
<1>6. ASSUME NEW p \in Procs, StatGone(p)
      PROVE  LockInv'
  BY <1>6 DEF StatGone
<1>7. ASSUME NEW p \in Procs, JudgeStale(p)
      PROVE  LockInv'
  (* Without a stall the file it judged was left by its process. *)
  <2>1. CleanReclaim' => ~stalled
    BY <1>7 DEF JudgeStale, CleanReclaim
  <2>2. QED
    BY <1>7, <2>1 DEF JudgeStale
<1>8. ASSUME NEW p \in Procs, JudgeFresh(p)
      PROVE  LockInv'
  BY <1>8 DEF JudgeFresh
<1>9. ASSUME NEW p \in Procs, RenameOut(p)
      PROVE  LockInv'
  (* The thief is the only process that could be about to rename. *)
  <2>1. CleanReclaim' => \A q \in Procs : wpc[q] = "rename" => q = p
    BY <1>9 DEF RenameOut, CleanReclaim
  <2>2. QED
    BY <1>9, <2>1 DEF RenameOut
<1>10. ASSUME NEW p \in Procs, Release(p)
       PROVE  LockInv'
  BY <1>10 DEF Release
<1>11. ASSUME NEW p \in Procs, Crash(p)
       PROVE  LockInv'
  BY <1>11 DEF Crash
<1>12. ASSUME NEW p \in Procs, Overdue(p)
       PROVE  LockInv'
  BY <1>12 DEF Overdue
<1>13. CASE Age
  BY <1>13 DEF Age
<1>14. QED
  BY <1>3, <1>4, <1>5, <1>6, <1>7, <1>8, <1>9, <1>10, <1>11, <1>12, <1>13
     DEF LockNext, LockEnvironment, Contend

LEMMA LockInvAlways == LockSpec => []LockInv
BY LockInvInit, LockInvStep, PTL DEF LockSpec

(* However many processes contend, die, stall and time out, two are inside *)
(* withLock together only after a live holder stalled or two different     *)
(* processes judged a lock file stale.                                     *)
THEOREM ExclusionHolds == LockSpec => []ExclusionUnlessRaced
<1>1. LockInv => ExclusionUnlessRaced
  BY DEF LockInv, ExclusionUnlessRaced, HolderHasFile, MutualExclusion
<1>2. QED
  BY <1>1, LockInvAlways, PTL

(* Until then no process loses the lock file it holds while it is inside   *)
(* withLock.                                                               *)
THEOREM LiveLockIsKept == LockSpec => LiveLockKept
<1>1. LockInv /\ LockInv' /\ [LockNext]_lockVars =>
        [CleanReclaim' =>
           \A p \in Procs :
             lock = p /\ wpc[p] = "in" /\ lock' # p => wpc'[p] # "in"]_lockVars
  BY DEF LockInv, HolderHasFile
<1>2. QED
  BY <1>1, LockInvAlways, PTL DEF LockSpec, LiveLockKept

(* Two processes are inside at once only after a raced reclaim. *)
LEMMA InsideAlone ==
  ASSUME LockInv, CleanReclaim, NEW p \in Procs, NEW q \in Procs,
         wpc[p] = "in", wpc[q] = "in"
  PROVE  p = q
BY DEF LockInv, HolderHasFile

(* No step makes a reclaim clean again. *)
LEMMA RacedStaysRaced ==
  ASSUME LockInv, [LockNext]_lockVars, CleanReclaim'
  PROVE  CleanReclaim
<1>1. LockTypeOK /\ LockTypeOK'
  BY LockTypeStep DEF LockInv
<1> QED
  BY <1>1 DEF LockTypeOK, CleanReclaim, LockNext, lockVars, Enter, Contend, TryAcquire,
              StatGone, JudgeStale, JudgeFresh, RenameOut, Release, LockEnvironment,
              Crash, Overdue, Age

------------------------------------------------------------------------------
(* Two processes whose holders do not stall, and whose removals of the     *)
(* file are not refused, can only reclaim cleanly: whoever judged a file   *)
(* stale outlives the other, who died holding it.                          *)
TwoProcs == \A p, q, r \in Procs : p = q \/ p = r \/ q = r

OneSurvivor ==
  /\ CleanReclaim
  /\ \A p \in stealers : \E q \in Procs : q # p /\ wpc[q] = "crashed"

LEMMA SurvivorStep ==
  ASSUME TwoProcs, MayStall = FALSE, MayRefuse = FALSE, LockInv, [LockNext]_lockVars,
         OneSurvivor
  PROVE  OneSurvivor'
<1>1. LockTypeOK /\ LockTypeOK' /\ LockHasOwner /\ StaleMeansLeft
  BY LockTypeStep DEF LockInv
<1>2. \A q \in Procs : wpc[q] = "crashed" => wpc'[q] = "crashed"
  BY <1>1 DEF LockTypeOK, LockNext, lockVars, Goto, Enter, Contend, TryAcquire, StatGone,
              JudgeStale, JudgeFresh, RenameOut, Release, LockEnvironment, Crash, Overdue, Age
<1>3. ~stalled'
  BY <1>1 DEF OneSurvivor, CleanReclaim, LockTypeOK, LockNext, lockVars, Enter, Contend,
              TryAcquire, StatGone, JudgeStale, JudgeFresh, RenameOut, Release,
              LockEnvironment, Crash, Overdue, Age
<1>4. CASE \E p \in Procs : JudgeStale(p)
  <2>1. PICK p \in Procs : JudgeStale(p)
    BY <1>4
  <2>2. /\ lock # NoLock /\ lock \in Procs /\ wpc[lock] = "crashed" /\ lock # p
        /\ wpc[p] = "stat"
    BY <1>1, <2>1 DEF JudgeStale, Goto, OneSurvivor, CleanReclaim, StaleMeansLeft, LockHasOwner,
                      LockTypeOK
  <2>3. stealers' = stealers \cup {p} /\ stealers \subseteq Procs
    BY <1>1, <2>1 DEF JudgeStale, LockTypeOK
  (* An earlier thief is the dead holder, whose own victim was not alive.  *)
  <2>4. \A q \in stealers : q = p
    BY <2>2, <2>3 DEF OneSurvivor, TwoProcs
  <2> QED
    BY <1>2, <1>3, <2>2, <2>3, <2>4 DEF OneSurvivor, CleanReclaim
<1>5. CASE stealers' = stealers
  BY <1>2, <1>3, <1>5 DEF OneSurvivor, CleanReclaim
<1>6. (\E p \in Procs : JudgeStale(p)) \/ stealers' = stealers
  BY DEF LockNext, lockVars, Enter, Contend, TryAcquire, StatGone, JudgeFresh, RenameOut,
         Release, LockEnvironment, Crash, Overdue, Age
<1> QED
  BY <1>4, <1>5, <1>6

(* Two processes that may die at any point but do not stall, on a file     *)
(* system that lets them remove the file, never race a reclaim.            *)
THEOREM TwoReclaimCleanly ==
  TwoProcs /\ MayStall = FALSE /\ MayRefuse = FALSE /\ LockSpec => []CleanReclaim
<1> SUFFICES ASSUME TwoProcs, MayStall = FALSE, MayRefuse = FALSE PROVE LockSpec => []CleanReclaim
  OBVIOUS
<1>1. LockInit => OneSurvivor
  BY DEF LockInit, OneSurvivor, CleanReclaim
<1>2. LockInv /\ [LockNext]_lockVars /\ OneSurvivor => OneSurvivor'
  BY SurvivorStep
<1>3. OneSurvivor => CleanReclaim
  BY DEF OneSurvivor
<1> QED
  BY <1>1, <1>2, <1>3, LockInvAlways, PTL DEF LockSpec
==============================================================================
