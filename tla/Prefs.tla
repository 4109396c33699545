-------------------------------- MODULE Prefs --------------------------------
(***************************************************************************)
(* The preferences file (scripts/src/lib/prefs.mjs), which commands share: *)
(* the wallet and the coin chosen last, and the anonymous id of this       *)
(* install (lib/identity.mjs).  It has a lock of its own, not withLock of  *)
(* state.mjs: a stale lock file is removed by its name, and who cannot     *)
(* have the lock goes on without saving.  Each system call is an action,   *)
(* which the file system may refuse.                                       *)
(***************************************************************************)
EXTENDS Naturals

CONSTANTS
  Savers,    \* commands that save a preference or need the install id
  Former,    \* an earlier command, which died holding the lock
  Blank,     \* a field the file does not hold, or holds malformed
  Wallets,   \* addresses a payer may choose
  Presets    \* coins a payer may choose

ASSUME PrefsAssumption ==
  /\ Blank \notin Savers \cup Wallets \cup Presets \cup {Former}
  /\ Former \notin Savers

VARIABLES
  prefs,     \* prefs.json as readPrefs returns it
  prefsLock, \* whose lock file is in place, and is it older than LOCK_STALE_MS
  saver,     \* each command: where it is in savePrefs, with what update, has its
             \* deadline passed, what it read, did it save, which kept id it got
  disturbed  \* history: who judged a lock stale, did a live holder's grow stale

prefsVars == <<prefs, prefsLock, saver, disturbed>>

(* A command that needs an id draws one of its own, named here by itself.  *)
PrefsType == [installId : Savers \cup {Blank}, wallet : Wallets \cup {Blank},
              preset : Presets \cup {Blank}]

(* What savePrefs is called with: nothing but an id if there is none, the  *)
(* wallet and the coin of a new order, or the coin alone after a send.     *)
Identify == [wallet |-> Blank, preset |-> Blank]

Updates == {Identify} \cup [wallet : Wallets \cup {Blank}, preset : Presets]

NoPrefs == [installId |-> Blank, wallet |-> Blank, preset |-> Blank]

NoLockFile == [holder |-> Blank, stale |-> FALSE]

(* A file with preferences and no id was left by an older version.         *)
InitPrefs ==
  /\ prefs \in {q \in PrefsType : q.installId = Blank}
  /\ prefsLock \in {NoLockFile} \cup [holder : {Former}, stale : {FALSE}]
  /\ saver \in [Savers -> [at : {"start"}, update : Updates, overdue : {FALSE},
                           seen : {NoPrefs}, saved : {FALSE}, id : {Blank}]]
  /\ disturbed = [reclaimers |-> {}, overslept |-> FALSE]

Or(new, old) == IF new = Blank THEN old ELSE new

(* Mutant: an id that is there is replaced by the caller's. *)
MergedAnyId(old, update, p) ==
  [installId |-> IF update = Identify THEN p ELSE old.installId,
   wallet |-> Or(update.wallet, old.wallet), preset |-> Or(update.preset, old.preset)]

(* The fields the update names over those of the file, and the caller's id *)
(* only if it wants one and there is none.                                 *)
Merged(old, update, p) ==
  [installId |-> IF update = Identify THEN Or(old.installId, p) ELSE old.installId,
   wallet |-> Or(update.wallet, old.wallet), preset |-> Or(update.preset, old.preset)]

IsAt(p, place) == saver[p].at = place

Goes(p, place) == saver' = [saver EXCEPT ![p].at = place]

(* Nothing could be saved: who needs an id reads once more.                *)
Unsaved(p) == IF saver[p].update = Identify THEN "reread" ELSE "done"

------------------------------------------------------------------------------
(* getOrCreateInstallId is content with an id that is there. *)
BeginSave(p) ==
  /\ IsAt(p, "start")
  /\ IF saver[p].update = Identify /\ prefs.installId # Blank
     THEN saver' = [saver EXCEPT ![p].at = "done", ![p].id = prefs.installId]
     ELSE Goes(p, "open")
  /\ UNCHANGED <<prefs, prefsLock, disturbed>>

(* Mutant: the lock file is opened without O_EXCL. *)
OpenPrefsAnyway(p) ==
  /\ IsAt(p, "open")
  /\ Goes(p, "read") /\ prefsLock' = [holder |-> p, stale |-> FALSE]
  /\ UNCHANGED <<prefs, disturbed>>

(* openSync(lock, 'wx'), which may fail for another reason than the file.  *)
OpenPrefs(p) ==
  /\ IsAt(p, "open")
  /\ \/ prefsLock = NoLockFile /\ Goes(p, "read") /\ prefsLock' = [holder |-> p, stale |-> FALSE]
     \/ prefsLock # NoLockFile /\ Goes(p, "stat") /\ UNCHANGED prefsLock
     \/ Goes(p, Unsaved(p)) /\ UNCHANGED prefsLock
  /\ UNCHANGED <<prefs, disturbed>>

(* Mutant: the deadline is not looked at. *)
StatPrefsForever(p) ==
  /\ IsAt(p, "stat")
  /\ Goes(p, IF prefsLock.stale THEN "remove" ELSE "open")
  /\ disturbed' = IF prefsLock.stale THEN [disturbed EXCEPT !.reclaimers = @ \cup {p}]
                  ELSE disturbed
  /\ UNCHANGED <<prefs, prefsLock>>

(* statSync: no file tries again, an old one is to be removed; a fresh one *)
(* is waited for until LOCK_WAIT_MS have passed, and no longer.            *)
StatPrefs(p) ==
  /\ IsAt(p, "stat")
  /\ Goes(p, CASE prefsLock.stale -> "remove"
                [] ~prefsLock.stale /\ (prefsLock = NoLockFile \/ ~saver[p].overdue) -> "open"
                [] OTHER -> Unsaved(p))
  /\ disturbed' = IF prefsLock.stale THEN [disturbed EXCEPT !.reclaimers = @ \cup {p}]
                  ELSE disturbed
  /\ UNCHANGED <<prefs, prefsLock>>

(* statSync fails although the file is there: the loop retries at once,    *)
(* past the deadline check.                                                *)
StatRefused(p) ==
  /\ IsAt(p, "stat")
  /\ Goes(p, "open")
  /\ UNCHANGED <<prefs, prefsLock, disturbed>>

(* rmSync(lock, { force }) removes whatever file now has that name, if any. *)
(* What it throws is swallowed; either way the loop retries at once, past   *)
(* the deadline check.                                                      *)
RemoveLock(p) ==
  /\ IsAt(p, "remove")
  /\ Goes(p, "open")
  /\ prefsLock' \in {NoLockFile, prefsLock}
  /\ UNCHANGED <<prefs, disturbed>>

(* The re-read inside the lock. *)
ReadPrefs(p) ==
  /\ IsAt(p, "read")
  /\ saver' = [saver EXCEPT ![p].at = "write", ![p].seen = prefs]
  /\ UNCHANGED <<prefs, prefsLock, disturbed>>

(* writeAtomic replaces the file, or throws and leaves it. *)
WritePrefs(p) ==
  /\ IsAt(p, "write")
  /\ LET next == Merged(saver[p].seen, saver[p].update, p) IN
     \/ /\ prefs' = next
        /\ saver' = [saver EXCEPT ![p].at = "unlock", ![p].seen = next, ![p].saved = TRUE]
     \/ Goes(p, "unlock") /\ UNCHANGED prefs
  /\ UNCHANGED <<prefsLock, disturbed>>

(* The answer of savePrefs, and what is made of the id in it. *)
Answers(p, saved) ==
  saver' = [saver EXCEPT
    ![p].at = IF saved THEN "done" ELSE Unsaved(p),
    ![p].id = IF saver[p].update = Identify /\ saved THEN saver[p].seen.installId ELSE Blank,
    ![p].seen = NoPrefs]

(* finally: rmSync(lock), again by its name; if it throws, the file stays, *)
(* and savePrefs answers that nothing was saved, although it was.          *)
UnlockPrefs(p) ==
  /\ IsAt(p, "unlock")
  /\ \/ prefsLock' = NoLockFile /\ Answers(p, saver[p].saved)
     \/ UNCHANGED prefsLock /\ Answers(p, FALSE)
  /\ UNCHANGED <<prefs, disturbed>>

(* The id another command saved, or one for this command only (Blank).     *)
RereadPrefs(p) ==
  /\ IsAt(p, "reread")
  /\ saver' = [saver EXCEPT ![p].at = "done", ![p].id = prefs.installId]
  /\ UNCHANGED <<prefs, prefsLock, disturbed>>

SaverStep(p) ==
  \/ BeginSave(p) \/ OpenPrefs(p) \/ StatPrefs(p) \/ StatRefused(p) \/ RemoveLock(p)
  \/ ReadPrefs(p) \/ WritePrefs(p) \/ UnlockPrefs(p) \/ RereadPrefs(p)

(* Is it a live command inside the lock? *)
Holds(p) == p \in Savers /\ saver[p].at \in {"read", "write", "unlock"}

(* The command is killed; its lock file stays. *)
Die(p) ==
  /\ ~IsAt(p, "done") /\ ~IsAt(p, "dead")
  /\ Goes(p, "dead")
  /\ UNCHANGED <<prefs, prefsLock, disturbed>>

(* LOCK_STALE_MS pass over the lock file, LOCK_WAIT_MS over a waiter. *)
GrowStale ==
  /\ prefsLock.holder # Blank /\ ~prefsLock.stale
  /\ prefsLock' = [prefsLock EXCEPT !.stale = TRUE]
  /\ disturbed' = [disturbed EXCEPT !.overslept = @ \/ Holds(prefsLock.holder)]
  /\ UNCHANGED <<prefs, saver>>

WaitOver(p) ==
  /\ saver[p].at \in {"open", "stat"} /\ ~saver[p].overdue
  /\ saver' = [saver EXCEPT ![p].overdue = TRUE]
  /\ UNCHANGED <<prefs, prefsLock, disturbed>>

NextPrefs ==
  \/ \E p \in Savers : SaverStep(p) \/ Die(p) \/ WaitOver(p)
  \/ GrowStale

(* The system runs every live command, and its deadline comes. *)
FairPrefs == \A p \in Savers : WF_prefsVars(SaverStep(p)) /\ WF_prefsVars(WaitOver(p))

SafeSpecPrefs == InitPrefs /\ [][NextPrefs]_prefsVars
SpecPrefs     == SafeSpecPrefs /\ FairPrefs

------------------------------------------------------------------------------
(* One command only has judged a lock file stale, and no live holder took  *)
(* longer than LOCK_STALE_MS.                                              *)
Undisturbed ==
  /\ \A p, q \in disturbed.reclaimers : p = q
  /\ ~disturbed.overslept

(* A save changes the fields it names in the file as it is, not in the one *)
(* it read ("a coin/address save in one process can never clobber the      *)
(* install id another process just wrote, or vice versa").                 *)
SavesMerge ==
  [][Undisturbed' => \A p \in Savers :
       IsAt(p, "write") /\ prefs' # prefs /\ saver'[p].at = "unlock" =>
         prefs' = Merged(prefs, saver[p].update, p)]_prefsVars

(* Whoever got an id that is kept got the one in the file, however many    *)
(* first runs there are at once ("concurrent first runs (and concurrent    *)
(* preference writes) agree on one id").                                   *)
InstallsAgree ==
  Undisturbed => \A p \in Savers : saver[p].id \in {Blank, prefs.installId}

(* The file system does not refuse for ever to tell the age of a lock file *)
(* that ends the wait, nor to remove a stale one.                          *)
PrefsLockServed ==
  /\ SF_prefsVars(\E p \in Savers : StatPrefs(p) /\ saver'[p].at # "open")
  /\ SF_prefsVars(\E p \in Savers : RemoveLock(p) /\ prefsLock' # prefsLock)

(* Every save is over, in one way or another. *)
SaversOver == \A p \in Savers : saver[p].at \in {"done", "dead"}
=============================================================================
