------------------------- MODULE RestoreTransaction -------------------------
(***************************************************************************)
(* Encrypted backups and the online restore (lib/server_kit_backup.py      *)
(* behind the backup commands of server-kit-manager.sh and the restore     *)
(* tasks of control_plane/core.py): a restore keeps the files it replaces  *)
(* in a rollback archive, records a transaction, arms a systemd timer and  *)
(* then replaces the files one by one; another login session confirms it,  *)
(* or the files come back.                                                 *)
(*                                                                         *)
(* One action is one durable change.  The script holds the change lock of  *)
(* the manager and the lock file of the helper; a lock file whose process  *)
(* is gone is taken over, so that it is not modelled apart.  A command     *)
(* that does not get the lock changes nothing and is not shown.            *)
(***************************************************************************)
EXTENDS Naturals

CONSTANTS
    RestoreSessions,    \* login sessions of the management website
    OnlineFiles,        \* configuration files a restore may replace
    OfflineFiles,       \* the website's database and key: in backups only
    RestoreFaults,      \* the steps that may fail without a crash
    MaxRestores,        \* windows ever opened: bounds the model
    MaxRestoreTroubles, \* kills, reboots and failed steps: bounds the model
    MaxRestoreEdits     \* files and backups written otherwise: bounds the model

RestoreFaultKinds == {"timer", "write", "validate", "undo"}

ASSUME RestoreAssumption ==
    /\ OnlineFiles \cap OfflineFiles = {}
    /\ RestoreFaults \subseteq RestoreFaultKinds
    /\ {MaxRestores, MaxRestoreTroubles, MaxRestoreEdits} \subseteq Nat

RestoreFiles == OnlineFiles \cup OfflineFiles

FileContents == {"missing", "first", "edited"}

NoSession == "no session"

VARIABLES
    disk,           \* the files
    backup,         \* the content of the one backup, all missing: no backup
    assurance,      \* what is known of the backup
    transaction,    \* restore-transaction.json
    kept,           \* the rollback archives that exist
    restoreTimer,   \* the window whose transient rollback timer is loaded
    context,        \* the session that opened the window, as recorded
    restoreScript,  \* the command that holds the change lock
    reading,        \* what a restore-status without the lock has read
    prepared,       \* the restore task that was previewed
    restoreBounds,  \* how much of the bounds is used up
    opened          \* history: the last window, its files and its fate

restoreVars == <<disk, backup, assurance, transaction, kept, restoreTimer, context,
                 restoreScript, reading, prepared, restoreBounds, opened>>

NothingBackedUp == [f \in RestoreFiles |-> "missing"]

NoTransaction == [id |-> 0, files |-> {}]

RestoreIdle == [op |-> "none", step |-> "", session |-> NoSession, todo |-> {}]

NoPrepared == [op |-> "none", session |-> NoSession, digest |-> <<>>]

NotOpened ==
    [id |-> 0, session |-> NoSession, before |-> NothingBackedUp,
     wanted |-> NothingBackedUp, fate |-> "none", undone |-> FALSE, edited |-> {}]

RestoreSpend(what) ==
    /\ restoreBounds[what] > 0
    /\ restoreBounds' = [restoreBounds EXCEPT ![what] = @ - 1]

RestoreFault(kind) == kind \in RestoreFaults /\ RestoreSpend("troubles")

AtRestore(step) == restoreScript.op # "none" /\ restoreScript.step = step

GoRestore(step, todo) ==
    restoreScript' = [restoreScript EXCEPT !.step = step, !.todo = todo]

EndRestore == restoreScript' = RestoreIdle

(* What a container holds: every file is read consistently when it is made, *)
(* and every file in its manifest is checked when it is opened.             *)
Sealed == disk

Manifest == {f \in RestoreFiles : backup[f] # "missing"}

Differing(files) == {f \in files \cap Manifest : disk[f] # backup[f]}

FaultChangedIncludesOffline == Differing(RestoreFiles)

Changed == Differing(OnlineFiles)
-----------------------------------------------------------------------------
(* Creating, verifying and deleting backups.                               *)

HasBackup == backup # NothingBackedUp

CreateBackup ==
    /\ restoreScript = RestoreIdle
    /\ ~HasBackup                       \* one backup at a time: bounds the model
    /\ RestoreSpend("edits")
    /\ \E f \in RestoreFiles : disk[f] # "missing"
    /\ backup' = Sealed
    /\ assurance' = "awaiting_verification"
    /\ UNCHANGED <<disk, transaction, kept, restoreTimer, context, restoreScript,
                   reading, prepared, opened>>

BackupTaskAllowed(op) == op \in {"verify", "delete"} => HasBackup

VerifyBackup ==
    /\ BackupTaskAllowed("verify")
    /\ assurance = "awaiting_verification"
    /\ assurance' = "verified"
    /\ UNCHANGED <<disk, backup, transaction, kept, restoreTimer, context,
                   restoreScript, reading, prepared, restoreBounds, opened>>

DeleteBackup ==
    /\ restoreScript = RestoreIdle
    /\ transaction = NoTransaction
    /\ BackupTaskAllowed("delete")
    /\ backup' = NothingBackedUp
    /\ assurance' = "awaiting_verification"
    /\ UNCHANGED <<disk, transaction, kept, restoreTimer, context, restoreScript,
                   reading, prepared, restoreBounds, opened>>
-----------------------------------------------------------------------------
(* Previews of restore tasks and the check of their facts before they run. *)

(* What the status answers to a session; without a record everyone counts. *)
Independent(s) == transaction = NoTransaction \/ context # s

RestoreState == IF transaction = NoTransaction THEN "idle" ELSE "pending"

RestoreStatusOf(s) == <<RestoreState, transaction.files, Independent(s)>>

(* The listing is read before the preview records its restore drill.       *)
DigestOf(op, s) ==
    [assurance |-> assurance, status |-> RestoreStatusOf(s), listing |-> backup,
     preview |-> IF op = "restore_apply" THEN Differing(RestoreFiles) ELSE {}]

(* preview_restore records its drill also for the check before the run.    *)
Drilled(op) == IF op = "restore_apply" THEN "cleanup_ready" ELSE assurance

(* The status of a preview clears the record of an idle host.              *)
Cleared == IF transaction = NoTransaction THEN NoSession ELSE context

PrepareRestore(op, s) ==
    /\ prepared = NoPrepared
    /\ op = "restore_apply" => HasBackup /\ transaction = NoTransaction
    /\ op # "restore_apply" => transaction # NoTransaction
    /\ op = "restore_confirm" => Independent(s)
    /\ prepared' = [op |-> op, session |-> s, digest |-> DigestOf(op, s)]
    /\ assurance' = Drilled(op)
    /\ context' = Cleared
    /\ UNCHANGED <<disk, backup, transaction, kept, restoreTimer, restoreScript,
                   reading, restoreBounds, opened>>

FactsUnchanged == prepared.digest = DigestOf(prepared.op, prepared.session)

RefuseRestore ==
    /\ prepared # NoPrepared
    /\ ~FactsUnchanged
    /\ prepared' = NoPrepared
    /\ assurance' = IF HasBackup THEN Drilled(prepared.op) ELSE assurance
    /\ context' = Cleared
    /\ UNCHANGED <<disk, backup, transaction, kept, restoreTimer, restoreScript,
                   reading, restoreBounds, opened>>

(* The script takes the lock; confirm first compares the sessions, apply   *)
(* and rollback first read the transaction.                                *)
MayConfirm(s) == context # NoSession /\ context # s

FaultAnyoneConfirms(s) == TRUE

ConfirmAllowed(s) == MayConfirm(s)

FirstStep ==
    [restore_apply |-> "keep", restore_confirm |-> "cancel", restore_rollback |-> "undo"]

ScriptAccepts(op, s) ==
    /\ op = "restore_apply" => transaction = NoTransaction /\ Changed # {}
    /\ op = "restore_confirm" => transaction # NoTransaction /\ ConfirmAllowed(s)
    /\ op = "restore_rollback" => transaction # NoTransaction /\ transaction.id \in kept

ExecuteRestore ==
    /\ prepared # NoPrepared
    /\ FactsUnchanged
    /\ restoreScript = RestoreIdle
    /\ prepared' = NoPrepared
    /\ assurance' = Drilled(prepared.op)
    /\ context' = Cleared
    /\ IF ScriptAccepts(prepared.op, prepared.session)
       THEN /\ restoreScript' =
                 [op |-> prepared.op, step |-> FirstStep[prepared.op],
                  session |-> prepared.session,
                  todo |-> IF prepared.op = "restore_apply" THEN Changed
                           ELSE transaction.files]
       ELSE UNCHANGED restoreScript
    /\ UNCHANGED <<disk, backup, transaction, kept, restoreTimer, reading,
                   restoreBounds, opened>>
-----------------------------------------------------------------------------
(* apply_restore *)

FaultWriteFirst == "write"

AfterKeeping == "record"

KeepFiles ==
    /\ AtRestore("keep")
    /\ RestoreSpend("windows")
    /\ opened' = [id |-> restoreBounds.windows, session |-> restoreScript.session,
                  before |-> disk, wanted |-> backup, fate |-> "open",
                  undone |-> FALSE, edited |-> {}]
    /\ kept' = kept \cup {restoreBounds.windows}
    /\ GoRestore(AfterKeeping, restoreScript.todo)
    /\ UNCHANGED <<disk, backup, assurance, transaction, restoreTimer, context,
                   reading, prepared>>

RecordTransaction ==
    /\ AtRestore("record")
    /\ transaction' = [id |-> opened.id, files |-> restoreScript.todo]
    /\ GoRestore("arm", restoreScript.todo)
    /\ UNCHANGED <<disk, backup, assurance, kept, restoreTimer, context, reading,
                   prepared, restoreBounds, opened>>

FaultForgetWritten == GoRestore("cancel", {})

(* A failed step of apply_restore rolls everything back at once.           *)
RollBackNow == GoRestore("undo", transaction.files)

ArmTimer ==
    /\ AtRestore("arm")
    /\ \/ /\ restoreTimer' = transaction.id
          /\ GoRestore("write", restoreScript.todo)
          /\ UNCHANGED restoreBounds
       \/ /\ RestoreFault("timer")
          /\ restoreTimer' = 0
          /\ RollBackNow
    /\ UNCHANGED <<disk, backup, assurance, transaction, kept, context, reading,
                   prepared, opened>>

WriteFile ==
    /\ AtRestore("write")
    /\ \/ /\ restoreScript.todo = {}
          /\ GoRestore("validate", {})
          /\ UNCHANGED <<disk, restoreBounds>>
       \/ \E f \in restoreScript.todo :
             /\ disk' = [disk EXCEPT ![f] = opened.wanted[f]]
             /\ GoRestore("write", restoreScript.todo \ {f})
             /\ UNCHANGED restoreBounds
       \/ /\ restoreScript.todo # {}
          /\ RestoreFault("write")
          /\ RollBackNow
          /\ UNCHANGED disk
    /\ UNCHANGED <<backup, assurance, transaction, kept, restoreTimer, context,
                   reading, prepared, opened>>

ValidateFiles ==
    /\ AtRestore("validate")
    /\ \/ GoRestore("context", {}) /\ UNCHANGED restoreBounds
       \/ RestoreFault("validate") /\ RollBackNow
    /\ UNCHANGED <<disk, backup, assurance, transaction, kept, restoreTimer, context,
                   reading, prepared, opened>>

(* The manager records the session after the helper is done. *)
RecordSession ==
    /\ AtRestore("context")
    /\ context' = restoreScript.session
    /\ EndRestore
    /\ UNCHANGED <<disk, backup, assurance, transaction, kept, restoreTimer, reading,
                   prepared, restoreBounds, opened>>
-----------------------------------------------------------------------------
(* _rollback_locked and confirm_restore                                    *)

(* The content of the rollback archive, read once more before it is used.  *)
KeptFiles == opened.before

AfterUndoing == IF restoreScript.op = "automatic" THEN "drop" ELSE "cancel"

UndoFile ==
    /\ AtRestore("undo")
    /\ \/ /\ restoreScript.todo = {}
          /\ GoRestore(AfterUndoing, {})
          /\ UNCHANGED <<disk, restoreBounds>>
       \/ \E f \in restoreScript.todo :
             /\ disk' = [disk EXCEPT ![f] = KeptFiles[f]]
             /\ GoRestore("undo", restoreScript.todo \ {f})
             /\ UNCHANGED restoreBounds
       \/ /\ restoreScript.todo # {}
          /\ RestoreFault("undo")
          /\ EndRestore
          /\ UNCHANGED disk
    /\ opened' = [opened EXCEPT !.undone = TRUE]
    /\ UNCHANGED <<backup, assurance, transaction, kept, restoreTimer, context,
                   reading, prepared>>

FaultCancelNothing == restoreTimer

Cancelled == 0

CancelTimer ==
    /\ AtRestore("cancel")
    /\ restoreTimer' = Cancelled
    /\ GoRestore("drop", {})
    /\ UNCHANGED <<disk, backup, assurance, transaction, kept, context, reading,
                   prepared, restoreBounds, opened>>

Fate == IF restoreScript.op = "restore_confirm" THEN "confirmed" ELSE "rolled_back"

(* The rollback archive goes first; from here on the window is decided.    *)
DropArchive ==
    /\ AtRestore("drop")
    /\ kept' = kept \ {transaction.id}
    /\ opened' = [opened EXCEPT !.fate = Fate]
    /\ GoRestore("forget", {})
    /\ UNCHANGED <<disk, backup, assurance, transaction, restoreTimer, context,
                   reading, prepared, restoreBounds>>

ForgetTransaction ==
    /\ AtRestore("forget")
    /\ transaction' = NoTransaction
    /\ IF restoreScript.op = "restore_apply" THEN EndRestore
       ELSE GoRestore("uncontext", {})
    /\ UNCHANGED <<disk, backup, assurance, kept, restoreTimer, context, reading,
                   prepared, restoreBounds, opened>>

ForgetSession ==
    /\ AtRestore("uncontext")
    /\ context' = NoSession
    /\ EndRestore
    /\ UNCHANGED <<disk, backup, assurance, transaction, kept, restoreTimer, reading,
                   prepared, restoreBounds, opened>>
-----------------------------------------------------------------------------
(* The host                                                                *)

(* server-kit recovery rolls a pending window back without a task.         *)
RecoveryCommand ==
    /\ restoreScript = RestoreIdle
    /\ transaction # NoTransaction /\ transaction.id \in kept
    /\ restoreScript' = [RestoreIdle EXCEPT !.op = "restore_rollback",
                             !.step = "undo", !.todo = transaction.files]
    /\ UNCHANGED <<disk, backup, assurance, transaction, kept, restoreTimer, context,
                   reading, prepared, restoreBounds, opened>>

(* The timer starts its service once.  A rollback that does not get the    *)
(* lock, or finds no transaction, is not tried again.  The window of 300   *)
(* seconds is longer than the 180 the agent gives the apply.               *)
TimerFires ==
    /\ restoreTimer # 0
    /\ restoreScript.op # "restore_apply"
    /\ restoreTimer' = 0
    /\ IF restoreScript = RestoreIdle /\ transaction # NoTransaction
          /\ transaction.id \in kept
       THEN restoreScript' = [RestoreIdle EXCEPT !.op = "automatic",
                                 !.step = "undo", !.todo = transaction.files]
       ELSE UNCHANGED restoreScript
    /\ UNCHANGED <<disk, backup, assurance, transaction, kept, context, reading,
                   prepared, restoreBounds, opened>>

(* Any other command of the manager holds the same lock while it works.    *)
OtherCommand ==
    /\ restoreScript = RestoreIdle
    /\ RestoreSpend("edits")
    /\ restoreScript' = [RestoreIdle EXCEPT !.op = "other", !.step = "edit"]
    /\ UNCHANGED <<disk, backup, assurance, transaction, kept, restoreTimer, context,
                   reading, prepared, opened>>

EditFile ==
    /\ AtRestore("edit")
    /\ \E f \in RestoreFiles :
          /\ disk' = [disk EXCEPT ![f] = "edited"]
          /\ opened' = [opened EXCEPT !.edited = @ \cup {f}]
    /\ EndRestore
    /\ UNCHANGED <<backup, assurance, transaction, kept, restoreTimer, context,
                   reading, prepared, restoreBounds>>

(* restore-status takes no lock: what it read may be old when it acts.     *)
ReadRestoreStatus ==
    /\ reading = ""
    /\ reading' = RestoreState
    /\ UNCHANGED <<disk, backup, assurance, transaction, kept, restoreTimer, context,
                   restoreScript, prepared, restoreBounds, opened>>

AnswerRestoreStatus ==
    /\ reading # ""
    /\ reading' = ""
    /\ context' = IF reading = "idle" THEN NoSession ELSE context
    /\ UNCHANGED <<disk, backup, assurance, transaction, kept, restoreTimer,
                   restoreScript, prepared, restoreBounds, opened>>

KillRestore ==
    /\ restoreScript # RestoreIdle
    /\ RestoreSpend("troubles")
    /\ EndRestore
    /\ UNCHANGED <<disk, backup, assurance, transaction, kept, restoreTimer, context,
                   reading, prepared, opened>>

(* Transient units do not survive a reboot. *)
RebootRestore ==
    /\ RestoreSpend("troubles")
    /\ restoreTimer' = 0
    /\ reading' = ""
    /\ EndRestore
    /\ UNCHANGED <<disk, backup, assurance, transaction, kept, context, prepared,
                   opened>>
-----------------------------------------------------------------------------
RestoreInit ==
    /\ \E gone \in SUBSET OnlineFiles :
          disk = [f \in RestoreFiles |-> IF f \in gone THEN "missing" ELSE "edited"]
    /\ backup = [f \in RestoreFiles |-> "first"]
    /\ assurance = "awaiting_verification"
    /\ transaction = NoTransaction /\ kept = {} /\ restoreTimer = 0
    /\ context = NoSession /\ restoreScript = RestoreIdle /\ reading = ""
    /\ prepared = NoPrepared /\ opened = NotOpened
    /\ restoreBounds = [windows |-> MaxRestores, troubles |-> MaxRestoreTroubles,
                        edits |-> MaxRestoreEdits]

RestoreOperations == {"restore_apply", "restore_confirm", "restore_rollback"}

RestoreRequest ==
    \/ CreateBackup \/ VerifyBackup \/ DeleteBackup
    \/ \E op \in RestoreOperations, s \in RestoreSessions : PrepareRestore(op, s)
    \/ ReadRestoreStatus \/ RecoveryCommand \/ OtherCommand

RestoreStep ==
    \/ KeepFiles \/ RecordTransaction \/ ArmTimer \/ WriteFile \/ ValidateFiles
    \/ RecordSession \/ UndoFile \/ CancelTimer \/ DropArchive
    \/ ForgetTransaction \/ ForgetSession \/ EditFile

RestoreEnvironment ==
    \/ ExecuteRestore \/ RefuseRestore \/ AnswerRestoreStatus
    \/ TimerFires \/ KillRestore \/ RebootRestore

RestoreNext == RestoreRequest \/ RestoreStep \/ RestoreEnvironment

RestoreSpec == RestoreInit /\ [][RestoreNext]_restoreVars

(* A running command goes on, and timers run.                              *)
RestoreFairness == WF_restoreVars(RestoreStep) /\ WF_restoreVars(TimerFires)

RestoreFairSpec == RestoreSpec /\ RestoreFairness
-----------------------------------------------------------------------------
RestoreTypeOK ==
    /\ disk \in [RestoreFiles -> FileContents]
    /\ backup \in [RestoreFiles -> FileContents]
    /\ assurance \in {"awaiting_verification", "verified", "cleanup_ready"}
    /\ transaction \in [id : 0..MaxRestores, files : SUBSET OnlineFiles]
    /\ kept \subseteq 1..MaxRestores
    /\ restoreTimer \in 0..MaxRestores
    /\ context \in RestoreSessions \cup {NoSession}
    /\ restoreScript.todo \subseteq OnlineFiles
    /\ reading \in {"", "idle", "pending"}
    /\ prepared.op \in RestoreOperations \cup {"none"}
    /\ opened.id \in 0..MaxRestores

(* While a window is undecided and a file is not what it was before, the    *)
(* rollback archive that holds it is still there: no order of the steps,    *)
(* failure or crash loses the configuration that is being replaced.         *)
OriginalsAreKept ==
    opened.fate = "open"
       /\ (\E f \in OnlineFiles \ opened.edited : disk[f] # opened.before[f])
    => transaction.id = opened.id /\ opened.id \in kept

PutBack == \A f \in RestoreFiles \ opened.edited : disk[f] = opened.before[f]

Replaced ==
    \A f \in RestoreFiles \ opened.edited :
        disk[f] = IF f \in OnlineFiles /\ opened.wanted[f] # "missing"
                  THEN opened.wanted[f] ELSE opened.before[f]

(* Once no transaction is left, every file the window replaced is as it was *)
(* before, or, after a confirmation, every one is as in the backup; files   *)
(* other commands wrote since the window opened are left out, and a window  *)
(* that was confirmed after a rollback of it had stopped half way.          *)
RestoreIsAllOrNothing ==
    transaction = NoTransaction
    => /\ opened.fate \in {"open", "rolled_back"} => PutBack
       /\ opened.fate = "confirmed" => opened.undone \/ Replaced

(* A window is never confirmed by a task of the session that opened it,     *)
(* whatever became of the record of that session.                           *)
ConfirmedByAnother ==
    [][restoreScript.op # "restore_confirm" /\ restoreScript'.op = "restore_confirm"
       => restoreScript'.session # opened.session]_restoreVars

(* A timer that outlived its window touches no other one: the automatic     *)
(* rollback runs only for the window its timer was armed for.               *)
TimerKnowsItsWindow ==
    [][restoreScript'.op = "automatic" /\ restoreScript.op # "automatic"
       => restoreTimer = transaction.id]_restoreVars

(* Without confirmation the replaced files come back after five minutes.    *)
UnconfirmedRestoreEnds ==
    transaction # NoTransaction ~> transaction = NoTransaction

(* A task is refused because of its facts only if a file, the backup or the *)
(* window changed since its preview, and not for the drill its own preview  *)
(* has recorded of an unchanged backup.                                     *)
RefusedOnlyWhenChanged ==
    [][prepared # NoPrepared /\ prepared' = NoPrepared /\ ~FactsUnchanged
       => prepared.digest # [DigestOf(prepared.op, prepared.session)
                             EXCEPT !.assurance = prepared.digest.assurance]
      ]_restoreVars
=============================================================================
