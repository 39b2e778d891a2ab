-------------------------- MODULE HostWindowProofs --------------------------
(***************************************************************************)
(* Theorems about the parts of the host that take a change back by         *)
(* themselves, for any sessions, files, exits, failures, kills and reboots.*)
(*                                                                         *)
(* Online restore: the files of a window are kept as long as they are      *)
(* needed, a window ends with all of them replaced or none, only another   *)
(* session confirms, and a timer rolls back no window but its own.  The    *)
(* invariant follows the script (ApplyInv, UndoInv) and says what is left  *)
(* when it is killed: a file is as it was, or as the backup has it         *)
(* (DiskInv); a recorded session stands for files all replaced, until an   *)
(* undoing begins (ContextInv); the window's fate agrees with the files    *)
(* (FateInv).                                                              *)
(*                                                                         *)
(* Exit resolvers: the running Xray routes no exit through a worker that   *)
(* does not run, and a refresh that was undone leaves what was there before.*)
(* Between two refreshes the host serves what Xray routes (Serves); during *)
(* one, the invariant says for every step what has been touched since, and *)
(* that the manifest tells how to take it back.  Of a host that a kill has *)
(* left broken only the types are claimed.                                 *)
(*                                                                         *)
(* The nodes have a module of their own, AwgProofs; the last section puts  *)
(* the three parts together.                                               *)
(***************************************************************************)
EXTENDS MCHostWindows, AwgProofs, TLAPS

-----------------------------------------------------------------------------
(* The online restore                                                      *)

USE DEF AtRestore

Sessions == RestoreSessions \cup {NoSession}

ApplySteps == {"keep", "record", "arm", "write", "validate", "context"}

UndoSteps == {"undo", "cancel", "drop", "forget"}

ScriptSteps == ApplySteps \cup UndoSteps \cup {"", "uncontext", "edit"}

(* The steps a command may be at. *)
Owned(op, step) ==
    /\ op = "none" => step = ""
    /\ op = "restore_apply" => step \in ApplySteps \cup UndoSteps
    /\ op = "restore_confirm" => step \in {"cancel", "drop", "forget", "uncontext"}
    /\ op = "restore_rollback" => step \in UndoSteps \cup {"uncontext"}
    /\ op = "automatic" => step \in {"undo", "drop", "forget", "uncontext"}
    /\ op = "other" => step = "edit"

ScriptOps == RestoreOperations \cup {"none", "automatic", "other"}

Scripts == [op : ScriptOps, step : ScriptSteps, session : Sessions, todo : SUBSET OnlineFiles]

Transactions == [id : 0..MaxRestores, files : SUBSET OnlineFiles]

Counters == [windows : Nat, troubles : Nat, edits : Nat]

Opened ==
    [id : 0..MaxRestores, session : Sessions, before : [RestoreFiles -> FileContents],
     wanted : [RestoreFiles -> FileContents],
     fate : {"none", "open", "confirmed", "rolled_back"}, undone : BOOLEAN,
     edited : SUBSET RestoreFiles]

RestoreShape ==
    /\ disk \in [RestoreFiles -> FileContents] /\ backup \in [RestoreFiles -> FileContents]
    /\ assurance \in {"awaiting_verification", "verified", "cleanup_ready"}
    /\ transaction \in Transactions /\ kept \subseteq 1..MaxRestores
    /\ restoreTimer \in 0..MaxRestores /\ context \in Sessions
    /\ restoreScript \in Scripts /\ Owned(restoreScript.op, restoreScript.step)
    /\ reading \in {"", "idle", "pending"}
    /\ prepared.op \in RestoreOperations \cup {"none"} /\ prepared.session \in Sessions
    /\ prepared # NoPrepared => prepared.op \in RestoreOperations
    /\ restoreBounds \in Counters
    /\ restoreBounds.windows <= MaxRestores
    /\ opened \in Opened

(* The files a window replaces. *)
WindowFiles ==
    {f \in OnlineFiles : opened.wanted[f] # "missing" /\ opened.wanted[f] # opened.before[f]}

Written(files) == \A f \in files : disk[f] = opened.wanted[f]

(* What an apply has done so far; it holds the lock, so nobody edits.       *)
ApplyInv ==
    /\ AtRestore("keep") => transaction = NoTransaction /\ restoreScript.todo = Changed
    /\ restoreScript.step \in ApplySteps => context = NoSession
    /\ restoreScript.step \in ApplySteps \ {"keep"} =>
          /\ opened.fate = "open" /\ opened.session = restoreScript.session
          /\ opened.edited = {} /\ ~opened.undone
    /\ AtRestore("record") => transaction = NoTransaction
    /\ restoreScript.step \in {"record", "arm"} => restoreScript.todo = WindowFiles
    /\ AtRestore("write") =>
          restoreScript.todo \subseteq WindowFiles /\ Written(WindowFiles \ restoreScript.todo)
    /\ restoreScript.step \in {"validate", "context"} => Written(WindowFiles)

(* The record names the window and its files, and its timer is armed for it. *)
TransactionInv ==
    /\ transaction # NoTransaction =>
          /\ transaction.id = opened.id /\ transaction.files = WindowFiles
          /\ opened.fate # "none"
    /\ restoreScript.step \in UndoSteps \cup {"arm", "write", "validate", "context"} =>
          transaction # NoTransaction
    /\ restoreTimer # 0 => restoreTimer = transaction.id
    /\ restoreScript.step \in {"drop", "forget"} \/ restoreScript.op = "automatic" =>
          restoreTimer = 0

DiskInv ==
    opened.fate # "none" => \A f \in RestoreFiles \ opened.edited :
        disk[f] = opened.before[f] \/ (f \in WindowFiles /\ disk[f] = opened.wanted[f])

UndoneOrReplaced == opened.undone \/ Replaced

UndoInv ==
    /\ AtRestore("undo") =>
          \A f \in WindowFiles \ (restoreScript.todo \cup opened.edited) :
              disk[f] = opened.before[f]
    /\ restoreScript.step \in {"cancel", "drop"} =>
          IF restoreScript.op = "restore_confirm" THEN UndoneOrReplaced ELSE PutBack
    /\ AtRestore("forget") => opened.fate \in {"confirmed", "rolled_back"}

FateInv ==
    /\ opened.fate = "open" => opened.id \in kept
    /\ opened.fate = "open" /\ transaction = NoTransaction => PutBack
    /\ opened.fate = "rolled_back" => PutBack
    /\ opened.fate = "confirmed" => UndoneOrReplaced

ContextInv ==
    context # NoSession =>
        /\ context = opened.session
        /\ transaction # NoTransaction => UndoneOrReplaced

RestoreInv ==
    RestoreShape /\ ApplyInv /\ TransactionInv /\ DiskInv /\ UndoInv /\ FateInv /\ ContextInv
-----------------------------------------------------------------------------
(* Transactions are counted from nought.                                    *)
LEMMA Bound == MaxRestores \in Nat /\ 0 \in 0..MaxRestores
<1>1. MaxRestores \in Nat
  BY RestoreAssumption
<1> QED  BY <1>1

(* The window counter and the timer stay in their ranges. *)
LEMMA Ranges ==
    ASSUME RestoreShape
    PROVE  /\ restoreTimer' \in {restoreTimer, 0} => restoreTimer' \in 0..MaxRestores
           /\ reading' \in {reading, ""} => reading' \in {"", "idle", "pending"}
           /\ restoreBounds.windows > 0 => restoreBounds.windows \in 1..MaxRestores
<1>1. /\ restoreTimer \in 0..MaxRestores /\ reading \in {"", "idle", "pending"}
      /\ restoreBounds \in Counters
      /\ restoreBounds.windows <= MaxRestores
  BY DEF RestoreShape
<1>2. restoreBounds.windows \in Nat
  BY <1>1 DEF Counters
<1>3. restoreBounds.windows > 0 => restoreBounds.windows \in 1..MaxRestores
  <2>1. restoreBounds.windows <= MaxRestores /\ MaxRestores \in Nat
    BY <1>1, Bound
  <2> QED  BY <2>1, <1>2
<1>4. restoreTimer' \in {restoreTimer, 0} => restoreTimer' \in 0..MaxRestores
  BY <1>1, Bound
<1>5. reading' \in {reading, ""} => reading' \in {"", "idle", "pending"}
  BY <1>1
<1> QED  BY <1>3, <1>4, <1>5

(* What the steps of a script do to its local variables. *)
LEMMA RestoreGoing ==
    ASSUME RestoreShape, NEW s, NEW todo, GoRestore(s, todo)
    PROVE  /\ restoreScript'.step = s /\ restoreScript'.todo = todo
           /\ UNCHANGED <<restoreScript.op, restoreScript.session>>
           /\ Owned(restoreScript.op, s) /\ s \in ScriptSteps /\ todo \subseteq OnlineFiles =>
                 restoreScript' \in Scripts /\ Owned(restoreScript'.op, restoreScript'.step)
BY DEF RestoreShape, GoRestore, Scripts

(* The parts of the script's type. *)
LEMMA ScriptType ==
    ASSUME RestoreShape
    PROVE  /\ restoreScript.op \in ScriptOps /\ restoreScript.session \in Sessions
           /\ restoreScript.todo \subseteq OnlineFiles
           /\ Owned(restoreScript.op, restoreScript.step)
BY DEF RestoreShape, Scripts

(* The step tells the command. *)
LEMMA StepOwners ==
    ASSUME RestoreShape
    PROVE  /\ Owned(restoreScript.op, restoreScript.step)
           /\ restoreScript.step \in ApplySteps => restoreScript.op = "restore_apply"
BY ScriptType DEF Owned, ScriptOps, RestoreOperations, ApplySteps, UndoSteps

(* Spending keeps the bounds. *)
LEMMA Spending ==
    ASSUME RestoreShape, NEW what \in {"windows", "troubles", "edits"}, RestoreSpend(what)
    PROVE  /\ restoreBounds' \in Counters
           /\ restoreBounds'.windows <= MaxRestores
           /\ what # "windows" => restoreBounds'.windows = restoreBounds.windows
<1>1. restoreBounds \in Counters /\ restoreBounds.windows <= MaxRestores
  BY DEF RestoreShape
<1>2. CASE what = "windows"
  BY <1>1, <1>2, Bound DEF RestoreSpend, Counters
<1>3. CASE what = "troubles"
  BY <1>1, <1>3 DEF RestoreSpend, Counters
<1>4. CASE what = "edits"
  BY <1>1, <1>4 DEF RestoreSpend, Counters
<1> QED  BY <1>2, <1>3, <1>4

(* The script that is not there has its shape.                              *)
LEMMA IdleScript ==
    /\ RestoreIdle.op = "none" /\ RestoreIdle.step = "" /\ RestoreIdle \in Scripts
    /\ Owned(RestoreIdle.op, RestoreIdle.step)
BY DEF RestoreIdle, Scripts, ScriptOps, ScriptSteps, Owned, Sessions

(* Steps that only touch what the tasks know: previews, refusals, status    *)
(* answers and the backup itself.                                          *)
LEMMA QuietStep ==
    ASSUME RestoreInv, RestoreShape',
           UNCHANGED <<disk, transaction, kept, restoreTimer, restoreScript, opened>>,
           UNCHANGED backup \/ restoreScript = RestoreIdle,
           context' \in {context, NoSession}
    PROVE  RestoreInv'
<1>1. ApplyInv'
  <2>1. CASE UNCHANGED backup
    BY <2>1 DEF RestoreInv, ApplyInv, Changed, Differing, Manifest, WindowFiles, Written
  <2>2. CASE restoreScript = RestoreIdle
    BY <2>2, IdleScript DEF RestoreInv, ApplyInv, ApplySteps, WindowFiles, Written
  <2> QED  BY <2>1, <2>2
<1>2. TransactionInv'
  BY DEF RestoreInv, TransactionInv, WindowFiles
<1>3. DiskInv' /\ UndoInv' /\ FateInv' /\ ContextInv'
  BY DEF RestoreInv, DiskInv, UndoInv, FateInv, ContextInv, WindowFiles, UndoneOrReplaced,
         Replaced, PutBack
<1> QED  BY <1>1, <1>2, <1>3 DEF RestoreInv

(* A script that ends, is killed or is lost in a reboot leaves a state that *)
(* makes sense without it.                                                 *)
LEMMA EndStep ==
    ASSUME RestoreInv, RestoreShape', EndRestore,
           UNCHANGED <<disk, transaction, kept, opened>>,
           restoreTimer' \in {restoreTimer, 0}, context' \in {context, NoSession}
    PROVE  RestoreInv'
<1>0. restoreScript'.op = "none" /\ restoreScript'.step = ""
  BY IdleScript DEF EndRestore
<1>1. ApplyInv' /\ TransactionInv' /\ UndoInv'
  BY <1>0 DEF RestoreInv, ApplyInv, TransactionInv, UndoInv, ApplySteps, UndoSteps, WindowFiles
<1>2. DiskInv' /\ FateInv' /\ ContextInv'
  BY DEF RestoreInv, DiskInv, FateInv, ContextInv, WindowFiles, UndoneOrReplaced,
         Replaced, PutBack
<1> QED  BY <1>1, <1>2 DEF RestoreInv

(* A step of a restore is one of those its script has.                      *)
LEMMA TaskSteps ==
    ASSUME RestoreInv,
           \/ CreateBackup \/ VerifyBackup \/ DeleteBackup \/ RefuseRestore
           \/ ReadRestoreStatus \/ AnswerRestoreStatus
           \/ \E op \in RestoreOperations, s \in RestoreSessions : PrepareRestore(op, s)
    PROVE  RestoreInv'
<1>0. RestoreShape
  BY DEF RestoreInv
<1>1. UNCHANGED <<disk, transaction, kept, restoreTimer, restoreScript, opened>>
  BY DEF CreateBackup, VerifyBackup, DeleteBackup, RefuseRestore, ReadRestoreStatus,
         AnswerRestoreStatus, PrepareRestore
<1>2. UNCHANGED backup \/ restoreScript = RestoreIdle
  BY DEF CreateBackup, VerifyBackup, DeleteBackup, RefuseRestore, ReadRestoreStatus,
         AnswerRestoreStatus, PrepareRestore
<1>3. context' \in {context, NoSession} /\ context' \in Sessions
  BY <1>0 DEF CreateBackup, VerifyBackup, DeleteBackup, RefuseRestore, ReadRestoreStatus,
         AnswerRestoreStatus, PrepareRestore, Cleared, RestoreShape, Sessions
<1>4. backup' \in [RestoreFiles -> FileContents]
  BY <1>0 DEF CreateBackup, VerifyBackup, DeleteBackup, RefuseRestore, ReadRestoreStatus,
         AnswerRestoreStatus, PrepareRestore, RestoreShape, Sealed, NothingBackedUp, FileContents
<1>5. assurance' \in {"awaiting_verification", "verified", "cleanup_ready"}
  BY <1>0 DEF CreateBackup, VerifyBackup, DeleteBackup, RefuseRestore, ReadRestoreStatus,
         AnswerRestoreStatus, PrepareRestore, RestoreShape, Drilled
<1>6. reading' \in {"", "idle", "pending"}
  BY <1>0 DEF CreateBackup, VerifyBackup, DeleteBackup, RefuseRestore, ReadRestoreStatus,
         AnswerRestoreStatus, PrepareRestore, RestoreShape, RestoreState
<1>7. /\ restoreBounds' \in Counters
      /\ restoreBounds'.windows <= MaxRestores
  <2>1. CASE CreateBackup
    BY <2>1, <1>0, Spending DEF CreateBackup
  <2>2. CASE UNCHANGED restoreBounds
    BY <2>2, <1>0 DEF RestoreShape
  <2> QED  BY <2>1, <2>2 DEF VerifyBackup, DeleteBackup, RefuseRestore, ReadRestoreStatus,
                             AnswerRestoreStatus, PrepareRestore
<1>8. /\ prepared'.op \in RestoreOperations \cup {"none"} /\ prepared'.session \in Sessions
      /\ prepared' # NoPrepared => prepared'.op \in RestoreOperations
  <2>1. CASE UNCHANGED prepared
    BY <2>1, <1>0 DEF RestoreShape
  <2>2. CASE RefuseRestore
    BY <2>2 DEF RefuseRestore, NoPrepared, Sessions
  <2>3. ASSUME NEW op \in RestoreOperations, NEW s \in RestoreSessions, PrepareRestore(op, s)
        PROVE  /\ prepared'.op \in RestoreOperations \cup {"none"}
               /\ prepared'.session \in Sessions /\ prepared'.op \in RestoreOperations
    BY <2>3 DEF PrepareRestore, Sessions
  <2> QED  BY <2>1, <2>2, <2>3 DEF CreateBackup, VerifyBackup, DeleteBackup,
                                   ReadRestoreStatus, AnswerRestoreStatus
<1>9. RestoreShape'
  BY <1>0, <1>1, <1>3, <1>4, <1>5, <1>6, <1>7, <1>8 DEF RestoreShape
<1> QED  BY <1>1, <1>2, <1>3, <1>9, QuietStep

(* A kill and a reboot leave the files as they are; the transaction and its *)
(* archive stay.                                                            *)
LEMMA Interrupted == ASSUME RestoreInv, KillRestore \/ RebootRestore PROVE RestoreInv'
<1>0. RestoreShape
  BY DEF RestoreInv
<1>1. EndRestore /\ restoreTimer' \in {restoreTimer, 0}
      /\ UNCHANGED <<disk, backup, assurance, transaction, kept, context, prepared, opened>>
      /\ reading' \in {reading, ""} /\ RestoreSpend("troubles")
  BY DEF KillRestore, RebootRestore
<1>2. RestoreShape'
  <2>1. /\ restoreBounds' \in Counters
        /\ restoreBounds'.windows <= MaxRestores
    BY <1>0, <1>1, Spending
  <2>2. restoreTimer' \in 0..MaxRestores /\ reading' \in {"", "idle", "pending"}
    BY <1>0, <1>1, Ranges
  <2>3. restoreScript' \in Scripts /\ Owned(restoreScript'.op, restoreScript'.step)
    BY <1>1, IdleScript DEF EndRestore
  <2> QED  BY <2>1, <2>2, <2>3, <1>0, <1>1 DEF RestoreShape
<1> QED  BY <1>1, <1>2, EndStep

(* An undoing begins with every file of the recorded window. *)
LEMMA BeginUndoing ==
    ASSUME RestoreInv, RestoreShape', transaction # NoTransaction,
           UNCHANGED <<disk, transaction, kept, opened>>,
           restoreScript'.step = "undo", restoreScript'.todo = transaction.files,
           restoreTimer' \in {restoreTimer, 0}, context' \in {context, NoSession},
           restoreScript'.op = "automatic" => restoreTimer' = 0
    PROVE  RestoreInv'
<1>1. transaction.files = WindowFiles
  BY DEF RestoreInv, TransactionInv
<1>2. ApplyInv' /\ TransactionInv'
  BY DEF RestoreInv, ApplyInv, TransactionInv, ApplySteps, UndoSteps, WindowFiles
<1>3. UndoInv'
  BY <1>1 DEF UndoInv, WindowFiles
<1>4. DiskInv' /\ FateInv' /\ ContextInv'
  BY DEF RestoreInv, DiskInv, FateInv, ContextInv, WindowFiles, UndoneOrReplaced,
         Replaced, PutBack
<1> QED  BY <1>2, <1>3, <1>4 DEF RestoreInv

(* A recovery by an administrator begins to undo an open window.            *)
LEMMA RecoveryStep == ASSUME RestoreInv, RecoveryCommand PROVE RestoreInv'
<1>0. RestoreShape /\ transaction # NoTransaction /\ transaction.files \subseteq OnlineFiles
  BY DEF RestoreInv, RestoreShape, Transactions, RecoveryCommand
<1>1. /\ restoreScript'.op = "restore_rollback" /\ restoreScript'.step = "undo"
      /\ restoreScript'.todo = transaction.files /\ restoreScript' \in Scripts
  BY <1>0 DEF RecoveryCommand, RestoreIdle, Scripts, ScriptOps, RestoreOperations, ScriptSteps,
              UndoSteps, Sessions
<1>2. UNCHANGED <<disk, backup, assurance, transaction, kept, restoreTimer, context,
                  reading, prepared, restoreBounds, opened>>
  BY DEF RecoveryCommand
<1>3. RestoreShape'
  BY <1>0, <1>1, <1>2 DEF RestoreShape, Owned, UndoSteps
<1> QED  BY <1>0, <1>1, <1>2, <1>3, BeginUndoing

(* The timer undoes the window it was armed for, or finds it gone.          *)
LEMMA RestoreTimerStep == ASSUME RestoreInv, TimerFires PROVE RestoreInv'
<1>0. RestoreShape
  BY DEF RestoreInv
<1>1. UNCHANGED <<disk, backup, assurance, transaction, kept, context,
                  reading, prepared, restoreBounds, opened>> /\ restoreTimer' = 0
  BY DEF TimerFires
<1>2. 0 \in 0..MaxRestores
  BY RestoreAssumption
<1>3. CASE UNCHANGED restoreScript
  <2>1. RestoreShape'
    BY <1>0, <1>1, <1>2, <1>3 DEF RestoreShape
  <2>2. ApplyInv' /\ TransactionInv' /\ UndoInv'
    BY <1>1, <1>3 DEF RestoreInv, ApplyInv, TransactionInv, UndoInv, Changed, Differing,
                      Manifest, WindowFiles, Written, UndoneOrReplaced, Replaced, PutBack
  <2>3. DiskInv' /\ FateInv' /\ ContextInv'
    BY <1>1 DEF RestoreInv, DiskInv, FateInv, ContextInv, WindowFiles, UndoneOrReplaced,
                Replaced, PutBack
  <2> QED  BY <2>1, <2>2, <2>3 DEF RestoreInv
<1>4. CASE /\ transaction # NoTransaction
           /\ restoreScript' = [RestoreIdle EXCEPT !.op = "automatic",
                                   !.step = "undo", !.todo = transaction.files]
  <2>0. transaction.files \subseteq OnlineFiles
    BY <1>0 DEF RestoreShape, Transactions
  <2>1. /\ restoreScript'.op = "automatic" /\ restoreScript'.step = "undo"
        /\ restoreScript'.todo = transaction.files /\ restoreScript' \in Scripts
    BY <2>0, <1>4 DEF RestoreIdle, Scripts, ScriptOps, ScriptSteps, UndoSteps, Sessions
  <2>2. RestoreShape'
    BY <1>0, <1>1, <1>2, <2>1 DEF RestoreShape, Owned
  <2> QED  BY <1>1, <1>4, <2>1, <2>2, BeginUndoing
<1> QED  BY <1>3, <1>4 DEF TimerFires

(* Another command begins; it has edited nothing yet.                       *)
LEMMA OtherStep == ASSUME RestoreInv, OtherCommand PROVE RestoreInv'
<1>0. RestoreShape
  BY DEF RestoreInv
<1>1. UNCHANGED <<disk, backup, assurance, transaction, kept, restoreTimer, context,
                  reading, prepared, opened>> /\ RestoreSpend("edits")
  BY DEF OtherCommand
<1>2. /\ restoreScript'.op = "other" /\ restoreScript'.step = "edit"
      /\ restoreScript' \in Scripts
  BY DEF OtherCommand, RestoreIdle, Scripts, ScriptOps, ScriptSteps, Sessions
<1>3. RestoreShape'
  BY <1>0, <1>1, <1>2, Spending DEF RestoreShape, Owned
<1>4. ApplyInv' /\ TransactionInv' /\ UndoInv'
  BY <1>1, <1>2 DEF RestoreInv, ApplyInv, TransactionInv, UndoInv, ApplySteps, UndoSteps, WindowFiles
<1>5. DiskInv' /\ FateInv' /\ ContextInv'
  BY <1>1 DEF RestoreInv, DiskInv, FateInv, ContextInv, WindowFiles, UndoneOrReplaced,
              Replaced, PutBack
<1> QED  BY <1>3, <1>4, <1>5 DEF RestoreInv

(* The file that another command edits is remembered.                       *)
LEMMA EditFileStep == ASSUME RestoreInv, EditFile PROVE RestoreInv'
<1>0. RestoreShape
  BY DEF RestoreInv
<1>1. PICK g \in RestoreFiles :
         /\ disk' = [disk EXCEPT ![g] = "edited"]
         /\ opened' = [opened EXCEPT !.edited = @ \cup {g}]
  BY DEF EditFile
<1>2. UNCHANGED <<backup, assurance, transaction, kept, restoreTimer, context, reading,
                  prepared, restoreBounds>> /\ EndRestore
  BY DEF EditFile
<1>3. /\ opened'.edited = opened.edited \cup {g} /\ opened' \in Opened
      /\ UNCHANGED <<opened.id, opened.session, opened.before, opened.wanted, opened.fate,
                     opened.undone>>
  BY <1>0, <1>1 DEF RestoreShape, Opened
<1>4. disk' \in [RestoreFiles -> FileContents] /\ \A f \in RestoreFiles \ {g} : disk'[f] = disk[f]
  BY <1>0, <1>1 DEF RestoreShape, FileContents
<1>5. restoreScript'.op = "none" /\ restoreScript'.step = ""
  BY <1>2, IdleScript DEF EndRestore
<1>6. RestoreShape'
  BY <1>0, <1>2, <1>3, <1>4, IdleScript DEF RestoreShape, EndRestore
<1>7. WindowFiles' = WindowFiles
  BY <1>3 DEF WindowFiles
<1>8. ApplyInv' /\ TransactionInv' /\ UndoInv'
  BY <1>2, <1>3, <1>5, <1>7
     DEF RestoreInv, ApplyInv, TransactionInv, UndoInv, ApplySteps, UndoSteps
<1>9. DiskInv'
  BY <1>3, <1>4, <1>7 DEF RestoreInv, DiskInv
<1>10. (PutBack => PutBack') /\ (UndoneOrReplaced => UndoneOrReplaced')
  BY <1>3, <1>4 DEF PutBack, Replaced, UndoneOrReplaced
<1>11. FateInv' /\ ContextInv'
  BY <1>2, <1>3, <1>10 DEF RestoreInv, FateInv, ContextInv
<1> QED  BY <1>6, <1>8, <1>9, <1>11 DEF RestoreInv

(* A restore begins when no other is undecided.                             *)
LEMMA ExecuteStep == ASSUME RestoreInv, ExecuteRestore PROVE RestoreInv'
<1>0. RestoreShape /\ prepared.op \in RestoreOperations /\ prepared.session \in Sessions
  BY DEF RestoreInv, RestoreShape, ExecuteRestore
<1>1. UNCHANGED <<disk, backup, transaction, kept, restoreTimer, reading, restoreBounds,
                  opened>> /\ context' = Cleared /\ restoreScript = RestoreIdle
  BY DEF ExecuteRestore
<1>2. /\ prepared' = NoPrepared /\ prepared'.op \in RestoreOperations \cup {"none"}
      /\ prepared'.session \in Sessions
      /\ assurance' \in {"awaiting_verification", "verified", "cleanup_ready"}
      /\ context' \in {context, NoSession} /\ context' \in Sessions
  BY <1>0 DEF ExecuteRestore, NoPrepared, Sessions, Drilled, Cleared, RestoreShape
<1>3. CASE UNCHANGED restoreScript
  <2>1. RestoreShape'
    BY <1>0, <1>1, <1>2, <1>3 DEF RestoreShape
  <2> QED  BY <1>1, <1>2, <1>3, <2>1, QuietStep
<1>4. CASE /\ ScriptAccepts(prepared.op, prepared.session)
           /\ restoreScript' =
                 [op |-> prepared.op, step |-> FirstStep[prepared.op],
                  session |-> prepared.session,
                  todo |-> IF prepared.op = "restore_apply" THEN Changed
                           ELSE transaction.files]
  <2>0. transaction.files \subseteq OnlineFiles /\ Changed \subseteq OnlineFiles
    BY <1>0 DEF RestoreShape, Transactions, Changed, Differing
  <2>1. /\ restoreScript'.op = prepared.op /\ restoreScript'.session = prepared.session
        /\ restoreScript'.todo = IF prepared.op = "restore_apply" THEN Changed
                                 ELSE transaction.files
        /\ prepared.op = "restore_apply" => restoreScript'.step = "keep"
        /\ prepared.op = "restore_confirm" => restoreScript'.step = "cancel"
        /\ prepared.op = "restore_rollback" => restoreScript'.step = "undo"
    BY <1>0, <1>4 DEF FirstStep, RestoreOperations
  <2>2. restoreScript' \in Scripts /\ Owned(restoreScript'.op, restoreScript'.step)
    <3>1. restoreScript'.step \in {"keep", "cancel", "undo"}
          /\ Owned(restoreScript'.op, restoreScript'.step)
      BY <2>1, <1>0 DEF RestoreOperations, Owned, ApplySteps, UndoSteps
    <3> QED  BY <3>1, <2>0, <2>1, <1>0, <1>4 DEF Scripts, ScriptOps, ScriptSteps, ApplySteps, UndoSteps
  <2>3. RestoreShape'
    BY <1>0, <1>1, <1>2, <2>2 DEF RestoreShape
  <2>4. DiskInv' /\ FateInv' /\ ContextInv'
    BY <1>1, <1>2 DEF RestoreInv, DiskInv, FateInv, ContextInv, WindowFiles, UndoneOrReplaced,
                Replaced, PutBack
  <2>5. CASE prepared.op = "restore_apply"
    <3>1. transaction = NoTransaction /\ context' = NoSession
      BY <2>5, <1>1, <1>4 DEF ScriptAccepts, Cleared
    <3>2. Changed' = Changed
      BY <1>1 DEF Changed, Differing, Manifest
    <3>3. ApplyInv' /\ TransactionInv' /\ UndoInv'
      BY <2>1, <2>5, <3>1, <3>2, <1>1
         DEF RestoreInv, ApplyInv, TransactionInv, UndoInv, ApplySteps, UndoSteps, WindowFiles
    <3> QED  BY <2>3, <2>4, <3>3 DEF RestoreInv
  <2>6. CASE prepared.op = "restore_confirm"
    <3>1. transaction # NoTransaction /\ context # NoSession
      BY <2>6, <1>4 DEF ScriptAccepts, ConfirmAllowed, MayConfirm
    <3>2. UndoneOrReplaced
      BY <3>1 DEF RestoreInv, ContextInv
    <3>3. UndoneOrReplaced'
      BY <3>2, <1>1 DEF UndoneOrReplaced, Replaced
    <3>4. ApplyInv' /\ TransactionInv' /\ UndoInv'
      BY <2>1, <2>6, <3>1, <3>3, <1>1
         DEF RestoreInv, ApplyInv, TransactionInv, UndoInv, ApplySteps, UndoSteps, WindowFiles
    <3> QED  BY <2>3, <2>4, <3>4 DEF RestoreInv
  <2>7. CASE prepared.op = "restore_rollback"
    <3>1. transaction # NoTransaction
      BY <2>7, <1>4 DEF ScriptAccepts
    <3> QED  BY <2>1, <2>3, <2>7, <3>1, <1>1, <1>2, BeginUndoing
  <2> QED  BY <2>5, <2>6, <2>7, <1>0 DEF RestoreOperations
<1> QED  BY <1>3, <1>4 DEF ExecuteRestore

(* The archive holds every original before the first write.                 *)
LEMMA KeepStep == ASSUME RestoreInv, KeepFiles PROVE RestoreInv'
<1>0. /\ RestoreShape /\ restoreScript.op = "restore_apply" /\ AtRestore("keep")
      /\ transaction = NoTransaction /\ restoreScript.todo = Changed /\ context = NoSession
  BY StepOwners DEF RestoreInv, KeepFiles, ApplyInv, ApplySteps
<1>1. /\ restoreBounds.windows \in 1..MaxRestores /\ 0 \in 0..MaxRestores
      /\ restoreScript.session \in Sessions
  BY <1>0, ScriptType, Bound, Ranges DEF KeepFiles, RestoreSpend
<1>2. UNCHANGED <<disk, backup, assurance, transaction, restoreTimer, context, reading,
                  prepared>> /\ RestoreSpend("windows")
  BY DEF KeepFiles
<1>3. /\ opened'.id = restoreBounds.windows /\ opened'.session = restoreScript.session
      /\ opened'.before = disk /\ opened'.wanted = backup /\ opened'.fate = "open"
      /\ opened'.undone = FALSE /\ opened'.edited = {} /\ opened' \in Opened
  <2>1. disk \in [RestoreFiles -> FileContents] /\ backup \in [RestoreFiles -> FileContents]
    BY <1>0 DEF RestoreShape
  <2>2. restoreBounds.windows \in 0..MaxRestores
    BY <1>1
  <2>3. opened' = [id |-> restoreBounds.windows, session |-> restoreScript.session,
                   before |-> disk, wanted |-> backup, fate |-> "open",
                   undone |-> FALSE, edited |-> {}]
    BY DEF KeepFiles
  <2> QED  BY <2>1, <2>2, <2>3, <1>1 DEF Opened
<1>4. kept' = kept \cup {restoreBounds.windows} /\ kept' \subseteq 1..MaxRestores
  BY <1>0, <1>1 DEF KeepFiles, RestoreShape
<1>5. /\ restoreScript'.op = "restore_apply" /\ restoreScript'.step = "record"
      /\ restoreScript'.todo = Changed /\ restoreScript'.session = restoreScript.session
      /\ restoreScript' \in Scripts /\ Owned(restoreScript'.op, restoreScript'.step)
  <2>1. Owned(restoreScript.op, "record") /\ "record" \in ScriptSteps
        /\ restoreScript.todo \subseteq OnlineFiles
    BY <1>0 DEF Owned, ScriptSteps, ApplySteps, Changed, Differing
  <2> QED  BY <2>1, <1>0, RestoreGoing DEF KeepFiles, AfterKeeping
<1>6. RestoreShape'
  <2>1. /\ restoreBounds' \in Counters
        /\ restoreBounds'.windows <= MaxRestores
    BY <1>0, <1>2, Spending
  <2> QED  BY <2>1, <1>0, <1>2, <1>3, <1>4, <1>5 DEF RestoreShape
<1>7. WindowFiles' = Changed
  BY <1>3, <1>0 DEF WindowFiles, Changed, Differing, Manifest, RestoreFiles
<1>8. ApplyInv'
  BY <1>0, <1>2, <1>3, <1>5, <1>7 DEF ApplyInv, ApplySteps
<1>9. TransactionInv'
  BY <1>0, <1>2, <1>5 DEF RestoreInv, TransactionInv, UndoSteps
<1>10. PutBack'
  BY <1>2, <1>3 DEF PutBack
<1>11. DiskInv' /\ UndoInv'
  BY <1>2, <1>3, <1>5 DEF DiskInv, UndoInv
<1>12. FateInv' /\ ContextInv'
  BY <1>0, <1>2, <1>3, <1>4, <1>10 DEF FateInv, ContextInv
<1> QED  BY <1>6, <1>8, <1>9, <1>11, <1>12 DEF RestoreInv

(* The transaction is recorded with the archive already there.              *)
LEMMA RecordStep == ASSUME RestoreInv, RecordTransaction PROVE RestoreInv'
<1>0. /\ RestoreShape /\ restoreScript.op = "restore_apply" /\ AtRestore("record")
      /\ transaction = NoTransaction /\ restoreScript.todo = WindowFiles
      /\ context = NoSession /\ opened.fate = "open" /\ opened.id \in kept
  BY StepOwners DEF RestoreInv, RecordTransaction, ApplyInv, ApplySteps, FateInv
<1>1. UNCHANGED <<disk, backup, assurance, kept, restoreTimer, context, reading, prepared,
                  restoreBounds, opened>>
  BY DEF RecordTransaction
<1>2. /\ restoreScript'.op = "restore_apply" /\ restoreScript'.step = "arm"
      /\ restoreScript'.todo = WindowFiles /\ restoreScript'.session = restoreScript.session
      /\ restoreScript' \in Scripts /\ Owned(restoreScript'.op, restoreScript'.step)
  <2>1. Owned(restoreScript.op, "arm") /\ "arm" \in ScriptSteps
        /\ restoreScript.todo \subseteq OnlineFiles
    BY <1>0 DEF Owned, ScriptSteps, ApplySteps, WindowFiles
  <2> QED  BY <2>1, <1>0, RestoreGoing DEF RecordTransaction
<1>3. /\ transaction'.id = opened.id /\ transaction'.files = WindowFiles
      /\ transaction' # NoTransaction /\ transaction' \in Transactions
  <2>1. opened.id \in 1..MaxRestores /\ WindowFiles \subseteq OnlineFiles
    BY <1>0 DEF RestoreShape, WindowFiles
  <2>2. NoTransaction.id = 0 /\ transaction' = [id |-> opened.id, files |-> WindowFiles]
    BY <1>0 DEF NoTransaction, RecordTransaction
  <2> QED  BY <2>1, <2>2 DEF Transactions
<1>4. RestoreShape'
  BY <1>0, <1>1, <1>2, <1>3 DEF RestoreShape
<1>5. WindowFiles' = WindowFiles
  BY <1>1 DEF WindowFiles
<1>6. ApplyInv'
  BY <1>0, <1>1, <1>2, <1>5 DEF RestoreInv, ApplyInv, ApplySteps
<1>7. TransactionInv'
  <2>1. restoreTimer = 0
    BY <1>0 DEF RestoreInv, TransactionInv, NoTransaction
  <2> QED  BY <2>1, <1>0, <1>1, <1>2, <1>3, <1>5 DEF TransactionInv, UndoSteps
<1>8. DiskInv' /\ UndoInv' /\ FateInv' /\ ContextInv'
  BY <1>0, <1>1, <1>2, <1>3, <1>5
     DEF RestoreInv, DiskInv, UndoInv, FateInv, ContextInv, UndoneOrReplaced, Replaced, PutBack
<1> QED  BY <1>4, <1>6, <1>7, <1>8 DEF RestoreInv

(* A failed step of an apply begins to undo at once. *)
LEMMA RollBackStep ==
    ASSUME RestoreInv, restoreScript.op = "restore_apply",
           restoreScript.step \in {"arm", "write", "validate"},
           RestoreSpend("troubles"), RollBackNow, restoreTimer' \in {restoreTimer, 0},
           UNCHANGED <<disk, backup, assurance, transaction, kept, context, reading,
                       prepared, opened>>
    PROVE  RestoreInv'
<1>0. RestoreShape /\ transaction # NoTransaction /\ transaction.files \subseteq OnlineFiles
  BY DEF RestoreInv, TransactionInv, RestoreShape, Transactions
<1>1. /\ restoreScript'.op = "restore_apply" /\ restoreScript'.step = "undo"
      /\ restoreScript'.todo = transaction.files
      /\ restoreScript' \in Scripts /\ Owned(restoreScript'.op, restoreScript'.step)
  <2>1. Owned(restoreScript.op, "undo") /\ "undo" \in ScriptSteps
    BY DEF Owned, ScriptSteps, UndoSteps
  <2> QED  BY <2>1, <1>0, RestoreGoing DEF RollBackNow
<1>2. /\ restoreBounds' \in Counters
      /\ restoreBounds'.windows <= MaxRestores /\ restoreTimer' \in 0..MaxRestores
  BY <1>0, Spending, Ranges
<1>3. RestoreShape'
  BY <1>0, <1>1, <1>2 DEF RestoreShape
<1> QED  BY <1>0, <1>1, <1>3, BeginUndoing

(* The timer is armed before the first file is written, for this window.    *)
LEMMA ArmStep == ASSUME RestoreInv, ArmTimer PROVE RestoreInv'
<1>0. /\ RestoreShape /\ restoreScript.op = "restore_apply" /\ AtRestore("arm")
      /\ restoreScript.todo = WindowFiles /\ transaction # NoTransaction
  BY StepOwners DEF RestoreInv, ArmTimer, ApplyInv, TransactionInv, ApplySteps
<1>1. UNCHANGED <<disk, backup, assurance, transaction, kept, context, reading, prepared,
                  opened>>
  BY DEF ArmTimer
<1>2. CASE /\ restoreTimer' = transaction.id /\ GoRestore("write", restoreScript.todo)
           /\ UNCHANGED restoreBounds
  <2>1. /\ restoreScript'.op = "restore_apply" /\ restoreScript'.step = "write"
        /\ restoreScript'.todo = WindowFiles /\ restoreScript'.session = restoreScript.session
        /\ restoreScript' \in Scripts /\ Owned(restoreScript'.op, restoreScript'.step)
    <3>1. Owned(restoreScript.op, "write") /\ "write" \in ScriptSteps
          /\ restoreScript.todo \subseteq OnlineFiles
      BY <1>0 DEF Owned, ScriptSteps, ApplySteps, WindowFiles
    <3> QED  BY <3>1, <1>0, <1>2, RestoreGoing
  <2>2. RestoreShape'
    BY <2>1, <1>0, <1>1, <1>2 DEF RestoreShape, Transactions
  <2>3. WindowFiles' = WindowFiles
    BY <1>1 DEF WindowFiles
  <2>4. ApplyInv'
    BY <2>1, <2>3, <1>0, <1>1 DEF RestoreInv, ApplyInv, ApplySteps, Written
  <2>5. TransactionInv'
    BY <2>1, <2>3, <1>0, <1>1, <1>2 DEF RestoreInv, TransactionInv, UndoSteps
  <2>6. DiskInv' /\ UndoInv' /\ FateInv' /\ ContextInv'
    BY <2>1, <2>3, <1>0, <1>1
       DEF RestoreInv, DiskInv, UndoInv, FateInv, ContextInv, UndoneOrReplaced, Replaced, PutBack
  <2> QED  BY <2>2, <2>4, <2>5, <2>6 DEF RestoreInv
<1>3. CASE RestoreFault("timer") /\ restoreTimer' = 0 /\ RollBackNow
  BY <1>0, <1>1, <1>3, RollBackStep DEF RestoreFault
<1> QED  BY <1>2, <1>3 DEF ArmTimer

(* A file is written whole; its original is in the archive.                 *)
LEMMA WriteFileStep == ASSUME RestoreInv, WriteFile PROVE RestoreInv'
<1>0. /\ RestoreShape /\ restoreScript.op = "restore_apply" /\ AtRestore("write")
      /\ restoreScript.todo \subseteq WindowFiles /\ Written(WindowFiles \ restoreScript.todo)
      /\ transaction # NoTransaction /\ context = NoSession
      /\ opened.fate = "open" /\ opened.edited = {} /\ ~opened.undone
  BY StepOwners DEF RestoreInv, WriteFile, ApplyInv, TransactionInv, ApplySteps
<1>1. UNCHANGED <<backup, assurance, transaction, kept, restoreTimer, context, reading,
                  prepared, opened>>
  BY DEF WriteFile
<1>2. WindowFiles' = WindowFiles /\ WindowFiles \subseteq OnlineFiles
  BY <1>1 DEF WindowFiles
<1>3. Owned(restoreScript.op, "write") /\ "write" \in ScriptSteps
      /\ Owned(restoreScript.op, "validate") /\ "validate" \in ScriptSteps
  BY <1>0 DEF Owned, ScriptSteps, ApplySteps
<1>4. CASE restoreScript.todo = {} /\ GoRestore("validate", {}) /\ UNCHANGED <<disk, restoreBounds>>
  <2>1. /\ restoreScript'.op = "restore_apply" /\ restoreScript'.step = "validate"
        /\ restoreScript'.session = restoreScript.session
        /\ restoreScript' \in Scripts /\ Owned(restoreScript'.op, restoreScript'.step)
    BY <1>0, <1>3, <1>4, RestoreGoing
  <2>2. RestoreShape'
    BY <2>1, <1>0, <1>1, <1>4 DEF RestoreShape
  <2>3. ApplyInv'
    BY <2>1, <1>0, <1>1, <1>2, <1>4 DEF RestoreInv, ApplyInv, ApplySteps, Written
  <2>4. TransactionInv'
    BY <2>1, <1>0, <1>1, <1>2 DEF RestoreInv, TransactionInv, UndoSteps
  <2>5. DiskInv' /\ UndoInv' /\ FateInv' /\ ContextInv'
    BY <2>1, <1>0, <1>1, <1>2, <1>4
       DEF RestoreInv, DiskInv, UndoInv, FateInv, ContextInv, UndoneOrReplaced, Replaced, PutBack
  <2> QED  BY <2>2, <2>3, <2>4, <2>5 DEF RestoreInv
<1>5. ASSUME NEW g \in restoreScript.todo, disk' = [disk EXCEPT ![g] = opened.wanted[g]],
             GoRestore("write", restoreScript.todo \ {g}), UNCHANGED restoreBounds
      PROVE  RestoreInv'
  <2>1. /\ restoreScript'.op = "restore_apply" /\ restoreScript'.step = "write"
        /\ restoreScript'.todo = restoreScript.todo \ {g}
        /\ restoreScript'.session = restoreScript.session
        /\ restoreScript' \in Scripts /\ Owned(restoreScript'.op, restoreScript'.step)
    BY <1>0, <1>2, <1>3, <1>5, RestoreGoing
  <2>2. g \in WindowFiles /\ g \in RestoreFiles /\ opened.wanted \in [RestoreFiles -> FileContents]
        /\ WindowFiles \subseteq RestoreFiles
    BY <1>0, <1>2 DEF RestoreFiles, RestoreShape, Opened
  <2>3. /\ disk' \in [RestoreFiles -> FileContents] /\ disk'[g] = opened.wanted[g]
        /\ \A f \in RestoreFiles \ {g} : disk'[f] = disk[f]
    BY <2>2, <1>0, <1>5 DEF RestoreShape
  <2>4. RestoreShape'
    BY <2>1, <2>3, <1>0, <1>1, <1>5 DEF RestoreShape
  <2>6. ApplyInv'
    BY <2>1, <2>2, <2>3, <1>0, <1>1, <1>2 DEF RestoreInv, ApplyInv, ApplySteps, Written
  <2>7. TransactionInv'
    BY <2>1, <1>0, <1>1, <1>2 DEF RestoreInv, TransactionInv, UndoSteps
  <2>8. DiskInv'
    BY <2>2, <2>3, <1>1, <1>2 DEF RestoreInv, DiskInv
  <2>9. UndoInv' /\ FateInv' /\ ContextInv'
    BY <2>1, <1>0, <1>1, <1>2 DEF RestoreInv, UndoInv, FateInv, ContextInv
  <2> QED  BY <2>4, <2>6, <2>7, <2>8, <2>9 DEF RestoreInv
<1>6. CASE RestoreFault("write") /\ RollBackNow /\ UNCHANGED disk
  BY <1>0, <1>1, <1>6, RollBackStep DEF RestoreFault
<1> QED  BY <1>4, <1>5, <1>6 DEF WriteFile

(* All files are written when they are validated; otherwise the undo        *)
(* begins.                                                                  *)
LEMMA ValidateStep == ASSUME RestoreInv, ValidateFiles PROVE RestoreInv'
<1>0. RestoreShape /\ restoreScript.op = "restore_apply" /\ AtRestore("validate")
  BY StepOwners DEF RestoreInv, ValidateFiles, ApplySteps
<1>1. UNCHANGED <<disk, backup, assurance, transaction, kept, restoreTimer, context,
                  reading, prepared, opened>>
  BY DEF ValidateFiles
<1>2. CASE GoRestore("context", {}) /\ UNCHANGED restoreBounds
  <2>1. /\ restoreScript'.op = "restore_apply" /\ restoreScript'.step = "context"
        /\ restoreScript'.session = restoreScript.session
        /\ restoreScript' \in Scripts /\ Owned(restoreScript'.op, restoreScript'.step)
    <3>1. Owned(restoreScript.op, "context") /\ "context" \in ScriptSteps
      BY <1>0 DEF Owned, ScriptSteps, ApplySteps
    <3> QED  BY <3>1, <1>0, <1>2, RestoreGoing
  <2>2. RestoreShape'
    BY <2>1, <1>0, <1>1, <1>2 DEF RestoreShape
  <2>3. ApplyInv'
    BY <2>1, <1>0, <1>1 DEF RestoreInv, ApplyInv, ApplySteps, Written, WindowFiles
  <2>4. TransactionInv'
    BY <2>1, <1>0, <1>1 DEF RestoreInv, TransactionInv, UndoSteps, WindowFiles
  <2>5. DiskInv' /\ UndoInv' /\ FateInv' /\ ContextInv'
    BY <2>1, <1>0, <1>1 DEF RestoreInv, DiskInv, UndoInv, FateInv, ContextInv,
                            UndoneOrReplaced, Replaced, PutBack, WindowFiles
  <2> QED  BY <2>2, <2>3, <2>4, <2>5 DEF RestoreInv
<1>3. CASE RestoreFault("validate") /\ RollBackNow
  BY <1>0, <1>1, <1>3, RollBackStep DEF RestoreFault
<1> QED  BY <1>2, <1>3 DEF ValidateFiles

(* Once every file of the window is written, the files are as in the backup. *)
LEMMA AllWritten ==
    ASSUME DiskInv, RestoreShape, opened.fate = "open", opened.edited = {}, Written(WindowFiles)
    PROVE  Replaced
<1> SUFFICES ASSUME NEW f \in RestoreFiles \ opened.edited
             PROVE  disk[f] = IF f \in OnlineFiles /\ opened.wanted[f] # "missing"
                              THEN opened.wanted[f] ELSE opened.before[f]
  BY DEF Replaced
<1>1. disk[f] = opened.before[f] \/ f \in WindowFiles
  BY DEF DiskInv
<1>2. f \in WindowFiles => disk[f] = opened.wanted[f]
  BY DEF Written
<1> QED  BY <1>1, <1>2 DEF WindowFiles

(* A restore ends with its session on record.                               *)
LEMMA SessionStep == ASSUME RestoreInv, RecordSession PROVE RestoreInv'
<1>0. /\ RestoreShape /\ restoreScript.op = "restore_apply" /\ AtRestore("context") /\ DiskInv
      /\ opened.fate = "open" /\ opened.edited = {} /\ Written(WindowFiles)
      /\ opened.session = restoreScript.session
  BY StepOwners DEF RestoreInv, RecordSession, ApplyInv, ApplySteps
<1>1. UNCHANGED <<disk, backup, assurance, transaction, kept, restoreTimer, reading,
                  prepared, restoreBounds, opened>> /\ context' = opened.session
      /\ EndRestore
  BY <1>0 DEF RecordSession
<1>2. restoreScript'.op = "none" /\ restoreScript'.step = ""
  BY <1>1, IdleScript DEF EndRestore
<1>3. RestoreShape'
  BY <1>0, <1>1, IdleScript, ScriptType DEF RestoreShape, EndRestore
<1>4. ApplyInv' /\ TransactionInv' /\ UndoInv'
  BY <1>1, <1>2 DEF RestoreInv, ApplyInv, TransactionInv, UndoInv, ApplySteps, UndoSteps, WindowFiles
<1>5. Replaced
  BY <1>0, AllWritten
<1>6. DiskInv' /\ FateInv' /\ ContextInv'
  BY <1>1, <1>5 DEF RestoreInv, DiskInv, FateInv, ContextInv, WindowFiles, UndoneOrReplaced,
                    Replaced, PutBack
<1> QED  BY <1>3, <1>4, <1>6 DEF RestoreInv

(* One file after the other returns to its original.                        *)
LEMMA UndoFileStep == ASSUME RestoreInv, UndoFile PROVE RestoreInv'
<1>0. /\ RestoreShape /\ AtRestore("undo") /\ transaction # NoTransaction
      /\ transaction.files = WindowFiles /\ opened.fate # "none"
      /\ restoreScript.op \in {"restore_apply", "restore_rollback", "automatic"}
  BY StepOwners, ScriptType
     DEF RestoreInv, UndoFile, TransactionInv, UndoSteps, Owned, ScriptOps, RestoreOperations
<1>1. UNCHANGED <<backup, assurance, transaction, kept, restoreTimer, context, reading,
                  prepared>> /\ opened' = [opened EXCEPT !.undone = TRUE]
  BY DEF UndoFile
<1>2. /\ opened'.undone /\ opened' \in Opened
      /\ UNCHANGED <<opened.id, opened.session, opened.before, opened.wanted, opened.fate,
                     opened.edited>>
  BY <1>0, <1>1 DEF RestoreShape, Opened
<1>3. WindowFiles' = WindowFiles /\ WindowFiles \subseteq RestoreFiles /\ UndoneOrReplaced'
  BY <1>2 DEF WindowFiles, RestoreFiles, UndoneOrReplaced
<1>4. ApplyInv' /\ UndoInv' /\ RestoreShape' /\ DiskInv' /\ TransactionInv' /\ (PutBack => PutBack')
  <2>1. CASE restoreScript.todo = {} /\ GoRestore(AfterUndoing, {}) /\ UNCHANGED <<disk, restoreBounds>>
    <3>1. /\ restoreScript'.step = IF restoreScript.op = "automatic" THEN "drop" ELSE "cancel"
          /\ restoreScript'.op = restoreScript.op
          /\ restoreScript' \in Scripts /\ Owned(restoreScript'.op, restoreScript'.step)
      <4>1. /\ Owned(restoreScript.op, AfterUndoing) /\ AfterUndoing \in ScriptSteps
            /\ AfterUndoing = IF restoreScript.op = "automatic" THEN "drop" ELSE "cancel"
        BY <1>0 DEF Owned, AfterUndoing, ScriptSteps, ApplySteps, UndoSteps
      <4> QED  BY <4>1, <1>0, <2>1, RestoreGoing
    <3>2. ASSUME NEW f \in RestoreFiles \ opened.edited
          PROVE  disk[f] = opened.before[f]
      <4>1. disk[f] = opened.before[f] \/ f \in WindowFiles
        BY <1>0 DEF RestoreInv, DiskInv
      <4>2. f \in WindowFiles => disk[f] = opened.before[f]
        BY <1>0, <2>1 DEF RestoreInv, UndoInv
      <4> QED  BY <4>1, <4>2
    <3>3. PutBack /\ PutBack'
      BY <3>2, <1>2, <2>1 DEF PutBack
    <3>4. RestoreShape'
      BY <3>1, <1>0, <1>1, <1>2, <2>1 DEF RestoreShape
    <3>5. ApplyInv' /\ UndoInv'
      BY <3>1, <3>3, <1>0 DEF ApplyInv, UndoInv, ApplySteps
    <3>6. DiskInv'
      BY <1>2, <1>3, <2>1 DEF RestoreInv, DiskInv
    <3>7. TransactionInv'
      BY <3>1, <1>0, <1>1, <1>2, <1>3 DEF RestoreInv, TransactionInv, UndoSteps
    <3> QED  BY <3>3, <3>4, <3>5, <3>6, <3>7
  <2>2. ASSUME NEW g \in restoreScript.todo, disk' = [disk EXCEPT ![g] = KeptFiles[g]],
               GoRestore("undo", restoreScript.todo \ {g}), UNCHANGED restoreBounds
        PROVE  ApplyInv' /\ UndoInv' /\ RestoreShape' /\ DiskInv' /\ TransactionInv' /\ (PutBack => PutBack')
    <3>1. /\ restoreScript'.op = restoreScript.op /\ restoreScript'.step = "undo"
          /\ restoreScript'.todo = restoreScript.todo \ {g}
          /\ restoreScript' \in Scripts /\ Owned(restoreScript'.op, restoreScript'.step)
      <4>1. Owned(restoreScript.op, "undo") /\ "undo" \in ScriptSteps
            /\ restoreScript.todo \subseteq OnlineFiles
        BY <1>0, ScriptType DEF Owned, ScriptSteps, UndoSteps
      <4> QED  BY <4>1, <1>0, <2>2, RestoreGoing
    <3>2. g \in RestoreFiles /\ opened.before \in [RestoreFiles -> FileContents]
      BY <1>0, ScriptType DEF RestoreFiles, RestoreShape, Opened
    <3>3. /\ disk' \in [RestoreFiles -> FileContents] /\ disk'[g] = opened.before[g]
          /\ \A f \in RestoreFiles \ {g} : disk'[f] = disk[f]
      BY <3>2, <1>0, <2>2 DEF RestoreShape, KeptFiles
    <3>4. RestoreShape'
      BY <3>1, <3>3, <1>0, <1>1, <1>2, <2>2 DEF RestoreShape
    <3>5. PutBack => PutBack'
      BY <3>3, <1>2 DEF PutBack
    <3>6. DiskInv'
      BY <3>3, <1>2, <1>3 DEF RestoreInv, DiskInv
    <3>7. ApplyInv'
      BY <3>1, <1>0 DEF ApplyInv, ApplySteps
    <3>8. UndoInv'
      BY <3>1, <3>3, <1>0, <1>2, <1>3 DEF RestoreInv, UndoInv
    <3>9. TransactionInv'
      BY <3>1, <1>0, <1>1, <1>2, <1>3 DEF RestoreInv, TransactionInv, UndoSteps
    <3> QED  BY <3>4, <3>5, <3>6, <3>7, <3>8, <3>9
  <2>3. CASE RestoreFault("undo") /\ EndRestore /\ UNCHANGED disk
    <3>1. restoreScript'.op = "none" /\ restoreScript'.step = ""
      BY <2>3, IdleScript DEF EndRestore
    <3>2. /\ restoreBounds' \in Counters
          /\ restoreBounds'.windows <= MaxRestores
      BY <1>0, <2>3, Spending DEF RestoreFault
    <3>3. RestoreShape'
      BY <3>2, <1>0, <1>1, <1>2, <2>3, IdleScript DEF RestoreShape, EndRestore
    <3>4. ApplyInv' /\ TransactionInv' /\ UndoInv'
      BY <3>1, <1>0, <1>1, <1>2, <1>3
         DEF RestoreInv, ApplyInv, TransactionInv, UndoInv, ApplySteps, UndoSteps
    <3>5. DiskInv' /\ (PutBack => PutBack')
      BY <1>2, <1>3, <2>3 DEF RestoreInv, DiskInv, PutBack
    <3> QED  BY <3>3, <3>4, <3>5
  <2> QED  BY <2>1, <2>2, <2>3 DEF UndoFile
<1>5. FateInv' /\ ContextInv'
  BY <1>0, <1>1, <1>2, <1>3, <1>4 DEF RestoreInv, FateInv, ContextInv
<1> QED  BY <1>4, <1>5 DEF RestoreInv

(* The timer goes before the archive it would undo from.                    *)
LEMMA CancelStep == ASSUME RestoreInv, CancelTimer PROVE RestoreInv'
<1>0. RestoreShape /\ AtRestore("cancel") /\ transaction # NoTransaction
      /\ restoreScript.op \in RestoreOperations
  BY StepOwners, ScriptType
     DEF RestoreInv, CancelTimer, TransactionInv, UndoSteps, Owned, ScriptOps, RestoreOperations
<1>1. UNCHANGED <<disk, backup, assurance, transaction, kept, context, reading,
                  prepared, restoreBounds, opened>> /\ restoreTimer' = 0
  BY DEF CancelTimer, Cancelled
<1>2. /\ restoreScript'.op = restoreScript.op /\ restoreScript'.step = "drop"
      /\ restoreScript' \in Scripts /\ Owned(restoreScript'.op, restoreScript'.step)
  <2>1. Owned(restoreScript.op, "drop") /\ "drop" \in ScriptSteps
    BY <1>0 DEF Owned, ScriptSteps, UndoSteps, RestoreOperations
  <2> QED  BY <2>1, <1>0, RestoreGoing DEF CancelTimer
<1>3. RestoreShape'
  BY <1>0, <1>1, <1>2, Bound DEF RestoreShape
<1>4. ApplyInv' /\ TransactionInv'
  BY <1>0, <1>1, <1>2 DEF RestoreInv, ApplyInv, TransactionInv, ApplySteps, UndoSteps, WindowFiles
<1>5. UndoInv' /\ DiskInv' /\ FateInv' /\ ContextInv'
  BY <1>0, <1>1, <1>2 DEF RestoreInv, UndoInv, DiskInv, FateInv, ContextInv, WindowFiles,
                          UndoneOrReplaced, Replaced, PutBack
<1> QED  BY <1>3, <1>4, <1>5 DEF RestoreInv

(* The archive goes with the decision; nothing is undone after that.        *)
LEMMA DropStep == ASSUME RestoreInv, DropArchive PROVE RestoreInv'
<1>0. RestoreShape /\ AtRestore("drop") /\ transaction # NoTransaction /\ restoreTimer = 0
      /\ restoreScript.op \in RestoreOperations \cup {"automatic"}
      /\ opened.fate # "none"
  BY StepOwners, ScriptType
     DEF RestoreInv, DropArchive, TransactionInv, UndoSteps, Owned, ScriptOps, RestoreOperations
<1>1. UNCHANGED <<disk, backup, assurance, transaction, restoreTimer, context,
                  reading, prepared, restoreBounds>>
      /\ kept' \subseteq kept /\ opened' = [opened EXCEPT !.fate = Fate]
  BY DEF DropArchive
<1>2. /\ opened'.fate = Fate /\ opened' \in Opened
      /\ UNCHANGED <<opened.id, opened.session, opened.before, opened.wanted, opened.undone,
                     opened.edited>>
  BY <1>0, <1>1 DEF RestoreShape, Opened, Fate
<1>3. /\ restoreScript'.op = restoreScript.op /\ restoreScript'.step = "forget"
      /\ restoreScript' \in Scripts /\ Owned(restoreScript'.op, restoreScript'.step)
  <2>1. Owned(restoreScript.op, "forget") /\ "forget" \in ScriptSteps
    BY <1>0 DEF Owned, ScriptSteps, UndoSteps, RestoreOperations
  <2> QED  BY <2>1, <1>0, RestoreGoing DEF DropArchive
<1>4. WindowFiles' = WindowFiles /\ PutBack' = PutBack /\ UndoneOrReplaced' = UndoneOrReplaced
  BY <1>1, <1>2 DEF WindowFiles, PutBack, UndoneOrReplaced, Replaced
<1>5. RestoreShape'
  BY <1>0, <1>1, <1>2, <1>3 DEF RestoreShape
<1>6. ApplyInv'
  BY <1>3 DEF ApplyInv, ApplySteps
<1>7. TransactionInv'
  BY <1>0, <1>1, <1>2, <1>3, <1>4 DEF RestoreInv, TransactionInv, UndoSteps, Fate
<1>8. UndoInv'
  BY <1>2, <1>3 DEF UndoInv, Fate
<1>9. DiskInv'
  BY <1>0, <1>1, <1>2, <1>4 DEF RestoreInv, DiskInv
<1>10. FateInv'
  BY <1>0, <1>2, <1>4 DEF RestoreInv, FateInv, UndoInv, Fate
<1>11. ContextInv'
  BY <1>1, <1>2, <1>4 DEF RestoreInv, ContextInv
<1> QED  BY <1>5, <1>6, <1>7, <1>8, <1>9, <1>10, <1>11 DEF RestoreInv

(* The transaction goes after its archive.                                  *)
LEMMA ForgetStep == ASSUME RestoreInv, ForgetTransaction PROVE RestoreInv'
<1>0. RestoreShape /\ AtRestore("forget") /\ restoreTimer = 0
      /\ restoreScript.op \in RestoreOperations \cup {"automatic"}
      /\ opened.fate \in {"confirmed", "rolled_back"}
  BY StepOwners, ScriptType
     DEF RestoreInv, ForgetTransaction, TransactionInv, UndoInv, UndoSteps, Owned, ScriptOps,
         RestoreOperations
<1>1. UNCHANGED <<disk, backup, assurance, kept, restoreTimer, context, reading,
                  prepared, restoreBounds, opened>> /\ transaction' = NoTransaction
  BY DEF ForgetTransaction
<1>2. /\ restoreScript'.step \in {"", "uncontext"}
      /\ restoreScript' \in Scripts /\ Owned(restoreScript'.op, restoreScript'.step)
      /\ restoreScript'.op \in {restoreScript.op, "none"}
      /\ restoreScript.op = "automatic" => restoreTimer = 0
  <2>1. CASE restoreScript.op = "restore_apply"
    BY <2>1, <1>0, IdleScript DEF ForgetTransaction, EndRestore
  <2>2. CASE restoreScript.op # "restore_apply"
    <3>1. Owned(restoreScript.op, "uncontext") /\ "uncontext" \in ScriptSteps
      BY <2>2, <1>0 DEF Owned, ScriptSteps, RestoreOperations
    <3>2. GoRestore("uncontext", {})
      BY <2>2 DEF ForgetTransaction
    <3>3. restoreScript'.step = "uncontext" /\ restoreScript'.op = restoreScript.op
      BY <3>2, <1>0, RestoreGoing
    <3>4. restoreScript' \in Scripts /\ Owned(restoreScript'.op, restoreScript'.step)
      BY <3>1, <3>2, <1>0, RestoreGoing
    <3> QED  BY <3>3, <3>4, <1>0
  <2> QED  BY <2>1, <2>2
<1>3. NoTransaction \in Transactions
  BY Bound DEF NoTransaction, Transactions
<1>4. RestoreShape'
  BY <1>0, <1>1, <1>2, <1>3 DEF RestoreShape
<1>5. ApplyInv' /\ UndoInv' /\ TransactionInv'
  BY <1>0, <1>1, <1>2 DEF ApplyInv, UndoInv, TransactionInv, ApplySteps, UndoSteps
<1>6. DiskInv' /\ FateInv' /\ ContextInv'
  BY <1>0, <1>1 DEF RestoreInv, DiskInv, FateInv, ContextInv, WindowFiles, UndoneOrReplaced,
                    Replaced, PutBack
<1> QED  BY <1>4, <1>5, <1>6 DEF RestoreInv

(* The session goes last.                                                   *)
LEMMA ForgetSessionStep == ASSUME RestoreInv, ForgetSession PROVE RestoreInv'
<1>0. RestoreShape
  BY DEF RestoreInv
<1>1. UNCHANGED <<disk, backup, assurance, transaction, kept, restoreTimer, reading,
                  prepared, restoreBounds, opened>> /\ EndRestore /\ context' = NoSession
  BY DEF ForgetSession
<1>2. RestoreShape'
  BY <1>0, <1>1, IdleScript DEF RestoreShape, EndRestore, Sessions
<1> QED  BY <1>1, <1>2, EndStep
-----------------------------------------------------------------------------
(* No window has been opened on the first host. *)
LEMMA RestoreInitInv == RestoreInit => RestoreInv
<1> SUFFICES ASSUME RestoreInit PROVE RestoreInv
  OBVIOUS
<1>1. /\ restoreScript.op = "none" /\ restoreScript.step = "" /\ restoreScript \in Scripts
      /\ Owned(restoreScript.op, restoreScript.step)
  BY IdleScript DEF RestoreInit
<1>2. opened.fate = "none" /\ opened \in Opened
  BY Bound DEF RestoreInit, NotOpened, Opened, NothingBackedUp, FileContents, Sessions
<1>3. disk \in [RestoreFiles -> FileContents] /\ backup \in [RestoreFiles -> FileContents]
  BY DEF RestoreInit, FileContents
<1>4. transaction \in Transactions /\ transaction = NoTransaction
  BY Bound DEF RestoreInit, NoTransaction, Transactions
<1>5. /\ restoreBounds \in Counters
      /\ restoreBounds.windows <= MaxRestores
  <2>1. MaxRestores \in Nat /\ MaxRestoreTroubles \in Nat /\ MaxRestoreEdits \in Nat
    BY RestoreAssumption
  <2>2. restoreBounds = [windows |-> MaxRestores, troubles |-> MaxRestoreTroubles,
                         edits |-> MaxRestoreEdits]
    BY DEF RestoreInit
  <2> QED  BY <2>1, <2>2 DEF Counters
<1>6. RestoreShape
  BY <1>1, <1>2, <1>3, <1>4, <1>5, Bound DEF RestoreInit, RestoreShape, NoPrepared, Sessions
<1> QED
  BY <1>1, <1>2, <1>4, <1>6
     DEF RestoreInit, RestoreInv, ApplyInv, TransactionInv, DiskInv, UndoInv, FateInv, ContextInv,
         ApplySteps, UndoSteps

(* Every step of the restore keeps the invariant. *)
LEMMA RestoreNextInv == RestoreInv /\ [RestoreNext]_restoreVars => RestoreInv'
<1> SUFFICES ASSUME RestoreInv, [RestoreNext]_restoreVars PROVE RestoreInv'
  OBVIOUS
<1>1. CASE UNCHANGED restoreVars
  <2>1. RestoreShape'
    BY <1>1 DEF restoreVars, RestoreInv, RestoreShape
  <2> QED  BY <1>1, <2>1, QuietStep DEF restoreVars
<1>2. CASE RestoreRequest
  BY <1>2, TaskSteps, RecoveryStep, OtherStep DEF RestoreRequest
<1>3. CASE RestoreStep
  BY <1>3, KeepStep, RecordStep, ArmStep, WriteFileStep, ValidateStep, SessionStep, UndoFileStep,
     CancelStep, DropStep, ForgetStep, ForgetSessionStep, EditFileStep DEF RestoreStep
<1>4. CASE RestoreEnvironment
  BY <1>4, TaskSteps, ExecuteStep, RestoreTimerStep, Interrupted DEF RestoreEnvironment
<1> QED  BY <1>1, <1>2, <1>3, <1>4 DEF RestoreNext

(* The invariant holds in every behaviour.                                  *)
LEMMA RestoreInvariant == RestoreSpec => []RestoreInv
BY RestoreInitInv, RestoreNextInv, PTL DEF RestoreSpec

(* The types of the restore's state. *)
THEOREM RestoreTypesCorrect == RestoreSpec => []RestoreTypeOK
<1>1. RestoreInv => RestoreTypeOK
  BY DEF RestoreInv, RestoreShape, RestoreTypeOK, Transactions, Scripts, Opened, Sessions
<1> QED  BY <1>1, RestoreInvariant, PTL

(* As long as a window is undecided and a file is not what it was, the     *)
(* rollback archive that apply_restore wrote for it exists and the record  *)
(* names it, whatever step fails or is killed.                             *)
THEOREM OriginalsAlwaysKept == RestoreSpec => []OriginalsAreKept
<1>1. RestoreInv => OriginalsAreKept
  BY DEF RestoreInv, FateInv, TransactionInv, OriginalsAreKept, PutBack, RestoreFiles
<1> QED  BY <1>1, RestoreInvariant, PTL

(* With no transaction left, the window's files are all as before or, once *)
(* confirmed, all as in the backup.                                        *)
THEOREM RestoresWhole == RestoreSpec => []RestoreIsAllOrNothing
<1>1. RestoreInv => RestoreIsAllOrNothing
  BY DEF RestoreInv, FateInv, RestoreIsAllOrNothing, UndoneOrReplaced
<1> QED  BY <1>1, RestoreInvariant, PTL

(* Only ExecuteRestore starts a confirmation, and it compares the sessions.    *)
LEMMA ConfirmStart ==
    ASSUME RestoreInv, RestoreNext, restoreScript.op # "restore_confirm",
           restoreScript'.op = "restore_confirm"
    PROVE  restoreScript'.session # opened.session
<1>0. RestoreShape
  BY DEF RestoreInv
<1>1. CASE ExecuteRestore
  <2>1. /\ ScriptAccepts(prepared.op, prepared.session)
        /\ restoreScript'.op = prepared.op /\ restoreScript'.session = prepared.session
    BY <1>1 DEF ExecuteRestore
  <2>2. context # NoSession /\ context # prepared.session
    BY <2>1 DEF ScriptAccepts, ConfirmAllowed, MayConfirm
  <2> QED  BY <2>1, <2>2 DEF RestoreInv, ContextInv
<1>2. CASE RestoreRequest
  BY <1>2 DEF RestoreRequest, CreateBackup, VerifyBackup, DeleteBackup, PrepareRestore,
              ReadRestoreStatus, RecoveryCommand, OtherCommand, RestoreIdle
<1>3. CASE RestoreStep
  <2>1. ASSUME NEW s, NEW todo, GoRestore(s, todo) PROVE restoreScript'.op = restoreScript.op
    BY <1>0, <2>1, RestoreGoing
  <2>2. EndRestore => restoreScript'.op = "none"
    BY IdleScript DEF EndRestore
  <2> QED  BY <2>1, <2>2, <1>3
              DEF RestoreStep, KeepFiles, RecordTransaction, ArmTimer, WriteFile, ValidateFiles,
                  RecordSession, UndoFile, CancelTimer, DropArchive, ForgetTransaction,
                  ForgetSession, EditFile, RollBackNow
<1>4. CASE RestoreEnvironment /\ ~ExecuteRestore
  <2>1. EndRestore => restoreScript'.op = "none"
    BY IdleScript DEF EndRestore
  <2> QED  BY <2>1, <1>4 DEF RestoreEnvironment, RefuseRestore, AnswerRestoreStatus, TimerFires,
                             KillRestore, RebootRestore, RestoreIdle
<1> QED  BY <1>1, <1>2, <1>3, <1>4 DEF RestoreNext

(* No task of the session that opened a window confirms it: the recorded   *)
(* session (context) is that session or none, and none confirms nothing.   *)
THEOREM OnlyOthersConfirm == RestoreSpec => ConfirmedByAnother
<1>1. RestoreInv /\ [RestoreNext]_restoreVars
      => [restoreScript.op # "restore_confirm" /\ restoreScript'.op = "restore_confirm"
          => restoreScript'.session # opened.session]_restoreVars
  BY ConfirmStart
<1> QED  BY <1>1, RestoreInvariant, PTL DEF RestoreSpec, ConfirmedByAnother

(* An automatic rollback starts only from the timer of the recorded window. *)
LEMMA AutomaticStart ==
    ASSUME RestoreInv, RestoreNext, restoreScript.op # "automatic",
           restoreScript'.op = "automatic"
    PROVE  restoreTimer = transaction.id
<1>0. RestoreShape
  BY DEF RestoreInv
<1>1. CASE TimerFires
  BY <1>1 DEF TimerFires, RestoreInv, TransactionInv
<1>2. CASE ExecuteRestore
  <2>1. prepared.op # "automatic"
    BY <1>0, <1>2 DEF ExecuteRestore, RestoreShape, RestoreOperations
  <2>2. restoreScript' = restoreScript \/ restoreScript'.op = prepared.op
    BY <1>2 DEF ExecuteRestore
  <2> QED  BY <2>1, <2>2
<1>3. CASE RestoreRequest
  BY <1>3 DEF RestoreRequest, CreateBackup, VerifyBackup, DeleteBackup, PrepareRestore,
              ReadRestoreStatus, RecoveryCommand, OtherCommand, RestoreIdle
<1>4. CASE RestoreStep
  <2>1. ASSUME NEW s, NEW todo, GoRestore(s, todo) PROVE restoreScript'.op = restoreScript.op
    BY <1>0, <2>1, RestoreGoing
  <2>2. EndRestore => restoreScript'.op = "none"
    BY IdleScript DEF EndRestore
  <2> QED  BY <2>1, <2>2, <1>4
              DEF RestoreStep, KeepFiles, RecordTransaction, ArmTimer, WriteFile, ValidateFiles,
                  RecordSession, UndoFile, CancelTimer, DropArchive, ForgetTransaction,
                  ForgetSession, EditFile, RollBackNow
<1>5. CASE RefuseRestore \/ AnswerRestoreStatus \/ KillRestore \/ RebootRestore
  BY <1>5, IdleScript DEF RefuseRestore, AnswerRestoreStatus, KillRestore, RebootRestore, EndRestore
<1> QED  BY <1>1, <1>2, <1>3, <1>4, <1>5 DEF RestoreNext, RestoreEnvironment

(* A timer that outlived its window rolls back no later one: every way out *)
(* of a window cancels its timer before the record goes.                   *)
THEOREM TimersKeepToTheirWindow == RestoreSpec => TimerKnowsItsWindow
<1>1. RestoreInv /\ [RestoreNext]_restoreVars
      => [restoreScript'.op = "automatic" /\ restoreScript.op # "automatic"
          => restoreTimer = transaction.id]_restoreVars
  BY AutomaticStart
<1> QED  BY <1>1, RestoreInvariant, PTL DEF RestoreSpec, TimerKnowsItsWindow
-----------------------------------------------------------------------------
(* The exit resolvers                                                      *)

USE DEF dnsVars, dnsUnits, dnsXray, dnsHistory, AtDns

ExitVersions == 0..MaxExitVersion + 1

(* An exit routed through its worker has one, running now and enabled for   *)
(* the next boot; what has no file is neither enabled nor running.          *)
Serves(file, enabled, runs, xray, running) ==
    /\ \A e \in DnsExits : file[e] = 0 => e \notin enabled /\ runs[e] = 0
    /\ \A e \in xray : e \in enabled /\ file[e] > 0
    /\ running.on => running.via = xray /\ \A e \in xray : runs[e] > 0

BeforeServes ==
    Serves(dnsBefore.file, dnsBefore.enabled, dnsBefore.runs, dnsBefore.xray,
           dnsBefore.xrayRuns)

HostServes == Serves(workerFile, workerEnabled, workerRuns, xrayFile, xrayRuns)

Untouched(e) ==
    /\ workerFile[e] = dnsBefore.file[e]
    /\ e \in workerEnabled <=> e \in dnsBefore.enabled
    /\ workerRuns[e] = dnsBefore.runs[e]

XrayUntouched == xrayFile = dnsBefore.xray /\ xrayRuns = dnsBefore.xrayRuns

(* A worker is back when it runs what it ran, or what its file says. *)
BackUp(e) ==
    \/ workerRuns[e] = dnsBefore.runs[e]
    \/ /\ dnsBefore.runs[e] \notin {0, dnsBefore.file[e]}
       /\ workerRuns[e] = dnsBefore.file[e] /\ workerRuns[e] > 0

StartingWorkers == refresh.step \in {"worker", "start"}

SwitchingXray == refresh.step \in {"compare", "activate", "restart", "commit"}

(* The step and the phase of the manifest go together. *)
PhaseInv ==
    /\ AtDns("prepare") => manifest.phase = "none"
    /\ AtDns("apply") => manifest.phase = "prepared"
    /\ StartingWorkers \/ SwitchingXray \/ refresh.step \in {"undo_new", "undo_files", "undo_units"}
       => manifest.phase = "applying"
    /\ AtDns("undo_xray") => manifest.phase \in {"none", "applying"}
    /\ AtDns("undo_choice") => manifest.phase \in {"none", "applying", "rolled-back"}

StepInv ==
    /\ StartingWorkers => refresh.todo \subseteq manifest.desired
    /\ AtDns("commit") => refresh.todo \subseteq manifest.old \ manifest.desired
    /\ AtDns("undo_new") => refresh.todo \subseteq manifest.desired \ manifest.old
    /\ refresh.step \in {"undo_files", "undo_units"} => refresh.todo \subseteq manifest.old

DnsPhases == {"none", "prepared", "applying", "committed", "rolled-back"}

DnsSteps == {"none", "prepare", "apply", "worker", "start", "compare", "activate", "restart",
          "commit", "undo_xray", "undo_new", "undo_files", "undo_units", "undo_choice"}

XrayRunStates == [on : BOOLEAN, via : SUBSET DnsExits]

Manifests ==
    [phase : DnsPhases, desired : SUBSET DnsExits, old : SUBSET DnsExits,
     files : {<<>>} \cup [DnsExits -> ExitVersions], active : SUBSET DnsExits,
     enabled : SUBSET DnsExits, changed : SUBSET DnsExits]

Refreshes ==
    [step : DnsSteps, todo : SUBSET DnsExits, candidate : SUBSET DnsExits,
     written : {""} \cup DnsExits, restart : BOOLEAN, activated : BOOLEAN]

WorkerStates ==
    [chosen : SUBSET DnsExits, file : [DnsExits -> ExitVersions], enabled : SUBSET DnsExits,
     runs : [DnsExits -> ExitVersions], xray : SUBSET DnsExits, xrayRuns : XrayRunStates]

DnsShape ==
    /\ exitVersion \in [DnsExits -> ExitVersions]
    /\ workerFile \in [DnsExits -> ExitVersions] /\ workerRuns \in [DnsExits -> ExitVersions]
    /\ dnsChosen \subseteq DnsExits /\ workerEnabled \subseteq DnsExits
    /\ xrayFile \subseteq DnsExits /\ xrayRuns \in XrayRunStates
    /\ manifest \in Manifests /\ refresh \in Refreshes /\ dnsBefore \in WorkerStates
    /\ manifest.changed \subseteq manifest.desired
    /\ manifest.phase # "none" => manifest.files \in [DnsExits -> ExitVersions]

DnsTypeInv == DnsShape /\ PhaseInv /\ StepInv

(* What the manifest records of the workers is what was there before. *)
ManifestInv ==
    ~AtDns("none") /\ manifest.phase # "none" =>
        /\ manifest.old = {e \in DnsExits : dnsBefore.file[e] > 0}
        /\ manifest.files = dnsBefore.file
        /\ manifest.active = {e \in manifest.old : dnsBefore.runs[e] > 0}
        /\ manifest.enabled = manifest.old \cap dnsBefore.enabled
        /\ manifest.phase = "prepared" => manifest.changed = {}
        /\ \A e \in manifest.desired : exitVersion[e] > 0
        /\ refresh.candidate = manifest.desired \/ Undoing

(* What a refresh has done so far to one worker. *)
WorkerInv(e) ==
    /\ e \notin manifest.desired \cup manifest.old => Untouched(e)
    /\ e \in manifest.desired \ manifest.changed =>
          /\ workerFile[e] = dnsBefore.file[e]
          /\ dnsBefore.runs[e] > 0 => workerRuns[e] = dnsBefore.runs[e]
    /\ StartingWorkers \/ refresh.step \in {"compare", "activate", "restart"} =>
          /\ e \in manifest.old \ manifest.desired => Untouched(e)
          /\ workerFile[e] = 0 => e \notin workerEnabled /\ workerRuns[e] = 0
          /\ dnsBefore.file[e] > 0 => workerFile[e] > 0
          /\ e \in dnsBefore.enabled => e \in workerEnabled
    /\ StartingWorkers =>
          /\ e \in manifest.desired \ refresh.todo =>
                workerFile[e] = exitVersion[e] /\ e \in workerEnabled
          /\ e \in refresh.todo => workerRuns[e] = dnsBefore.runs[e]
          /\ e \in refresh.todo \cap manifest.changed =>
                AtDns("start") /\ e = refresh.written
          /\ AtDns("start") /\ e = refresh.written =>
                /\ e \in refresh.todo \cap manifest.changed
                /\ workerFile[e] = exitVersion[e] /\ workerFile[e] > 0
    /\ SwitchingXray /\ e \in manifest.desired =>
          workerFile[e] > 0 /\ e \in workerEnabled /\ workerRuns[e] > 0
    /\ AtDns("commit") /\ workerFile[e] = 0 =>
          e \notin workerEnabled /\ workerRuns[e] = 0

DnsUndoInv(e) ==
    /\ AtDns("undo_new") /\ e \in (manifest.desired \ manifest.old) \ refresh.todo => Untouched(e)
    /\ refresh.step \in {"undo_files", "undo_units"} /\ e \notin manifest.old => Untouched(e)
    /\ AtDns("undo_files") /\ e \in manifest.old \ refresh.todo =>
          workerFile[e] = dnsBefore.file[e]
    /\ AtDns("undo_units") => workerFile[e] = dnsBefore.file[e]
    /\ AtDns("undo_units") /\ e \in manifest.old \ refresh.todo =>
          (e \in workerEnabled <=> e \in dnsBefore.enabled) /\ BackUp(e)
    /\ AtDns("undo_choice") /\ manifest.phase = "rolled-back" =>
          /\ workerFile[e] = dnsBefore.file[e]
          /\ e \in workerEnabled <=> e \in dnsBefore.enabled
          /\ BackUp(e)

(* Nothing is touched before the manifest is. *)
FreshInv == manifest.phase \in {"none", "prepared"} => \A e \in DnsExits : Untouched(e)

(* What a refresh has done so far to Xray. *)
XrayInv ==
    /\ ~refresh.activated \/ AtDns("activate") => XrayUntouched
    /\ refresh.activated =>
          /\ refresh.restart = dnsBefore.xrayRuns.on
          /\ ~refresh.restart => xrayRuns = dnsBefore.xrayRuns
    /\ AtDns("restart") => xrayRuns = dnsBefore.xrayRuns
    /\ refresh.step \in {"prepare", "apply", "worker", "start", "compare"} => ~refresh.activated
    /\ refresh.step \in {"activate", "restart"} => refresh.activated
    /\ refresh.step \in {"undo_new", "undo_files", "undo_units", "undo_choice"} => XrayUntouched
    /\ AtDns("restart") \/ AtDns("commit") => xrayFile = manifest.desired
    /\ AtDns("commit") /\ xrayRuns.on => xrayRuns.via = manifest.desired

SafeInv ==
    dnsOutcome # "broken" =>
        /\ AtDns("none") => HostServes
        /\ ~AtDns("none") =>
              /\ BeforeServes
              /\ ManifestInv /\ FreshInv /\ XrayInv
              /\ manifest.phase # "none" => \A e \in DnsExits : WorkerInv(e) /\ DnsUndoInv(e)

DnsInv == DnsTypeInv /\ SafeInv /\ UndoneIsAsBefore
-----------------------------------------------------------------------------
(* What the steps of the shell do to its local variables and the manifest. *)
LEMMA DnsGoing ==
    ASSUME DnsShape, NEW s, NEW todo, GoDns(s, todo)
    PROVE  /\ refresh'.step = s /\ refresh'.todo = todo
           /\ UNCHANGED <<refresh.candidate, refresh.written, refresh.restart,
                          refresh.activated>>
           /\ s \in DnsSteps /\ todo \subseteq DnsExits => refresh' \in Refreshes
BY DEF DnsShape, GoDns, Refreshes

(* The resting shell has done nothing. *)
LEMMA Resting == NoRefresh \in Refreshes /\ NoManifest \in Manifests
BY DEF NoRefresh, NoManifest, Refreshes, Manifests, DnsSteps, DnsPhases

(* What is saved when a refresh begins is a state of the host. *)
LEMMA SavedWorkers ==
    ASSUME DnsShape
    PROVE  /\ DnsState \in WorkerStates
           /\ DnsState.file = workerFile /\ DnsState.enabled = workerEnabled
           /\ DnsState.runs = workerRuns /\ DnsState.xray = xrayFile
           /\ DnsState.xrayRuns = xrayRuns /\ DnsState.chosen = dnsChosen
BY DEF DnsShape, DnsState, WorkerStates

(* A refresh begins from a host that serves, and remembers it.              *)
LEMMA BeginStep == ASSUME DnsInv, BeginRefresh PROVE DnsInv'
<1>1. /\ refresh'.step = "prepare" /\ refresh'.todo = {} /\ ~refresh'.activated
      /\ refresh' \in Refreshes
  BY DEF BeginRefresh, NoRefresh, Refreshes, DnsSteps
<1>2. /\ manifest'.phase = "none" /\ manifest'.changed = {} /\ manifest'.desired = {}
      /\ manifest' \in Manifests
  BY DEF BeginRefresh, NoManifest, Manifests, DnsPhases
<1>3. DnsShape
  BY DEF DnsInv, DnsTypeInv
<1>4. /\ dnsBefore' \in WorkerStates /\ dnsBefore'.file = workerFile
      /\ dnsBefore'.enabled = workerEnabled /\ dnsBefore'.runs = workerRuns
      /\ dnsBefore'.xray = xrayFile /\ dnsBefore'.xrayRuns = xrayRuns
  BY <1>3, SavedWorkers DEF BeginRefresh
<1>5. dnsChosen' \subseteq DnsExits
  <2>1. PICK ids \in (SUBSET {e \in DnsExits : exitVersion[e] > 0}) \cup {dnsChosen} :
               dnsChosen' = ids
    BY DEF BeginRefresh
  <2>2. dnsChosen \subseteq DnsExits
    BY <1>3 DEF DnsShape
  <2>3. ids \subseteq DnsExits
    BY <2>1, <2>2
  <2> QED  BY <2>1, <2>3
<1>6. UNCHANGED <<exitVersion, workerFile, workerEnabled, workerRuns, xrayFile, xrayRuns>>
  BY DEF BeginRefresh
<1>7. DnsTypeInv'
  BY <1>1, <1>2, <1>3, <1>4, <1>5, <1>6
     DEF DnsTypeInv, DnsShape, PhaseInv, StepInv, StartingWorkers, SwitchingXray
<1>8. SafeInv'
  <2>1. dnsOutcome' # "broken" => HostServes
    BY DEF BeginRefresh, DnsInv, SafeInv
  <2>2. dnsOutcome' # "broken" => BeforeServes'
    BY <2>1, <1>4 DEF HostServes, BeforeServes, Serves
  <2>3. ManifestInv' /\ FreshInv' /\ XrayInv'
    BY <1>1, <1>2, <1>4, <1>6
       DEF ManifestInv, FreshInv, XrayInv, Untouched, XrayUntouched
  <2> QED  BY <2>2, <2>3, <1>1, <1>2 DEF SafeInv
<1>9. UndoneIsAsBefore'
  BY <1>1 DEF UndoneIsAsBefore
<1> QED  BY <1>7, <1>8, <1>9 DEF DnsInv

(* The state that is saved is that of the host as it is.                    *)
LEMMA PrepareStep == ASSUME DnsInv, PrepareWorkers PROVE DnsInv'
<1>0. DnsShape /\ AtDns("prepare") /\ manifest.phase = "none"
  BY DEF DnsInv, DnsTypeInv, PhaseInv, PrepareWorkers
<1>1. UNCHANGED <<exitVersion, workerFile, workerEnabled, workerRuns, xrayFile, xrayRuns,
                  dnsBefore, dnsOutcome>> /\ UNCHANGED dnsChosen
  BY DEF PrepareWorkers
<1>2. dnsOutcome # "broken" =>
        BeforeServes /\ ManifestInv /\ FreshInv /\ XrayInv
  BY <1>0 DEF DnsInv, SafeInv
<1>3. CASE FailDns /\ UNCHANGED manifest
  <2>1. /\ refresh'.step = "undo_xray" /\ refresh'.todo = {}
        /\ refresh'.activated = refresh.activated /\ refresh' \in Refreshes
    BY <1>0, <1>3, DnsGoing DEF FailDns, DnsSteps
  <2>2. DnsTypeInv'
    BY <2>1, <1>0, <1>1, <1>3
       DEF DnsTypeInv, DnsShape, PhaseInv, StepInv, StartingWorkers, SwitchingXray
  <2>3. dnsOutcome' # "broken" =>
          BeforeServes' /\ ManifestInv' /\ FreshInv' /\ XrayInv'
    BY <2>1, <1>0, <1>1, <1>2, <1>3
       DEF BeforeServes, ManifestInv, FreshInv, XrayInv, Untouched, XrayUntouched
  <2> QED  BY <2>1, <2>2, <2>3, <1>0, <1>3 DEF DnsInv, SafeInv, UndoneIsAsBefore
<1>4. CASE manifest' =
               [phase |-> "prepared", desired |-> WantedWorkers, old |-> ExistingWorkers,
                files |-> workerFile,
                active |-> {e \in ExistingWorkers : workerRuns[e] > 0},
                enabled |-> ExistingWorkers \cap workerEnabled, changed |-> {}]
          /\ refresh' = [refresh EXCEPT !.step = "apply", !.candidate = CandidateRoutes]
  <2>1. /\ refresh'.step = "apply" /\ refresh'.candidate = WantedWorkers
        /\ refresh'.activated = refresh.activated
        /\ refresh'.restart = refresh.restart /\ refresh' \in Refreshes
    BY <1>0, <1>4 DEF DnsShape, Refreshes, DnsSteps, CandidateRoutes, WantedWorkers
  <2>2. /\ manifest'.phase = "prepared" /\ manifest'.desired = WantedWorkers
        /\ manifest'.old = ExistingWorkers /\ manifest'.files = workerFile
        /\ manifest'.active = {e \in ExistingWorkers : workerRuns[e] > 0}
        /\ manifest'.enabled = ExistingWorkers \cap workerEnabled /\ manifest'.changed = {}
        /\ manifest' \in Manifests
    BY <1>0, <1>4 DEF DnsShape, Manifests, DnsPhases, WantedWorkers, ExistingWorkers
  <2>3. DnsTypeInv'
    BY <2>1, <2>2, <1>0, <1>1
       DEF DnsTypeInv, DnsShape, PhaseInv, StepInv, StartingWorkers, SwitchingXray
  <2>4. dnsOutcome' # "broken" => \A e \in DnsExits : Untouched(e)
    BY <1>0, <1>1, <1>2 DEF FreshInv
  <2>5. dnsOutcome' # "broken" => ManifestInv'
    BY <2>1, <2>2, <2>4, <1>0, <1>1 DEF ManifestInv, Untouched, WantedWorkers, ExistingWorkers, DnsShape, WorkerStates
  <2>6. dnsOutcome' # "broken" => BeforeServes' /\ FreshInv' /\ XrayInv'
    BY <2>1, <2>2, <2>4, <1>0, <1>1, <1>2
       DEF BeforeServes, FreshInv, XrayInv, Untouched, XrayUntouched
  <2>7. ASSUME NEW e \in DnsExits PROVE dnsOutcome' # "broken" => WorkerInv(e)' /\ DnsUndoInv(e)'
    BY <2>1, <2>2, <2>4, <1>1 DEF WorkerInv, DnsUndoInv, Untouched, StartingWorkers, SwitchingXray
  <2> QED  BY <2>1, <2>3, <2>5, <2>6, <2>7 DEF DnsInv, SafeInv, UndoneIsAsBefore
<1> QED  BY <1>3, <1>4 DEF PrepareWorkers

(* What the invariant says in the middle of a refresh. *)
LEMMA Midway ==
    ASSUME DnsInv, ~AtDns("none")
    PROVE  /\ DnsShape /\ PhaseInv /\ StepInv
           /\ dnsOutcome # "broken" =>
                 BeforeServes /\ ManifestInv /\ FreshInv /\ XrayInv
           /\ dnsOutcome # "broken" /\ manifest.phase # "none" =>
                 \A e \in DnsExits : WorkerInv(e) /\ DnsUndoInv(e)
BY DEF DnsInv, DnsTypeInv, SafeInv

(* From here an undo restores what was saved.                               *)
LEMMA ApplyStep == ASSUME DnsInv, ApplyWorkers PROVE DnsInv'
<1>0. AtDns("apply") /\ DnsShape /\ PhaseInv /\ manifest.phase = "prepared"
  BY Midway DEF ApplyWorkers, PhaseInv
<1>1. UNCHANGED <<exitVersion, dnsChosen, workerFile, workerEnabled, workerRuns, xrayFile,
                  xrayRuns, dnsBefore, dnsOutcome>>
  BY DEF ApplyWorkers
<1>2. /\ refresh'.step = "worker" /\ refresh'.todo = manifest.desired
      /\ UNCHANGED <<refresh.candidate, refresh.written, refresh.restart, refresh.activated>>
      /\ refresh' \in Refreshes
  BY <1>0, DnsGoing DEF ApplyWorkers, DnsSteps, DnsShape, Manifests
<1>3. /\ manifest'.phase = "applying" /\ manifest' \in Manifests
      /\ UNCHANGED <<manifest.desired, manifest.old, manifest.files, manifest.active,
                     manifest.enabled, manifest.changed>>
  BY <1>0 DEF ApplyWorkers, DnsShape, Manifests, DnsPhases
<1>4. DnsTypeInv'
  BY <1>0, <1>1, <1>2, <1>3 DEF DnsTypeInv, DnsShape, PhaseInv, StepInv, StartingWorkers, SwitchingXray
<1>5. ASSUME dnsOutcome # "broken"
      PROVE  /\ BeforeServes' /\ ManifestInv' /\ FreshInv' /\ XrayInv'
             /\ \A e \in DnsExits : WorkerInv(e)' /\ DnsUndoInv(e)'
  <2>1. BeforeServes /\ ManifestInv /\ FreshInv /\ XrayInv
    BY <1>0, <1>5, Midway
  <2>2. manifest.changed = {} /\ \A e \in DnsExits : Untouched(e)
    BY <2>1, <1>0 DEF ManifestInv, FreshInv
  <2>3. BeforeServes' /\ ManifestInv' /\ FreshInv'
    BY <2>1, <1>0, <1>1, <1>2, <1>3
       DEF BeforeServes, ManifestInv, FreshInv, Undoing
  <2>4. XrayInv'
    BY <2>1, <1>0, <1>1, <1>2, <1>3 DEF XrayInv, XrayUntouched
  <2>5. ASSUME NEW e \in DnsExits PROVE WorkerInv(e)' /\ DnsUndoInv(e)'
    <3>1. Untouched(e) /\ Untouched(e)'
      BY <2>2, <1>1 DEF Untouched
    <3>2. workerFile[e] = 0 => e \notin workerEnabled /\ workerRuns[e] = 0
      BY <3>1, <2>1 DEF BeforeServes, Serves, Untouched
    <3> QED  BY <3>1, <3>2, <2>2, <1>0, <1>1, <1>2, <1>3
                DEF WorkerInv, DnsUndoInv, Untouched, StartingWorkers, SwitchingXray
  <2> QED  BY <2>3, <2>4, <2>5
<1> QED  BY <1>2, <1>4, <1>5, <1>1 DEF DnsInv, SafeInv, UndoneIsAsBefore

(* A file is written with its old content saved; nothing runs on it yet.    *)
LEMMA WriteWorkerStep == ASSUME DnsInv, WriteWorker PROVE DnsInv'
<1>1. PICK w \in refresh.todo :
         /\ workerFile[w] # exitVersion[w]
         /\ manifest' = MarkChanged(w)
         /\ workerFile' = [workerFile EXCEPT ![w] = exitVersion[w]]
         /\ refresh' = [refresh EXCEPT !.step = "start", !.written = w]
  BY DEF WriteWorker
<1>0. AtDns("worker") /\ DnsShape /\ PhaseInv /\ StepInv /\ manifest.phase = "applying"
  BY Midway DEF WriteWorker, PhaseInv, StartingWorkers
<1>2. w \in DnsExits /\ w \in manifest.desired
  BY <1>0 DEF StepInv, StartingWorkers, DnsShape, Manifests
<1>3. UNCHANGED <<exitVersion, dnsChosen, workerEnabled, workerRuns, xrayFile,
                  xrayRuns, dnsBefore, dnsOutcome>>
  BY DEF WriteWorker
<1>4. /\ refresh'.step = "start" /\ refresh'.written = w
      /\ UNCHANGED <<refresh.todo, refresh.candidate, refresh.restart, refresh.activated>>
      /\ refresh' \in Refreshes
  BY <1>0, <1>1, <1>2 DEF DnsSteps, DnsShape, Refreshes
<1>5. /\ manifest'.changed = manifest.changed \cup {w} /\ manifest' \in Manifests
      /\ UNCHANGED <<manifest.desired, manifest.old, manifest.files, manifest.active,
                     manifest.enabled, manifest.phase>>
  BY <1>0, <1>1, <1>2 DEF MarkChanged, DnsShape, Manifests
<1>6. /\ workerFile' \in [DnsExits -> ExitVersions] /\ workerFile'[w] = exitVersion[w]
      /\ \A e \in DnsExits \ {w} : workerFile'[e] = workerFile[e]
  BY <1>0, <1>1, <1>2 DEF DnsShape
<1>7. DnsTypeInv'
  BY <1>0, <1>2, <1>3, <1>4, <1>5, <1>6
     DEF DnsTypeInv, DnsShape, PhaseInv, StepInv, StartingWorkers, SwitchingXray
<1>8. ASSUME dnsOutcome # "broken"
      PROVE  /\ BeforeServes' /\ ManifestInv' /\ FreshInv' /\ XrayInv'
             /\ \A e \in DnsExits : WorkerInv(e)' /\ DnsUndoInv(e)'
  <2>1. BeforeServes /\ ManifestInv /\ FreshInv /\ XrayInv
    BY <1>0, <1>8, Midway
  <2>2. BeforeServes' /\ ManifestInv' /\ FreshInv'
    BY <2>1, <1>0, <1>3, <1>4, <1>5
       DEF BeforeServes, ManifestInv, FreshInv, Undoing
  <2>3. XrayInv'
    BY <2>1, <1>0, <1>3, <1>4, <1>5 DEF XrayInv, XrayUntouched
  <2>4. exitVersion[w] > 0
    BY <2>1, <1>0, <1>2 DEF ManifestInv
  <2>5. ASSUME NEW e \in DnsExits PROVE WorkerInv(e)' /\ DnsUndoInv(e)'
    <3>1. WorkerInv(e) /\ DnsUndoInv(e)
      BY <1>0, <1>8, Midway
    <3>2. CASE e # w
      BY <3>1, <3>2, <1>0, <1>2, <1>3, <1>4, <1>5, <1>6
         DEF WorkerInv, DnsUndoInv, Untouched, StartingWorkers, SwitchingXray
    <3>3. CASE e = w
      BY <3>1, <3>3, <2>4, <1>0, <1>2, <1>3, <1>4, <1>5, <1>6
         DEF WorkerInv, DnsUndoInv, Untouched, StartingWorkers, SwitchingXray
    <3> QED  BY <3>2, <3>3
  <2> QED  BY <2>2, <2>3, <2>5
<1> QED  BY <1>3, <1>4, <1>7, <1>8 DEF DnsInv, SafeInv, UndoneIsAsBefore

(* A worker runs on the file that was written for it.                       *)
LEMMA StartStep == ASSUME DnsInv, StartWorker PROVE DnsInv'
<1>1. PICK w \in refresh.todo :
         /\ \/ AtDns("start") /\ w = refresh.written
            \/ AtDns("worker") /\ workerFile[w] = exitVersion[w]
         /\ workerEnabled' = workerEnabled \cup {w}
         /\ \/ /\ workerRuns' = IF AtDns("start") THEN Restarted(w)
                                ELSE StartedIfStopped(w)
               /\ GoDns("worker", refresh.todo \ {w})
            \/ /\ AtDns("start")
               /\ workerRuns' = [workerRuns EXCEPT ![w] = 0]
               /\ \/ GoDns("worker", refresh.todo \ {w})
                  \/ GoDns("undo_xray", {})
  BY DEF StartWorker, FailDns
<1>0. StartingWorkers /\ ~AtDns("none") /\ DnsShape /\ PhaseInv /\ StepInv /\ manifest.phase = "applying"
  BY <1>1, Midway DEF PhaseInv, StartingWorkers
<1>2. w \in DnsExits /\ w \in manifest.desired /\ refresh.todo \subseteq DnsExits
  BY <1>0 DEF StepInv, DnsShape, Manifests, Refreshes
<1>3. UNCHANGED <<exitVersion, dnsChosen, workerFile, xrayFile, xrayRuns, manifest,
                  dnsBefore, dnsOutcome>>
  BY DEF StartWorker
<1>4. /\ \/ refresh'.step = "worker" /\ refresh'.todo = refresh.todo \ {w}
         \/ AtDns("start") /\ workerRuns'[w] = 0 /\ refresh'.step = "undo_xray" /\ refresh'.todo = {}
      /\ UNCHANGED <<refresh.written, refresh.candidate, refresh.restart, refresh.activated>>
      /\ refresh' \in Refreshes
  <2>1. /\ \/ refresh'.step = "worker" /\ refresh'.todo = refresh.todo \ {w}
           \/ refresh'.step = "undo_xray" /\ refresh'.todo = {}
        /\ UNCHANGED <<refresh.written, refresh.candidate, refresh.restart, refresh.activated>>
        /\ refresh' \in Refreshes
    BY <1>0, <1>1, <1>2, DnsGoing DEF DnsSteps
  <2>2. refresh'.step = "undo_xray" => AtDns("start") /\ workerRuns' = [workerRuns EXCEPT ![w] = 0]
    BY <1>0, <1>1, DnsGoing
  <2> QED  BY <2>1, <2>2, <1>0, <1>2 DEF DnsShape
<1>5. /\ workerRuns' \in [DnsExits -> ExitVersions]
      /\ \A e \in DnsExits \ {w} : workerRuns'[e] = workerRuns[e]
      /\ \/ AtDns("start") /\ w = refresh.written /\ workerRuns'[w] \in {0, workerFile[w]}
         \/ /\ AtDns("worker") /\ workerFile[w] = exitVersion[w]
            /\ workerRuns'[w] = IF workerRuns[w] = 0 THEN workerFile[w] ELSE workerRuns[w]
  <2>1. PICK v : workerRuns' = [workerRuns EXCEPT ![w] = v]
                 /\ \/ AtDns("start") /\ w = refresh.written /\ v \in {0, workerFile[w]}
                    \/ /\ AtDns("worker") /\ workerFile[w] = exitVersion[w]
                       /\ v = IF workerRuns[w] = 0 THEN workerFile[w] ELSE workerRuns[w]
    <3>1. CASE AtDns("start")
      BY <3>1, <1>1 DEF Restarted
    <3>2. CASE ~AtDns("start")
      BY <3>2, <1>1 DEF StartedIfStopped
    <3> QED  BY <3>1, <3>2
  <2>2. 0 \in ExitVersions /\ workerRuns \in [DnsExits -> ExitVersions] /\ workerFile[w] \in ExitVersions
        /\ workerRuns[w] \in ExitVersions
    BY <1>0, <1>2, ExitDnsAssumption DEF DnsShape, ExitVersions
  <2>3. v \in ExitVersions
    BY <2>1, <2>2
  <2> QED  BY <2>1, <2>2, <2>3, <1>2
<1>6. workerEnabled' = workerEnabled \cup {w}
  BY <1>1
<1>7. DnsTypeInv'
  BY <1>0, <1>2, <1>3, <1>4, <1>5, <1>6
     DEF DnsTypeInv, DnsShape, PhaseInv, StepInv, StartingWorkers, SwitchingXray
<1>8. ASSUME dnsOutcome # "broken"
      PROVE  /\ BeforeServes' /\ ManifestInv' /\ FreshInv' /\ XrayInv'
             /\ \A e \in DnsExits : WorkerInv(e)' /\ DnsUndoInv(e)'
  <2>1. BeforeServes /\ ManifestInv /\ FreshInv /\ XrayInv
    BY <1>0, <1>8, Midway
  <2>2. BeforeServes' /\ ManifestInv' /\ FreshInv'
    <3>1. refresh'.candidate = refresh.candidate /\ ~Undoing /\ refresh'.step # "none"
      BY <1>0, <1>4 DEF Undoing, StartingWorkers
    <3> QED  BY <2>1, <3>1, <1>0, <1>3 DEF BeforeServes, ManifestInv, FreshInv
  <2>3. XrayInv'
    BY <2>1, <1>0, <1>3, <1>4 DEF XrayInv, XrayUntouched, StartingWorkers
  <2>4. exitVersion[w] > 0
    BY <2>1, <1>0, <1>2 DEF ManifestInv
  <2>5. ASSUME NEW e \in DnsExits PROVE WorkerInv(e)' /\ DnsUndoInv(e)'
    <3>1. WorkerInv(e) /\ DnsUndoInv(e)
      BY <1>0, <1>8, Midway
    <3>2. CASE e # w
      BY <3>1, <3>2, <1>0, <1>2, <1>3, <1>4, <1>5, <1>6
         DEF WorkerInv, DnsUndoInv, Untouched, StartingWorkers, SwitchingXray
    <3>3. CASE e = w
      BY <3>1, <3>3, <2>4, <1>0, <1>2, <1>3, <1>4, <1>5, <1>6
         DEF WorkerInv, DnsUndoInv, Untouched, StartingWorkers, SwitchingXray
    <3> QED  BY <3>2, <3>3
  <2> QED  BY <2>2, <2>3, <2>5
<1> QED  BY <1>3, <1>4, <1>7, <1>8 DEF DnsInv, SafeInv, UndoneIsAsBefore

(* All workers are up before Xray looks at them.                            *)
LEMMA ProbeStep == ASSUME DnsInv, ProbeWorkers PROVE DnsInv'
<1>0. /\ AtDns("worker") /\ refresh.todo = {} /\ DnsShape /\ PhaseInv
      /\ manifest.phase = "applying"
  BY Midway DEF ProbeWorkers, PhaseInv, StartingWorkers
<1>1. UNCHANGED <<exitVersion, dnsChosen, workerFile, workerEnabled, workerRuns, xrayFile,
                  xrayRuns, manifest, dnsBefore, dnsOutcome>>
  BY DEF ProbeWorkers
<1>2. /\ refresh'.step \in {"compare", "undo_xray"} /\ refresh'.todo = {}
      /\ refresh'.step = "compare" => AllAnswer
      /\ UNCHANGED <<refresh.candidate, refresh.written, refresh.restart, refresh.activated>>
      /\ refresh' \in Refreshes
  BY <1>0, DnsGoing DEF ProbeWorkers, FailDns, DnsSteps
<1>3. DnsTypeInv'
  BY <1>0, <1>1, <1>2 DEF DnsTypeInv, DnsShape, PhaseInv, StepInv, StartingWorkers, SwitchingXray
<1>4. ASSUME dnsOutcome # "broken"
      PROVE  /\ BeforeServes' /\ ManifestInv' /\ FreshInv' /\ XrayInv'
             /\ \A e \in DnsExits : WorkerInv(e)' /\ DnsUndoInv(e)'
  <2>1. BeforeServes /\ ManifestInv /\ FreshInv /\ XrayInv
    BY <1>0, <1>4, Midway
  <2>2. BeforeServes' /\ ManifestInv' /\ FreshInv'
    BY <2>1, <1>0, <1>1, <1>2
       DEF BeforeServes, ManifestInv, FreshInv, Undoing
  <2>3. XrayInv'
    BY <2>1, <1>0, <1>1, <1>2 DEF XrayInv, XrayUntouched
  <2>4. ASSUME NEW e \in DnsExits PROVE WorkerInv(e)' /\ DnsUndoInv(e)'
    <3>1. WorkerInv(e) /\ (e \in manifest.desired => exitVersion[e] > 0)
      BY <1>0, <1>4, <2>1, Midway DEF ManifestInv
    <3> QED  BY <3>1, <1>0, <1>1, <1>2
                DEF WorkerInv, DnsUndoInv, Untouched, StartingWorkers, SwitchingXray, AllAnswer
  <2> QED  BY <2>2, <2>3, <2>4
<1> QED  BY <1>1, <1>2, <1>3, <1>4 DEF DnsInv, SafeInv, UndoneIsAsBefore

(* Xray needs a restart only if its file is to change.                      *)
LEMMA CompareStep == ASSUME DnsInv, CompareXray PROVE DnsInv'
<1>0. AtDns("compare") /\ DnsShape /\ PhaseInv /\ manifest.phase = "applying"
  BY Midway DEF CompareXray, PhaseInv, SwitchingXray
<1>1. UNCHANGED <<exitVersion, dnsChosen, workerFile, workerEnabled, workerRuns, xrayFile,
                  xrayRuns, manifest, dnsBefore, dnsOutcome>>
  BY DEF CompareXray
<1>2. /\ \/ /\ refresh'.step = "commit" /\ refresh.candidate = xrayFile
            /\ refresh'.todo = manifest.old \ manifest.desired
            /\ UNCHANGED <<refresh.restart, refresh.activated>>
         \/ /\ refresh'.step = "activate" /\ refresh'.restart = xrayRuns.on
            /\ refresh'.activated /\ UNCHANGED refresh.todo
      /\ UNCHANGED refresh.candidate /\ refresh' \in Refreshes
  <2>1. CASE refresh.candidate = xrayFile
    BY <2>1, <1>0 DEF CompareXray, DnsShape, Refreshes, DnsSteps, Manifests
  <2>2. CASE refresh.candidate # xrayFile
    BY <2>2, <1>0 DEF CompareXray, DnsShape, Refreshes, DnsSteps, XrayRunStates
  <2> QED  BY <2>1, <2>2
<1>3. DnsTypeInv'
  BY <1>0, <1>1, <1>2 DEF DnsTypeInv, DnsShape, PhaseInv, StepInv, StartingWorkers, SwitchingXray
<1>4. ASSUME dnsOutcome # "broken"
      PROVE  /\ BeforeServes' /\ ManifestInv' /\ FreshInv' /\ XrayInv'
             /\ \A e \in DnsExits : WorkerInv(e)' /\ DnsUndoInv(e)'
  <2>1. BeforeServes /\ ManifestInv /\ FreshInv /\ XrayInv
    BY <1>0, <1>4, Midway
  <2>2. refresh.candidate = manifest.desired
    BY <2>1, <1>0 DEF ManifestInv, Undoing
  <2>3. BeforeServes' /\ ManifestInv' /\ FreshInv'
    BY <2>1, <2>2, <1>0, <1>1, <1>2 DEF BeforeServes, ManifestInv, FreshInv, Undoing
  <2>4. XrayInv'
    BY <2>1, <2>2, <1>0, <1>1, <1>2 DEF XrayInv, XrayUntouched, BeforeServes, Serves
  <2>5. ASSUME NEW e \in DnsExits PROVE WorkerInv(e)' /\ DnsUndoInv(e)'
    <3>1. WorkerInv(e)
      BY <1>0, <1>4, Midway
    <3> QED  BY <3>1, <1>0, <1>1, <1>2
                DEF WorkerInv, DnsUndoInv, Untouched, StartingWorkers, SwitchingXray
  <2> QED  BY <2>3, <2>4, <2>5
<1> QED  BY <1>1, <1>2, <1>3, <1>4 DEF DnsInv, SafeInv, UndoneIsAsBefore

(* Xray's file changes, and the old one is kept.                            *)
LEMMA InstallStep == ASSUME DnsInv, InstallXray PROVE DnsInv'
<1>0. AtDns("activate") /\ DnsShape /\ PhaseInv /\ manifest.phase = "applying"
  BY Midway DEF InstallXray, PhaseInv, SwitchingXray
<1>1. /\ UNCHANGED <<exitVersion, dnsChosen, workerFile, workerEnabled, workerRuns,
                     xrayRuns, manifest, dnsBefore, dnsOutcome>>
      /\ xrayFile' = refresh.candidate
  BY DEF InstallXray
<1>2. /\ refresh'.step = "restart" /\ refresh'.todo = {}
      /\ UNCHANGED <<refresh.candidate, refresh.written, refresh.restart, refresh.activated>>
      /\ refresh' \in Refreshes /\ refresh.candidate \subseteq DnsExits
  <2>1. refresh.candidate \subseteq DnsExits
    BY <1>0 DEF DnsShape, Refreshes
  <2> QED  BY <2>1, <1>0, DnsGoing DEF InstallXray, DnsSteps
<1>3. DnsTypeInv'
  BY <1>0, <1>1, <1>2 DEF DnsTypeInv, DnsShape, PhaseInv, StepInv, StartingWorkers, SwitchingXray
<1>4. ASSUME dnsOutcome # "broken"
      PROVE  /\ BeforeServes' /\ ManifestInv' /\ FreshInv' /\ XrayInv'
             /\ \A e \in DnsExits : WorkerInv(e)' /\ DnsUndoInv(e)'
  <2>1. BeforeServes /\ ManifestInv /\ FreshInv /\ XrayInv
    BY <1>0, <1>4, Midway
  <2>2. refresh.candidate = manifest.desired
    BY <2>1, <1>0 DEF ManifestInv, Undoing
  <2>3. BeforeServes' /\ ManifestInv' /\ FreshInv'
    BY <2>1, <2>2, <1>0, <1>1, <1>2 DEF BeforeServes, ManifestInv, FreshInv
  <2>4. XrayInv'
    BY <2>1, <2>2, <1>0, <1>1, <1>2 DEF XrayInv, XrayUntouched
  <2>5. ASSUME NEW e \in DnsExits PROVE WorkerInv(e)' /\ DnsUndoInv(e)'
    <3>1. WorkerInv(e)
      BY <1>0, <1>4, Midway
    <3> QED  BY <3>1, <1>0, <1>1, <1>2
                DEF WorkerInv, DnsUndoInv, Untouched, StartingWorkers, SwitchingXray
  <2> QED  BY <2>3, <2>4, <2>5
<1> QED  BY <1>1, <1>2, <1>3, <1>4 DEF DnsInv, SafeInv, UndoneIsAsBefore

(* The running Xray follows its file; the workers it routes to run already. *)
LEMMA RestartStep == ASSUME DnsInv, RestartXray PROVE DnsInv'
<1>0. AtDns("restart") /\ DnsShape /\ PhaseInv /\ manifest.phase = "applying"
  BY Midway DEF RestartXray, PhaseInv, SwitchingXray
<1>1. /\ UNCHANGED <<exitVersion, dnsChosen, workerFile, workerEnabled, workerRuns,
                     xrayFile, manifest, dnsBefore, dnsOutcome>>
  BY DEF RestartXray
<1>2. /\ \/ /\ refresh'.step = "commit" /\ refresh'.todo = manifest.old \ manifest.desired
            /\ xrayRuns' = IF refresh.restart THEN XrayWith(xrayFile) ELSE xrayRuns
         \/ /\ refresh'.step = "undo_xray" /\ refresh'.todo = {}
            /\ refresh.restart /\ xrayRuns' = XrayStopped
      /\ UNCHANGED <<refresh.candidate, refresh.written, refresh.restart, refresh.activated>>
      /\ refresh' \in Refreshes
  <2>1. manifest.old \ manifest.desired \subseteq DnsExits
    BY <1>0 DEF DnsShape, Manifests
  <2> QED  BY <2>1, <1>0, DnsGoing DEF RestartXray, FailDns, DnsSteps
<1>3. XrayWith(xrayFile) \in XrayRunStates /\ XrayStopped \in XrayRunStates /\ xrayRuns' \in XrayRunStates
      /\ XrayWith(xrayFile).via = xrayFile
  <2>1. XrayWith(xrayFile) \in XrayRunStates /\ XrayStopped \in XrayRunStates /\ xrayRuns \in XrayRunStates
        /\ XrayWith(xrayFile).via = xrayFile
    BY <1>0 DEF DnsShape, XrayRunStates, XrayWith, XrayStopped
  <2> QED  BY <2>1, <1>2
<1>4. DnsTypeInv'
  BY <1>0, <1>1, <1>2, <1>3 DEF DnsTypeInv, DnsShape, PhaseInv, StepInv, StartingWorkers, SwitchingXray
<1>5. ASSUME dnsOutcome # "broken"
      PROVE  /\ BeforeServes' /\ ManifestInv' /\ FreshInv' /\ XrayInv'
             /\ \A e \in DnsExits : WorkerInv(e)' /\ DnsUndoInv(e)'
  <2>1. BeforeServes /\ ManifestInv /\ FreshInv /\ XrayInv
    BY <1>0, <1>5, Midway
  <2>2. BeforeServes' /\ ManifestInv' /\ FreshInv'
    BY <2>1, <1>0, <1>1, <1>2 DEF BeforeServes, ManifestInv, FreshInv, Undoing
  <2>3. XrayInv'
    BY <2>1, <1>0, <1>1, <1>2, <1>3 DEF XrayInv, XrayUntouched
  <2>4. ASSUME NEW e \in DnsExits PROVE WorkerInv(e)' /\ DnsUndoInv(e)'
    <3>1. WorkerInv(e)
      BY <1>0, <1>5, Midway
    <3> QED  BY <3>1, <1>0, <1>1, <1>2
                DEF WorkerInv, DnsUndoInv, Untouched, StartingWorkers, SwitchingXray
  <2> QED  BY <2>2, <2>3, <2>4
<1> QED  BY <1>1, <1>2, <1>4, <1>5 DEF DnsInv, SafeInv, UndoneIsAsBefore

(* Taking a worker away touches no other. *)
LEMMA RemovingWorkers ==
    ASSUME DnsShape, NEW w \in DnsExits, RemoveWorker(w)
    PROVE  /\ workerFile' \in [DnsExits -> ExitVersions] /\ workerRuns' \in [DnsExits -> ExitVersions]
           /\ workerEnabled' = workerEnabled \ {w} /\ workerEnabled' \subseteq DnsExits
           /\ workerFile'[w] = 0 /\ workerRuns'[w] = 0
           /\ \A e \in DnsExits \ {w} :
                 workerFile'[e] = workerFile[e] /\ workerRuns'[e] = workerRuns[e]
<1>1. 0 \in ExitVersions
  BY ExitDnsAssumption DEF ExitVersions
<1> QED  BY <1>1 DEF DnsShape, RemoveWorker

(* Old workers go when Xray no longer routes to them.                       *)
LEMMA CommitStep == ASSUME DnsInv, CommitWorkers PROVE DnsInv'
<1>0. AtDns("commit") /\ DnsShape /\ PhaseInv /\ StepInv /\ manifest.phase = "applying"
  BY Midway DEF CommitWorkers, PhaseInv, SwitchingXray
<1>1. UNCHANGED <<exitVersion, dnsChosen, xrayFile, xrayRuns, dnsBefore>>
  BY DEF CommitWorkers
<1>2. refresh.todo \subseteq DnsExits /\ refresh.todo \subseteq manifest.old \ manifest.desired
  BY <1>0 DEF StepInv, DnsShape, Refreshes
<1>3. dnsOutcome # "broken" =>
        /\ BeforeServes /\ ManifestInv /\ FreshInv /\ XrayInv
        /\ \A e \in DnsExits : WorkerInv(e)
  BY <1>0, Midway
<1>4. CASE FailDns /\ UNCHANGED <<manifest, dnsOutcome, dnsUnits>>
  <2>1. /\ refresh'.step = "undo_xray" /\ refresh'.todo = {}
        /\ UNCHANGED <<refresh.candidate, refresh.written, refresh.restart, refresh.activated>>
        /\ refresh' \in Refreshes
    BY <1>0, <1>4, DnsGoing DEF FailDns, DnsSteps
  <2>2. DnsTypeInv'
    BY <2>1, <1>0, <1>1, <1>4 DEF DnsTypeInv, DnsShape, PhaseInv, StepInv, StartingWorkers, SwitchingXray
  <2>3. dnsOutcome # "broken" => BeforeServes' /\ ManifestInv' /\ FreshInv'
    BY <2>1, <1>0, <1>1, <1>3, <1>4 DEF BeforeServes, ManifestInv, FreshInv, Undoing
  <2>4. dnsOutcome # "broken" => XrayInv'
    BY <2>1, <1>0, <1>1, <1>3, <1>4 DEF XrayInv, XrayUntouched
  <2>5. ASSUME NEW e \in DnsExits, dnsOutcome # "broken" PROVE WorkerInv(e)' /\ DnsUndoInv(e)'
    BY <2>1, <2>5, <1>0, <1>1, <1>3, <1>4
       DEF WorkerInv, DnsUndoInv, Untouched, StartingWorkers, SwitchingXray
  <2> QED  BY <2>1, <2>2, <2>3, <2>4, <2>5, <1>4 DEF DnsInv, SafeInv, UndoneIsAsBefore
<1>5. ASSUME NEW w \in refresh.todo, RemoveWorker(w), GoDns("commit", refresh.todo \ {w}),
             UNCHANGED <<manifest, dnsOutcome>>
      PROVE  DnsInv'
  <2>1. /\ refresh'.step = "commit" /\ refresh'.todo = refresh.todo \ {w}
        /\ UNCHANGED <<refresh.candidate, refresh.written, refresh.restart, refresh.activated>>
        /\ refresh' \in Refreshes
    BY <1>0, <1>2, <1>5, DnsGoing DEF DnsSteps
  <2>2. /\ workerFile' \in [DnsExits -> ExitVersions] /\ workerRuns' \in [DnsExits -> ExitVersions]
        /\ workerEnabled' = workerEnabled \ {w} /\ workerEnabled' \subseteq DnsExits
        /\ workerFile'[w] = 0 /\ workerRuns'[w] = 0 /\ w \in manifest.old \ manifest.desired
        /\ \A e \in DnsExits \ {w} :
              workerFile'[e] = workerFile[e] /\ workerRuns'[e] = workerRuns[e]
    BY <1>0, <1>2, <1>5, RemovingWorkers
  <2>3. DnsTypeInv'
    BY <2>1, <2>2, <1>0, <1>1, <1>5 DEF DnsTypeInv, DnsShape, PhaseInv, StepInv, StartingWorkers, SwitchingXray
  <2>4. dnsOutcome # "broken" => BeforeServes' /\ ManifestInv' /\ FreshInv'
    BY <2>1, <1>0, <1>1, <1>3, <1>5 DEF BeforeServes, ManifestInv, FreshInv, Undoing
  <2>5. dnsOutcome # "broken" => XrayInv'
    BY <2>1, <1>0, <1>1, <1>3, <1>5 DEF XrayInv, XrayUntouched
  <2>6. ASSUME NEW e \in DnsExits, dnsOutcome # "broken" PROVE WorkerInv(e)' /\ DnsUndoInv(e)'
    <3>1. WorkerInv(e)
      BY <2>6, <1>3
    <3> QED  BY <3>1, <2>1, <2>2, <1>0, <1>1, <1>5
                DEF WorkerInv, DnsUndoInv, Untouched, StartingWorkers, SwitchingXray
  <2> QED  BY <2>1, <2>3, <2>4, <2>5, <2>6, <1>5 DEF DnsInv, SafeInv, UndoneIsAsBefore
<1>6. CASE /\ refresh.todo = {} /\ manifest' = [manifest EXCEPT !.phase = "committed"]
           /\ refresh' = NoRefresh /\ Ended("done") /\ UNCHANGED dnsUnits
  <2>1. refresh'.step = "none" /\ refresh' \in Refreshes
    BY <1>6, Resting DEF NoRefresh
  <2>2. /\ manifest' \in Manifests /\ UNCHANGED <<manifest.changed, manifest.desired, manifest.files>>
    BY <1>0, <1>6 DEF DnsShape, Manifests, DnsPhases
  <2>3. DnsTypeInv'
    BY <2>1, <2>2, <1>0, <1>1, <1>6 DEF DnsTypeInv, DnsShape, PhaseInv, StepInv, StartingWorkers, SwitchingXray
  <2>4. dnsOutcome' # "broken" => HostServes'
    <3>1. SUFFICES ASSUME dnsOutcome # "broken" PROVE HostServes'
      BY <1>6 DEF Ended
    <3>2. xrayFile = manifest.desired /\ (xrayRuns.on => xrayRuns.via = xrayFile)
      BY <3>1, <1>0, <1>3 DEF XrayInv
    <3>3. \A e \in DnsExits : workerFile[e] = 0 => e \notin workerEnabled /\ workerRuns[e] = 0
      BY <3>1, <1>0, <1>3 DEF WorkerInv
    <3>4. \A e \in xrayFile : workerFile[e] > 0 /\ e \in workerEnabled /\ workerRuns[e] > 0
      BY <3>1, <3>2, <1>0, <1>3 DEF WorkerInv, SwitchingXray, DnsShape
    <3> QED  BY <3>2, <3>3, <3>4, <1>1, <1>6 DEF HostServes, Serves
  <2>5. UndoneIsAsBefore'
    BY <1>6 DEF Ended, UndoneIsAsBefore
  <2> QED  BY <2>1, <2>3, <2>4, <2>5 DEF DnsInv, SafeInv
<1> QED  BY <1>4, <1>5, <1>6 DEF CommitWorkers

(* Xray is back on the old file before a worker is touched.                 *)
LEMMA UndoXrayStep == ASSUME DnsInv, UndoXray PROVE DnsInv'
<1>0. AtDns("undo_xray") /\ DnsShape /\ PhaseInv /\ manifest.phase \in {"none", "applying"}
  BY Midway DEF UndoXray, PhaseInv
<1>1. UNCHANGED <<exitVersion, dnsChosen, workerFile, workerEnabled, workerRuns, manifest,
                  dnsBefore>>
  BY DEF UndoXray
<1>2. /\ \/ /\ manifest.phase = "applying" /\ refresh'.step = "undo_new"
            /\ refresh'.todo = manifest.desired \ manifest.old
         \/ manifest.phase = "none" /\ refresh'.step = "undo_choice" /\ refresh'.todo = {}
      /\ UNCHANGED <<refresh.candidate, refresh.written, refresh.restart, refresh.activated>>
      /\ refresh' \in Refreshes
  <2>1. manifest.desired \ manifest.old \subseteq DnsExits
    BY <1>0 DEF DnsShape, Manifests
  <2> QED  BY <2>1, <1>0, DnsGoing DEF UndoXray, DnsSteps
<1>3. \/ /\ xrayFile' = IF refresh.activated THEN dnsBefore.xray ELSE xrayFile
         /\ xrayRuns' = IF refresh.activated /\ refresh.restart
                        THEN XrayWith(dnsBefore.xray) ELSE xrayRuns
         /\ UNCHANGED dnsOutcome
      \/ UndoXrayFails /\ dnsOutcome' = "broken"
  BY DEF UndoXray
<1>4. dnsBefore.xray \subseteq DnsExits /\ XrayWith(dnsBefore.xray) \in XrayRunStates
      /\ dnsBefore.xrayRuns \in XrayRunStates /\ XrayStopped \in XrayRunStates
      /\ XrayWith(xrayFile) \in XrayRunStates
  BY <1>0 DEF DnsShape, WorkerStates, XrayRunStates, XrayWith, XrayStopped
<1>5. xrayFile' \subseteq DnsExits /\ xrayRuns' \in XrayRunStates
  BY <1>0, <1>3, <1>4 DEF DnsShape, UndoXrayFails
<1>6. DnsTypeInv'
  BY <1>0, <1>1, <1>2, <1>5 DEF DnsTypeInv, DnsShape, PhaseInv, StepInv, StartingWorkers, SwitchingXray
<1>7. ASSUME dnsOutcome' # "broken"
      PROVE  /\ BeforeServes' /\ ManifestInv' /\ FreshInv' /\ XrayInv'
             /\ (manifest.phase # "none" => \A e \in DnsExits : WorkerInv(e)' /\ DnsUndoInv(e)')
  <2>0. /\ xrayFile' = IF refresh.activated THEN dnsBefore.xray ELSE xrayFile
        /\ xrayRuns' = IF refresh.activated /\ refresh.restart
                       THEN XrayWith(dnsBefore.xray) ELSE xrayRuns
        /\ dnsOutcome # "broken"
    BY <1>3, <1>7
  <2>1. BeforeServes /\ ManifestInv /\ FreshInv /\ XrayInv
    BY <1>0, <2>0, Midway
  <2>2. BeforeServes' /\ ManifestInv' /\ FreshInv'
    BY <2>1, <1>0, <1>1, <1>2 DEF BeforeServes, ManifestInv, FreshInv, Undoing, Untouched
  <2>3. dnsBefore.xrayRuns.on => dnsBefore.xrayRuns = XrayWith(dnsBefore.xray)
    BY <2>1, <1>4 DEF BeforeServes, Serves, XrayRunStates, XrayWith
  <2>4. XrayUntouched'
    BY <2>0, <2>1, <2>3, <1>1 DEF XrayInv, XrayUntouched
  <2>5. XrayInv'
    <3>1. UNCHANGED <<refresh.restart, refresh.activated, dnsBefore>>
      BY <1>1, <1>2
    <3> QED  BY <2>1, <2>4, <3>1, <1>0, <1>1, <1>2 DEF XrayInv, XrayUntouched
  <2>6. ASSUME NEW e \in DnsExits, manifest.phase # "none" PROVE WorkerInv(e)' /\ DnsUndoInv(e)'
    <3>1. WorkerInv(e)
      BY <1>0, <2>0, <2>6, Midway
    <3> QED  BY <3>1, <2>6, <1>0, <1>1, <1>2
                DEF WorkerInv, DnsUndoInv, Untouched, StartingWorkers, SwitchingXray
  <2> QED  BY <2>2, <2>5, <2>6
<1> QED  BY <1>1, <1>2, <1>6, <1>7 DEF DnsInv, SafeInv, UndoneIsAsBefore

(* New workers go, which nothing routes to any more.                        *)
LEMMA UndoNewStep == ASSUME DnsInv, UndoNewWorkers PROVE DnsInv'
<1>0. AtDns("undo_new") /\ DnsShape /\ PhaseInv /\ StepInv /\ manifest.phase = "applying"
  BY Midway DEF UndoNewWorkers, PhaseInv
<1>1. UNCHANGED <<exitVersion, dnsChosen, xrayFile, xrayRuns, manifest, dnsBefore>>
  BY DEF UndoNewWorkers
<1>2. refresh.todo \subseteq DnsExits /\ refresh.todo \subseteq manifest.desired \ manifest.old
      /\ manifest.old \subseteq DnsExits
  BY <1>0 DEF StepInv, DnsShape, Refreshes, Manifests
<1>3. dnsOutcome # "broken" =>
        /\ BeforeServes /\ ManifestInv /\ FreshInv /\ XrayInv
        /\ \A e \in DnsExits : WorkerInv(e) /\ DnsUndoInv(e)
  BY <1>0, Midway
<1>4. CASE refresh.todo = {} /\ GoDns("undo_files", manifest.old)
          /\ UNCHANGED <<dnsUnits, dnsOutcome>>
  <2>1. /\ refresh'.step = "undo_files" /\ refresh'.todo = manifest.old
        /\ UNCHANGED <<refresh.candidate, refresh.written, refresh.restart, refresh.activated>>
        /\ refresh' \in Refreshes
    BY <1>0, <1>2, <1>4, DnsGoing DEF DnsSteps
  <2>2. DnsTypeInv'
    BY <2>1, <1>0, <1>1, <1>4 DEF DnsTypeInv, DnsShape, PhaseInv, StepInv, StartingWorkers, SwitchingXray
  <2>3. dnsOutcome # "broken" => BeforeServes' /\ ManifestInv' /\ FreshInv'
    BY <2>1, <1>0, <1>1, <1>3, <1>4 DEF BeforeServes, ManifestInv, FreshInv, Undoing
  <2>4. dnsOutcome # "broken" => XrayInv'
    BY <2>1, <1>0, <1>1, <1>3, <1>4 DEF XrayInv, XrayUntouched
  <2>5. ASSUME NEW e \in DnsExits, dnsOutcome # "broken" PROVE WorkerInv(e)' /\ DnsUndoInv(e)'
    <3>1. WorkerInv(e) /\ DnsUndoInv(e)
      BY <2>5, <1>3
    <3> QED  BY <3>1, <2>1, <1>0, <1>1, <1>4
                DEF WorkerInv, DnsUndoInv, Untouched, StartingWorkers, SwitchingXray
  <2> QED  BY <2>1, <2>2, <2>3, <2>4, <2>5, <1>1, <1>4 DEF DnsInv, SafeInv, UndoneIsAsBefore
<1>5. ASSUME NEW w \in refresh.todo, RemoveWorker(w), GoDns("undo_new", refresh.todo \ {w}),
             UNCHANGED dnsOutcome
      PROVE  DnsInv'
  <2>1. /\ refresh'.step = "undo_new" /\ refresh'.todo = refresh.todo \ {w}
        /\ UNCHANGED <<refresh.candidate, refresh.written, refresh.restart, refresh.activated>>
        /\ refresh' \in Refreshes
    BY <1>0, <1>2, <1>5, DnsGoing DEF DnsSteps
  <2>2. /\ workerFile' \in [DnsExits -> ExitVersions] /\ workerRuns' \in [DnsExits -> ExitVersions]
        /\ workerEnabled' = workerEnabled \ {w} /\ workerEnabled' \subseteq DnsExits
        /\ workerFile'[w] = 0 /\ workerRuns'[w] = 0 /\ w \in manifest.desired \ manifest.old
        /\ \A e \in DnsExits \ {w} :
              workerFile'[e] = workerFile[e] /\ workerRuns'[e] = workerRuns[e]
    BY <1>0, <1>2, <1>5, RemovingWorkers
  <2>3. DnsTypeInv'
    BY <2>1, <2>2, <1>0, <1>1, <1>5 DEF DnsTypeInv, DnsShape, PhaseInv, StepInv, StartingWorkers, SwitchingXray
  <2>4. dnsOutcome # "broken" => BeforeServes' /\ ManifestInv' /\ FreshInv'
    BY <2>1, <1>0, <1>1, <1>3, <1>5 DEF BeforeServes, ManifestInv, FreshInv, Undoing
  <2>5. dnsOutcome # "broken" => XrayInv'
    BY <2>1, <1>0, <1>1, <1>3, <1>5 DEF XrayInv, XrayUntouched
  <2>6. ASSUME NEW e \in DnsExits, dnsOutcome # "broken" PROVE WorkerInv(e)' /\ DnsUndoInv(e)'
    <3>1. WorkerInv(e) /\ DnsUndoInv(e)
      BY <2>6, <1>3
    <3>2. CASE e # w
      BY <3>1, <3>2, <2>1, <2>2, <1>0, <1>1
         DEF WorkerInv, DnsUndoInv, Untouched, StartingWorkers, SwitchingXray
    <3>3. CASE e = w
      <4>1. dnsBefore.file[w] = 0 /\ w \notin dnsBefore.enabled /\ dnsBefore.runs[w] = 0
        <5>1. ~(dnsBefore.file[w] > 0) /\ dnsBefore.file[w] \in ExitVersions
          BY <2>2, <2>6, <1>0, <1>2, <1>3 DEF ManifestInv, DnsShape, WorkerStates
        <5>2. dnsBefore.file[w] = 0
          BY <5>1, ExitDnsAssumption DEF ExitVersions
        <5> QED  BY <5>2, <2>6, <1>2, <1>3 DEF BeforeServes, Serves
      <4> QED  BY <3>1, <3>3, <4>1, <2>1, <2>2, <1>0, <1>1
                  DEF WorkerInv, DnsUndoInv, Untouched, StartingWorkers, SwitchingXray
    <3> QED  BY <3>2, <3>3
  <2> QED  BY <2>1, <2>3, <2>4, <2>5, <2>6, <1>1, <1>5 DEF DnsInv, SafeInv, UndoneIsAsBefore
<1>6. ASSUME NEW w \in refresh.todo, UndoWorkerFails(w), GoDns("undo_new", refresh.todo \ {w}),
             dnsOutcome' = "broken"
      PROVE  DnsInv'
  <2>1. /\ refresh'.step = "undo_new" /\ refresh'.todo = refresh.todo \ {w}
        /\ UNCHANGED <<refresh.candidate, refresh.written, refresh.restart, refresh.activated>>
        /\ refresh' \in Refreshes
    BY <1>0, <1>2, <1>6, DnsGoing DEF DnsSteps
  <2>2. /\ workerFile' \in [DnsExits -> ExitVersions] /\ workerEnabled' \subseteq DnsExits
        /\ UNCHANGED workerRuns
    <3>1. 0 \in ExitVersions
      BY ExitDnsAssumption DEF ExitVersions
    <3> QED  BY <3>1, <1>0, <1>6 DEF DnsShape, UndoWorkerFails
  <2>3. DnsTypeInv'
    BY <2>1, <2>2, <1>0, <1>1 DEF DnsTypeInv, DnsShape, PhaseInv, StepInv, StartingWorkers, SwitchingXray
  <2> QED  BY <2>1, <2>3, <1>6 DEF DnsInv, SafeInv, UndoneIsAsBefore
<1> QED  BY <1>4, <1>5, <1>6 DEF UndoNewWorkers

(* An undoing that breaks off leaves the workers where they are; the choice *)
(* is still to be put back.                                                 *)
LEMMA BreakOffStep ==
    ASSUME DnsInv, UndoBreaksOff, AtDns("undo_files") \/ AtDns("undo_units"),
           UNCHANGED <<exitVersion, dnsChosen, workerFile, workerEnabled, workerRuns, xrayFile,
                       xrayRuns, manifest, dnsBefore, dnsOutcome>>
    PROVE  DnsInv'
<1>1. DnsShape /\ PhaseInv /\ StepInv /\ manifest.phase = "applying"
  BY Midway DEF PhaseInv, AtDns
<1>2. dnsOutcome # "broken" =>
        /\ BeforeServes /\ ManifestInv /\ FreshInv /\ XrayInv
        /\ \A e \in DnsExits : WorkerInv(e) /\ DnsUndoInv(e)
  BY <1>1, Midway DEF AtDns
<1>3. /\ refresh'.step = "undo_choice" /\ ~refresh'.activated
      /\ UNCHANGED <<refresh.todo, refresh.candidate, refresh.written, refresh.restart>>
      /\ refresh' \in Refreshes
  BY <1>1 DEF UndoBreaksOff, DnsShape, Refreshes, DnsSteps
<1>4. DnsTypeInv'
  BY <1>1, <1>3 DEF DnsTypeInv, DnsShape, PhaseInv, StepInv, StartingWorkers, SwitchingXray
<1>5. dnsOutcome # "broken" => BeforeServes' /\ ManifestInv' /\ FreshInv'
  BY <1>1, <1>2, <1>3 DEF BeforeServes, ManifestInv, FreshInv, Undoing
<1>6. dnsOutcome # "broken" => XrayInv'
  BY <1>1, <1>2, <1>3 DEF XrayInv, XrayUntouched
<1>7. ASSUME NEW e \in DnsExits, dnsOutcome # "broken" PROVE WorkerInv(e)' /\ DnsUndoInv(e)'
  <2>1. WorkerInv(e) /\ DnsUndoInv(e)
    BY <1>2, <1>7
  <2> QED  BY <2>1, <1>1, <1>3
              DEF WorkerInv, DnsUndoInv, Untouched, StartingWorkers, SwitchingXray
<1> QED  BY <1>3, <1>4, <1>5, <1>6, <1>7 DEF DnsInv, SafeInv, UndoneIsAsBefore

(* The saved files are back; what ran on them runs on.                      *)
LEMMA UndoFilesStep == ASSUME DnsInv, UndoFiles PROVE DnsInv'
<1>0. AtDns("undo_files") /\ DnsShape /\ PhaseInv /\ StepInv /\ manifest.phase = "applying"
  BY Midway DEF UndoFiles, PhaseInv
<1>1. UNCHANGED <<exitVersion, dnsChosen, workerEnabled, workerRuns, xrayFile, xrayRuns,
                  manifest, dnsBefore, dnsOutcome>>
  BY DEF UndoFiles
<1>2. refresh.todo \subseteq DnsExits /\ refresh.todo \subseteq manifest.old
      /\ manifest.old \subseteq DnsExits /\ manifest.files \in [DnsExits -> ExitVersions]
  BY <1>0 DEF StepInv, DnsShape, Refreshes, Manifests
<1>3. dnsOutcome # "broken" =>
        /\ BeforeServes /\ ManifestInv /\ FreshInv /\ XrayInv
        /\ \A e \in DnsExits : WorkerInv(e) /\ DnsUndoInv(e)
  BY <1>0, Midway
<1>4. CASE refresh.todo = {} /\ GoDns("undo_units", manifest.old) /\ UNCHANGED workerFile
  <2>1. /\ refresh'.step = "undo_units" /\ refresh'.todo = manifest.old
        /\ UNCHANGED <<refresh.candidate, refresh.written, refresh.restart, refresh.activated>>
        /\ refresh' \in Refreshes
    BY <1>0, <1>2, <1>4, DnsGoing DEF DnsSteps
  <2>2. DnsTypeInv'
    BY <2>1, <1>0, <1>1, <1>4 DEF DnsTypeInv, DnsShape, PhaseInv, StepInv, StartingWorkers, SwitchingXray
  <2>3. dnsOutcome # "broken" => BeforeServes' /\ ManifestInv' /\ FreshInv'
    BY <2>1, <1>0, <1>1, <1>3, <1>4 DEF BeforeServes, ManifestInv, FreshInv, Undoing
  <2>4. dnsOutcome # "broken" => XrayInv'
    BY <2>1, <1>0, <1>1, <1>3, <1>4 DEF XrayInv, XrayUntouched
  <2>5. ASSUME NEW e \in DnsExits, dnsOutcome # "broken" PROVE WorkerInv(e)' /\ DnsUndoInv(e)'
    <3>1. WorkerInv(e) /\ DnsUndoInv(e)
      BY <2>5, <1>3
    <3> QED  BY <3>1, <2>1, <1>0, <1>1, <1>4
                DEF WorkerInv, DnsUndoInv, Untouched, StartingWorkers, SwitchingXray
  <2> QED  BY <2>1, <2>2, <2>3, <2>4, <2>5, <1>1 DEF DnsInv, SafeInv, UndoneIsAsBefore
<1>5. ASSUME NEW w \in refresh.todo, workerFile' = [workerFile EXCEPT ![w] = manifest.files[w]],
             GoDns("undo_files", refresh.todo \ {w})
      PROVE  DnsInv'
  <2>1. /\ refresh'.step = "undo_files" /\ refresh'.todo = refresh.todo \ {w}
        /\ UNCHANGED <<refresh.candidate, refresh.written, refresh.restart, refresh.activated>>
        /\ refresh' \in Refreshes
    BY <1>0, <1>2, <1>5, DnsGoing DEF DnsSteps
  <2>2. /\ workerFile' \in [DnsExits -> ExitVersions] /\ workerFile'[w] = manifest.files[w]
        /\ w \in manifest.old
        /\ \A e \in DnsExits \ {w} : workerFile'[e] = workerFile[e]
    BY <1>0, <1>2, <1>5 DEF DnsShape
  <2>3. DnsTypeInv'
    BY <2>1, <2>2, <1>0, <1>1 DEF DnsTypeInv, DnsShape, PhaseInv, StepInv, StartingWorkers, SwitchingXray
  <2>4. dnsOutcome # "broken" => BeforeServes' /\ ManifestInv' /\ FreshInv'
    BY <2>1, <1>0, <1>1, <1>3 DEF BeforeServes, ManifestInv, FreshInv, Undoing
  <2>5. dnsOutcome # "broken" => XrayInv'
    BY <2>1, <1>0, <1>1, <1>3 DEF XrayInv, XrayUntouched
  <2>6. ASSUME NEW e \in DnsExits, dnsOutcome # "broken" PROVE WorkerInv(e)' /\ DnsUndoInv(e)'
    <3>1. WorkerInv(e) /\ DnsUndoInv(e) /\ manifest.files = dnsBefore.file
      BY <2>6, <1>0, <1>3 DEF ManifestInv
    <3>2. CASE e # w
      BY <3>1, <3>2, <2>1, <2>2, <1>0, <1>1
         DEF WorkerInv, DnsUndoInv, Untouched, StartingWorkers, SwitchingXray
    <3>3. CASE e = w
      BY <3>1, <3>3, <2>1, <2>2, <1>0, <1>1
         DEF WorkerInv, DnsUndoInv, Untouched, StartingWorkers, SwitchingXray
    <3> QED  BY <3>2, <3>3
  <2> QED  BY <2>1, <2>3, <2>4, <2>5, <2>6, <1>1 DEF DnsInv, SafeInv, UndoneIsAsBefore
<1>6. CASE UndoBreaksOff /\ UNCHANGED workerFile
  BY <1>0, <1>1, <1>6, BreakOffStep
<1> QED  BY <1>4, <1>5, <1>6 DEF UndoFiles

(* What a worker does that goes back to what it was. *)
LEMMA Returning ==
    ASSUME DnsShape, NEW w \in DnsExits,
           workerEnabled' = IF w \in manifest.enabled THEN workerEnabled \cup {w}
                            ELSE workerEnabled \ {w},
           workerRuns' = IF w \notin manifest.active THEN [workerRuns EXCEPT ![w] = 0]
                         ELSE IF NeedsRestart(w) THEN Restarted(w) ELSE StartedIfStopped(w)
    PROVE  /\ workerRuns' \in [DnsExits -> ExitVersions] /\ workerEnabled' \subseteq DnsExits
           /\ \A e \in DnsExits \ {w} :
                 /\ workerRuns'[e] = workerRuns[e]
                 /\ e \in workerEnabled' <=> e \in workerEnabled
           /\ w \in workerEnabled' <=> w \in manifest.enabled
           /\ w \notin manifest.active => workerRuns'[w] = 0
           /\ w \in manifest.active => workerRuns'[w] \in {workerRuns[w], workerFile[w]}
           /\ w \in manifest.active /\ NeedsRestart(w) => workerRuns'[w] = workerFile[w]
           /\ w \in manifest.active /\ workerRuns[w] # 0 /\ ~NeedsRestart(w) =>
                 workerRuns'[w] = workerRuns[w]
<1>1. /\ 0 \in ExitVersions /\ workerRuns \in [DnsExits -> ExitVersions]
      /\ workerFile[w] \in ExitVersions /\ workerRuns[w] \in ExitVersions
      /\ workerEnabled \subseteq DnsExits
  BY ExitDnsAssumption DEF ExitVersions, DnsShape
<1>2. PICK v \in ExitVersions : workerRuns' = [workerRuns EXCEPT ![w] = v]
         /\ (w \notin manifest.active => v = 0)
         /\ (w \in manifest.active => v \in {workerRuns[w], workerFile[w]})
         /\ (w \in manifest.active /\ NeedsRestart(w) => v = workerFile[w])
         /\ (w \in manifest.active /\ workerRuns[w] # 0 /\ ~NeedsRestart(w) => v = workerRuns[w])
  <2>1. CASE w \notin manifest.active
    BY <2>1, <1>1
  <2>2. CASE w \in manifest.active /\ NeedsRestart(w)
    BY <2>2, <1>1 DEF Restarted
  <2>3. CASE w \in manifest.active /\ ~NeedsRestart(w)
    BY <2>3, <1>1 DEF StartedIfStopped
  <2> QED  BY <2>1, <2>2, <2>3
<1> QED  BY <1>1, <1>2

(* The units that ran before run again, on the saved files.                 *)
LEMMA UndoUnitsStep == ASSUME DnsInv, UndoUnits PROVE DnsInv'
<1>0. AtDns("undo_units") /\ DnsShape /\ PhaseInv /\ StepInv /\ manifest.phase = "applying"
  BY Midway DEF UndoUnits, PhaseInv
<1>1. UNCHANGED <<exitVersion, dnsChosen, workerFile, xrayFile, xrayRuns, dnsBefore,
                  dnsOutcome>>
  BY DEF UndoUnits
<1>2. refresh.todo \subseteq DnsExits /\ refresh.todo \subseteq manifest.old
      /\ manifest.old \subseteq DnsExits
  BY <1>0 DEF StepInv, DnsShape, Refreshes, Manifests
<1>3. dnsOutcome # "broken" =>
        /\ BeforeServes /\ ManifestInv /\ FreshInv /\ XrayInv
        /\ \A e \in DnsExits : WorkerInv(e) /\ DnsUndoInv(e)
  BY <1>0, Midway
<1>4. CASE /\ refresh.todo = {} /\ manifest' = [manifest EXCEPT !.phase = "rolled-back"]
           /\ GoDns("undo_choice", {}) /\ UNCHANGED <<workerEnabled, workerRuns>>
  <2>1. /\ refresh'.step = "undo_choice" /\ refresh'.todo = {}
        /\ UNCHANGED <<refresh.candidate, refresh.written, refresh.restart, refresh.activated>>
        /\ refresh' \in Refreshes
    BY <1>0, <1>4, DnsGoing DEF DnsSteps
  <2>2. /\ manifest'.phase = "rolled-back" /\ manifest' \in Manifests
        /\ UNCHANGED <<manifest.desired, manifest.old, manifest.files, manifest.active,
                       manifest.enabled, manifest.changed>>
    BY <1>0, <1>4 DEF DnsShape, Manifests, DnsPhases
  <2>3. DnsTypeInv'
    BY <2>1, <2>2, <1>0, <1>1, <1>4 DEF DnsTypeInv, DnsShape, PhaseInv, StepInv, StartingWorkers, SwitchingXray
  <2>4. dnsOutcome # "broken" => BeforeServes' /\ ManifestInv' /\ FreshInv'
    BY <2>1, <2>2, <1>0, <1>1, <1>3, <1>4 DEF BeforeServes, ManifestInv, FreshInv, Undoing
  <2>5. dnsOutcome # "broken" => XrayInv'
    BY <2>1, <2>2, <1>0, <1>1, <1>3, <1>4 DEF XrayInv, XrayUntouched
  <2>6. ASSUME NEW e \in DnsExits, dnsOutcome # "broken" PROVE WorkerInv(e)' /\ DnsUndoInv(e)'
    <3>1. WorkerInv(e) /\ DnsUndoInv(e)
      BY <2>6, <1>3
    <3>2. WorkerInv(e)'
      BY <3>1, <2>1, <2>2, <1>0, <1>1, <1>4
         DEF WorkerInv, Untouched, StartingWorkers, SwitchingXray
    <3>3. /\ workerFile[e] = dnsBefore.file[e]
          /\ e \in workerEnabled <=> e \in dnsBefore.enabled
          /\ BackUp(e)
      BY <3>1, <1>0, <1>4 DEF DnsUndoInv, Untouched, BackUp
    <3>4. DnsUndoInv(e)'
      BY <3>3, <2>1, <2>2, <1>1, <1>4 DEF DnsUndoInv, BackUp
    <3> QED  BY <3>2, <3>4
  <2> QED  BY <2>1, <2>3, <2>4, <2>5, <2>6, <1>1 DEF DnsInv, SafeInv, UndoneIsAsBefore
<1>5. ASSUME NEW w \in refresh.todo,
             workerEnabled' = IF w \in manifest.enabled THEN workerEnabled \cup {w}
                              ELSE workerEnabled \ {w},
             workerRuns' = IF w \notin manifest.active THEN [workerRuns EXCEPT ![w] = 0]
                           ELSE IF NeedsRestart(w) THEN Restarted(w) ELSE StartedIfStopped(w),
             GoDns("undo_units", refresh.todo \ {w}), UNCHANGED manifest
      PROVE  DnsInv'
  <2>1. /\ refresh'.step = "undo_units" /\ refresh'.todo = refresh.todo \ {w}
        /\ UNCHANGED <<refresh.candidate, refresh.written, refresh.restart, refresh.activated>>
        /\ refresh' \in Refreshes
    BY <1>0, <1>2, <1>5, DnsGoing DEF DnsSteps
  <2>2. /\ w \in DnsExits /\ w \in manifest.old
        /\ workerRuns' \in [DnsExits -> ExitVersions] /\ workerEnabled' \subseteq DnsExits
        /\ \A e \in DnsExits \ {w} :
              /\ workerRuns'[e] = workerRuns[e]
              /\ e \in workerEnabled' <=> e \in workerEnabled
        /\ w \in workerEnabled' <=> w \in manifest.enabled
        /\ w \notin manifest.active => workerRuns'[w] = 0
        /\ w \in manifest.active => workerRuns'[w] \in {workerRuns[w], workerFile[w]}
        /\ w \in manifest.active /\ NeedsRestart(w) => workerRuns'[w] = workerFile[w]
        /\ w \in manifest.active /\ workerRuns[w] # 0 /\ ~NeedsRestart(w) =>
              workerRuns'[w] = workerRuns[w]
    BY <1>0, <1>2, <1>5, Returning
  <2>3. DnsTypeInv'
    BY <2>1, <2>2, <1>0, <1>1, <1>5 DEF DnsTypeInv, DnsShape, PhaseInv, StepInv, StartingWorkers, SwitchingXray
  <2>4. dnsOutcome # "broken" => BeforeServes' /\ ManifestInv' /\ FreshInv'
    BY <2>1, <1>0, <1>1, <1>3, <1>5 DEF BeforeServes, ManifestInv, FreshInv, Undoing
  <2>5. dnsOutcome # "broken" => XrayInv'
    BY <2>1, <1>0, <1>1, <1>3, <1>5 DEF XrayInv, XrayUntouched
  <2>6. ASSUME NEW e \in DnsExits, dnsOutcome # "broken" PROVE WorkerInv(e)' /\ DnsUndoInv(e)'
    <3>1. WorkerInv(e) /\ DnsUndoInv(e) /\ workerFile[e] = dnsBefore.file[e]
      BY <2>6, <1>0, <1>3 DEF DnsUndoInv
    <3>2. CASE e # w
      <4>1. /\ workerRuns'[e] = workerRuns[e] /\ (e \in workerEnabled' <=> e \in workerEnabled)
            /\ e \in refresh'.todo <=> e \in refresh.todo
        BY <3>2, <2>1, <2>2, <2>6
      <4>2. WorkerInv(e)'
        BY <3>1, <4>1, <2>1, <1>0, <1>1, <1>5
           DEF WorkerInv, Untouched, StartingWorkers, SwitchingXray
      <4>3. DnsUndoInv(e)'
        BY <3>1, <4>1, <2>1, <1>0, <1>1, <1>5
           DEF DnsUndoInv, Untouched, BackUp
      <4> QED  BY <4>2, <4>3
    <3>3. CASE e = w
      <4>1. /\ dnsBefore.file[w] > 0 /\ dnsBefore.runs[w] \in ExitVersions
            /\ w \in manifest.active <=> dnsBefore.runs[w] > 0
            /\ w \in manifest.enabled <=> w \in dnsBefore.enabled
        BY <2>2, <2>6, <1>0, <1>3 DEF ManifestInv, DnsShape, WorkerStates
      <4>2. ~(dnsBefore.runs[w] > 0) => dnsBefore.runs[w] = 0
        BY <4>1, ExitDnsAssumption DEF ExitVersions
      <4>3. w \in manifest.desired \ manifest.changed => ~NeedsRestart(w)
        BY DEF NeedsRestart
      <4>4. dnsBefore.runs[w] > 0 => dnsBefore.runs[w] # 0
        BY <4>1
      <4>5. w \in manifest.desired \ manifest.changed /\ dnsBefore.runs[w] > 0
            => workerRuns'[w] = dnsBefore.runs[w]
        BY <3>1, <3>3, <4>1, <4>3, <4>4, <2>2 DEF WorkerInv
      <4>6. WorkerInv(w)'
        BY <3>1, <3>3, <4>5, <2>1, <2>2, <1>0, <1>1, <1>5
           DEF WorkerInv, Untouched, StartingWorkers, SwitchingXray
      <4>7. BackUp(w)'
        <5>1. CASE dnsBefore.runs[w] = 0
          BY <5>1, <4>1, <2>2, <1>1 DEF BackUp
        <5>2. CASE dnsBefore.runs[w] > 0 /\ NeedsRestart(w)
          BY <5>2, <3>1, <3>3, <4>1, <2>2, <1>1 DEF BackUp
        <5>3. CASE dnsBefore.runs[w] > 0 /\ ~NeedsRestart(w)
          BY <5>3, <4>5, <1>1 DEF BackUp, NeedsRestart
        <5> QED  BY <5>1, <5>2, <5>3, <4>2
      <4>8. DnsUndoInv(w)'
        BY <3>1, <3>3, <4>1, <4>7, <2>1, <2>2, <1>0, <1>1, <1>5 DEF DnsUndoInv
      <4> QED  BY <3>3, <4>6, <4>8
    <3> QED  BY <3>2, <3>3
  <2> QED  BY <2>1, <2>3, <2>4, <2>5, <2>6, <1>1, <1>5 DEF DnsInv, SafeInv, UndoneIsAsBefore
<1>6. CASE UndoBreaksOff /\ UNCHANGED <<workerEnabled, workerRuns, manifest>>
  BY <1>0, <1>1, <1>6, BreakOffStep
<1> QED  BY <1>4, <1>5, <1>6 DEF UndoUnits

(* The manifest goes last: the host is as it was before.                    *)
LEMMA UndoChoiceStep == ASSUME DnsInv, UndoChoice PROVE DnsInv'
<1>0. /\ AtDns("undo_choice") /\ DnsShape /\ PhaseInv
      /\ manifest.phase \in {"none", "applying", "rolled-back"}
  BY Midway DEF UndoChoice, PhaseInv
<1>1. UNCHANGED <<exitVersion, workerFile, workerEnabled, workerRuns, xrayFile, xrayRuns,
                  manifest, dnsBefore>> /\ dnsChosen' = dnsBefore.chosen
  BY DEF UndoChoice
<1>2. refresh'.step = "none" /\ refresh' \in Refreshes
  BY Resting DEF UndoChoice, NoRefresh
<1>3. dnsBefore.chosen \subseteq DnsExits /\ dnsBefore.enabled \subseteq DnsExits
      /\ dnsBefore.file \in [DnsExits -> ExitVersions] /\ dnsBefore.runs \in [DnsExits -> ExitVersions]
      /\ dnsBefore.xray \subseteq DnsExits
  BY <1>0 DEF DnsShape, WorkerStates
<1>4. DnsTypeInv'
  BY <1>0, <1>1, <1>2, <1>3 DEF DnsTypeInv, DnsShape, PhaseInv, StepInv, StartingWorkers, SwitchingXray
<1>5. CASE dnsOutcome = "broken" \/ manifest.phase = "applying"
  <2>1. dnsOutcome' = "broken"
    BY <1>0, <1>5 DEF UndoChoice, Ended
  <2> QED  BY <2>1, <1>4 DEF DnsInv, SafeInv, UndoneIsAsBefore
<1>6. CASE dnsOutcome # "broken" /\ manifest.phase # "applying"
  <2>1. XrayUntouched /\ BeforeServes
    BY <1>0, <1>6, Midway DEF XrayInv
  <2>2. ASSUME NEW e \in DnsExits
        PROVE  /\ workerFile[e] = dnsBefore.file[e]
               /\ e \in workerEnabled <=> e \in dnsBefore.enabled
               /\ BackUp(e)
    <3>1. CASE manifest.phase = "none"
      BY <3>1, <1>0, <1>6, Midway DEF FreshInv, Untouched, BackUp
    <3>2. CASE manifest.phase = "rolled-back"
      BY <3>2, <1>0, <1>6, Midway DEF DnsUndoInv
    <3> QED  BY <3>1, <3>2, <1>0, <1>6
  <2>3. HostServes
    <3>1. ASSUME NEW e \in DnsExits, workerFile[e] = 0
          PROVE  e \notin workerEnabled /\ workerRuns[e] = 0
      <4>1. dnsBefore.file[e] = 0 /\ e \notin dnsBefore.enabled /\ dnsBefore.runs[e] = 0
        BY <3>1, <2>1, <2>2 DEF BeforeServes, Serves
      <4> QED  BY <4>1, <2>2 DEF BackUp
    <3>2. ASSUME NEW e \in xrayFile
          PROVE  /\ e \in workerEnabled /\ workerFile[e] > 0
                 /\ xrayRuns.on => workerRuns[e] > 0
      <4>1. e \in DnsExits /\ e \in dnsBefore.xray
        BY <2>1, <1>3 DEF XrayUntouched
      <4>2. /\ e \in dnsBefore.enabled /\ dnsBefore.file[e] > 0
            /\ dnsBefore.xrayRuns.on => dnsBefore.runs[e] > 0
        BY <4>1, <2>1 DEF BeforeServes, Serves
      <4> QED  BY <4>1, <4>2, <2>1, <2>2 DEF BackUp, XrayUntouched
    <3>3. xrayRuns.on => xrayRuns.via = xrayFile
      BY <2>1 DEF XrayUntouched, BeforeServes, Serves
    <3> QED  BY <3>1, <3>2, <3>3 DEF HostServes, Serves
  <2>4. HostServes'
    BY <2>3, <1>1 DEF HostServes
  <2>5. workerFile = dnsBefore.file /\ workerEnabled = dnsBefore.enabled
    <3>1. workerFile \in [DnsExits -> ExitVersions] /\ workerEnabled \subseteq DnsExits
      BY <1>0 DEF DnsShape
    <3>2. workerFile = dnsBefore.file
      BY <3>1, <2>2, <1>3
    <3>3. workerEnabled = dnsBefore.enabled
      BY <3>1, <2>2, <1>3
    <3> QED  BY <3>2, <3>3
  <2>6. DnsState' = [chosen |-> dnsBefore.chosen, file |-> dnsBefore.file,
                     enabled |-> dnsBefore.enabled, runs |-> workerRuns,
                     xray |-> dnsBefore.xray, xrayRuns |-> dnsBefore.xrayRuns]
    BY <2>1, <2>5, <1>1 DEF DnsState, XrayUntouched
  <2>7. dnsBefore = [chosen |-> dnsBefore.chosen, file |-> dnsBefore.file,
                     enabled |-> dnsBefore.enabled, runs |-> dnsBefore.runs,
                     xray |-> dnsBefore.xray, xrayRuns |-> dnsBefore.xrayRuns]
    BY <1>0 DEF DnsShape, WorkerStates
  <2>8. [DnsState' EXCEPT !.runs = <<>>] = [dnsBefore EXCEPT !.runs = <<>>]
    BY <2>6, <2>7
  <2>9. UndoneIsAsBefore'
    BY <2>2, <2>8, <1>1 DEF UndoneIsAsBefore, RunsAsBefore, BackUp
  <2> QED  BY <2>4, <2>9, <1>2, <1>4 DEF DnsInv, SafeInv
<1> QED  BY <1>5, <1>6

(* A killed refresh leaves its manifest, by which the next one undoes it.   *)
LEMMA KillStep == ASSUME DnsInv, KillRefresh PROVE DnsInv'
<1>0. /\ ~AtDns("none") /\ DnsShape /\ PhaseInv
      /\ refresh.step \in DnsSteps /\ manifest.phase \in DnsPhases
  BY Midway DEF KillRefresh, DnsShape, Refreshes, Manifests
<1>1. UNCHANGED <<exitVersion, dnsChosen, workerFile, workerEnabled, workerRuns, xrayFile,
                  xrayRuns, manifest, dnsBefore>>
  BY DEF KillRefresh
<1>2. refresh'.step = "none" /\ refresh' \in Refreshes
  BY Resting DEF KillRefresh, NoRefresh
<1>3. DnsTypeInv'
  BY <1>0, <1>1, <1>2 DEF DnsTypeInv, DnsShape, PhaseInv, StepInv, StartingWorkers, SwitchingXray
<1>4. UndoneIsAsBefore'
  BY DEF KillRefresh, Ended, UndoneIsAsBefore
<1>5. ASSUME dnsOutcome' # "broken" PROVE HostServes
  <2>0. dnsOutcome # "broken" /\ ~Undoing /\ ~AtDns("restart") /\ ~SomeStartFailed
    BY <1>5 DEF KillRefresh, Ended
  <2>1. BeforeServes /\ ManifestInv /\ FreshInv /\ XrayInv
    BY <1>0, <2>0, Midway
  <2>2. xrayFile \subseteq DnsExits /\ dnsBefore.xray \subseteq DnsExits
    BY <1>0 DEF DnsShape, WorkerStates
  <2>3. CASE AtDns("prepare") \/ AtDns("apply")
    <3>1. XrayUntouched /\ \A e \in DnsExits : Untouched(e)
      BY <2>1, <2>3, <1>0 DEF FreshInv, XrayInv, PhaseInv
    <3> QED  BY <3>1, <2>1, <2>2 DEF HostServes, BeforeServes, Serves, Untouched, XrayUntouched
  <2>4. CASE StartingWorkers \/ AtDns("compare") \/ AtDns("activate")
    <3>0. manifest.phase = "applying"
      BY <2>4, <1>0 DEF PhaseInv, StartingWorkers, SwitchingXray
    <3>1. XrayUntouched
      BY <2>1, <2>4, <1>0 DEF XrayInv, StartingWorkers
    <3>2. ASSUME NEW e \in DnsExits, workerFile[e] = 0
          PROVE  e \notin workerEnabled /\ workerRuns[e] = 0
      <4>1. WorkerInv(e)
        BY <3>0, <1>0, <2>0, Midway
      <4> QED  BY <4>1, <3>2, <2>4 DEF WorkerInv
    <3>3. ASSUME NEW e \in xrayFile
          PROVE  /\ e \in workerEnabled /\ workerFile[e] > 0
                 /\ xrayRuns.on => workerRuns[e] > 0
      <4>1. e \in DnsExits /\ e \in dnsBefore.xray
        BY <3>1, <2>2 DEF XrayUntouched
      <4>2. /\ e \in dnsBefore.enabled /\ dnsBefore.file[e] > 0
            /\ dnsBefore.xrayRuns.on => dnsBefore.runs[e] > 0
        BY <4>1, <2>1 DEF BeforeServes, Serves
      <4>3. WorkerInv(e) /\ e \in manifest.old
        BY <3>0, <4>1, <4>2, <1>0, <2>0, <2>1, Midway DEF ManifestInv
      <4>4. e \in workerEnabled /\ workerFile[e] > 0
        BY <4>2, <4>3, <2>4 DEF WorkerInv
      <4>5. workerRuns[e] \in ExitVersions
        BY <4>1, <1>0 DEF DnsShape
      <4>6. xrayRuns.on => dnsBefore.runs[e] > 0
        BY <4>2, <3>1 DEF XrayUntouched
      <4>7. CASE e \notin manifest.desired
        BY <4>3, <4>4, <4>6, <4>7, <2>4 DEF WorkerInv, Untouched
      <4>8. CASE e \in manifest.desired \ manifest.changed
        BY <4>3, <4>4, <4>6, <4>8 DEF WorkerInv
      <4>9. CASE e \in manifest.changed
        <5>1. CASE e \in refresh.todo /\ StartingWorkers
          BY <5>1, <4>3, <4>4, <4>6 DEF WorkerInv
        <5>2. CASE e \notin refresh.todo
          <6>1. workerRuns[e] # 0
            BY <5>2, <4>9, <2>0 DEF SomeStartFailed
          <6> QED  BY <6>1, <4>4, <4>5, ExitDnsAssumption DEF ExitVersions
        <5>3. CASE ~StartingWorkers
          <6>1. SwitchingXray /\ e \in manifest.desired
            BY <5>3, <2>4, <4>9, <1>0 DEF SwitchingXray, DnsShape
          <6> QED  BY <6>1, <4>3, <4>4 DEF WorkerInv
        <5> QED  BY <5>1, <5>2, <5>3
      <4> QED  BY <4>7, <4>8, <4>9
    <3>4. xrayRuns.on => xrayRuns.via = xrayFile
      BY <3>1, <2>1 DEF XrayUntouched, BeforeServes, Serves
    <3> QED  BY <3>2, <3>3, <3>4 DEF HostServes, Serves
  <2>5. CASE AtDns("commit")
    <3>0. manifest.phase = "applying"
      BY <2>5, <1>0 DEF PhaseInv, SwitchingXray
    <3>1. xrayFile = manifest.desired /\ (xrayRuns.on => xrayRuns.via = xrayFile)
      BY <2>1, <2>5 DEF XrayInv
    <3>2. \A e \in DnsExits : WorkerInv(e)
      BY <3>0, <1>0, <2>0, Midway
    <3>3. \A e \in DnsExits : workerFile[e] = 0 => e \notin workerEnabled /\ workerRuns[e] = 0
      BY <3>2, <2>5 DEF WorkerInv
    <3>4. \A e \in xrayFile : workerFile[e] > 0 /\ e \in workerEnabled /\ workerRuns[e] > 0
      BY <3>1, <3>2, <2>2, <2>5 DEF WorkerInv, SwitchingXray
    <3> QED  BY <3>1, <3>3, <3>4 DEF HostServes, Serves
  <2> QED  BY <2>0, <2>3, <2>4, <2>5, <1>0 DEF DnsSteps, Undoing, StartingWorkers
<1>6. dnsOutcome' # "broken" => HostServes'
  BY <1>5, <1>1 DEF HostServes
<1> QED  BY <1>2, <1>3, <1>4, <1>6 DEF DnsInv, SafeInv

(* After a reboot what is enabled runs on the files that are there.         *)
LEMMA RebootStep == ASSUME DnsInv, RebootDns PROVE DnsInv'
<1>0. AtDns("none") /\ DnsShape
  BY DEF DnsInv, DnsTypeInv, RebootDns
<1>1. UNCHANGED <<exitVersion, dnsChosen, workerFile, workerEnabled, xrayFile, manifest,
                  refresh, dnsBefore>>
  BY DEF RebootDns
<1>2. /\ workerRuns' \in [DnsExits -> ExitVersions]
      /\ \A e \in DnsExits : workerRuns'[e] = IF e \in workerEnabled THEN workerFile[e] ELSE 0
      /\ xrayRuns' \in XrayRunStates /\ xrayRuns'.via = xrayFile
  BY <1>0, ExitDnsAssumption DEF RebootDns, DnsShape, ExitVersions, XrayRunStates, XrayWith
<1>3. DnsTypeInv'
  BY <1>0, <1>1, <1>2 DEF DnsTypeInv, DnsShape, PhaseInv, StepInv, StartingWorkers, SwitchingXray
<1>4. ASSUME dnsOutcome' # "broken" PROVE HostServes'
  <2>1. HostServes
    BY <1>0, <1>4 DEF DnsInv, SafeInv, RebootDns, Ended
  <2>2. xrayFile \subseteq DnsExits
    BY <1>0 DEF DnsShape
  <2>3. \A e \in DnsExits : workerFile[e] = 0 => e \notin workerEnabled /\ workerRuns'[e] = 0
    BY <2>1, <1>2 DEF HostServes, Serves
  <2>4. \A e \in xrayFile : e \in workerEnabled /\ workerFile[e] > 0 /\ workerRuns'[e] > 0
    BY <2>1, <2>2, <1>2 DEF HostServes, Serves
  <2> QED  BY <2>3, <2>4, <1>1, <1>2 DEF HostServes, Serves
<1>5. UndoneIsAsBefore'
  BY DEF RebootDns, Ended, UndoneIsAsBefore
<1> QED  BY <1>0, <1>1, <1>3, <1>4, <1>5 DEF DnsInv, SafeInv

(* An edit of an exit changes what the next refresh will want.              *)
LEMMA EditExitStep == ASSUME DnsInv, EditExit PROVE DnsInv'
<1>0. AtDns("none") /\ DnsShape
  BY DEF DnsInv, DnsTypeInv, EditExit
<1>1. UNCHANGED <<dnsChosen, workerFile, workerEnabled, workerRuns, xrayFile, xrayRuns,
                  manifest, refresh, dnsBefore, dnsOutcome>>
  BY DEF EditExit
<1>2. exitVersion' \in [DnsExits -> ExitVersions]
  BY <1>0, ExitDnsAssumption DEF EditExit, DnsShape, ExitVersions
<1>3. DnsTypeInv'
  BY <1>0, <1>1, <1>2 DEF DnsTypeInv, DnsShape, PhaseInv, StepInv, StartingWorkers, SwitchingXray
<1>4. dnsOutcome' # "broken" => HostServes'
  BY <1>0, <1>1 DEF DnsInv, SafeInv, HostServes
<1>5. UndoneIsAsBefore'
  BY <1>1 DEF DnsInv, UndoneIsAsBefore, DnsState, RunsAsBefore
<1> QED  BY <1>0, <1>1, <1>3, <1>4, <1>5 DEF DnsInv, SafeInv

(* The first host serves what it routes. *)
LEMMA DnsInitInv == DnsInit => DnsInv
<1> SUFFICES ASSUME DnsInit PROVE DnsInv
  OBVIOUS
<1>1. /\ refresh.step = "none" /\ refresh \in Refreshes
      /\ manifest.phase = "none" /\ manifest.changed = {} /\ manifest \in Manifests
  BY Resting DEF DnsInit, NoRefresh, NoManifest
<1>2. 0 \in ExitVersions /\ 1 \in ExitVersions
  BY ExitDnsAssumption DEF ExitVersions
<1>3. /\ exitVersion \in [DnsExits -> ExitVersions]
      /\ workerFile \in [DnsExits -> ExitVersions] /\ workerRuns \in [DnsExits -> ExitVersions]
      /\ dnsChosen \subseteq DnsExits /\ workerEnabled \subseteq DnsExits
      /\ xrayFile \subseteq DnsExits
  BY <1>2 DEF DnsInit
<1>4. xrayRuns \in XrayRunStates /\ (xrayRuns.on => xrayRuns.via = xrayFile)
  <2>1. /\ XrayWith(dnsChosen) \in XrayRunStates /\ XrayWith(dnsChosen).via = dnsChosen
        /\ XrayStopped \in XrayRunStates /\ ~XrayStopped.on
    BY <1>3 DEF XrayRunStates, XrayWith, XrayStopped
  <2> QED  BY <2>1 DEF DnsInit
<1>5. dnsBefore \in WorkerStates
  BY <1>3, <1>4 DEF DnsInit, DnsState, WorkerStates
<1>6. DnsTypeInv
  BY <1>1, <1>3, <1>4, <1>5 DEF DnsTypeInv, DnsShape, PhaseInv, StepInv, StartingWorkers, SwitchingXray
<1>7. HostServes
  <2>1. \A e \in DnsExits : workerFile[e] = IF e \in dnsChosen THEN 1 ELSE 0
    BY DEF DnsInit
  <2>2. workerRuns = workerFile /\ workerEnabled = dnsChosen /\ xrayFile = dnsChosen
    BY DEF DnsInit
  <2> QED  BY <2>1, <2>2, <1>3, <1>4 DEF HostServes, Serves
<1>8. UndoneIsAsBefore
  BY DEF DnsInit, UndoneIsAsBefore
<1> QED  BY <1>1, <1>6, <1>7, <1>8 DEF DnsInv, SafeInv

(* Every step keeps the invariant.                                          *)
LEMMA DnsNextInv == DnsInv /\ [DnsNext]_dnsVars => DnsInv'
<1> SUFFICES ASSUME DnsInv, [DnsNext]_dnsVars PROVE DnsInv'
  OBVIOUS
<1>1. CASE UNCHANGED dnsVars
  BY <1>1 DEF DnsInv, DnsTypeInv, DnsShape, PhaseInv, StepInv, SafeInv, ManifestInv, WorkerInv,
              DnsUndoInv, FreshInv, XrayInv, BeforeServes, HostServes, Untouched,
              XrayUntouched, BackUp, StartingWorkers, SwitchingXray, Undoing, UndoneIsAsBefore,
              RunsAsBefore, DnsState
<1> QED
  BY <1>1, EditExitStep, BeginStep, PrepareStep, ApplyStep, WriteWorkerStep, StartStep, ProbeStep,
     CompareStep, InstallStep, RestartStep, CommitStep, UndoXrayStep, UndoNewStep,
     UndoFilesStep, UndoUnitsStep, UndoChoiceStep, KillStep, RebootStep DEF DnsNext

(* The invariant holds in every behaviour.                                  *)
LEMMA DnsInvariant == DnsSpec => []DnsInv
BY DnsInitInv, DnsNextInv, PTL DEF DnsSpec

(* The types of the resolvers' state; only the desired workers are changed. *)
THEOREM DnsTypesCorrect == DnsSpec => []DnsTypeOK
<1>1. DnsInv => DnsTypeOK
  BY DEF DnsInv, DnsTypeInv, DnsShape, DnsTypeOK, ExitVersions, XrayRunStates
<1> QED  BY <1>1, DnsInvariant, PTL

(* An exit that the running Xray routes through a worker has its worker     *)
(* running whenever no refresh is under way, however the last one ended,    *)
(* unless a kill broke it: xrayFile and the workers are switched and taken  *)
(* back in the right order by refresh_server_relay and its trap.            *)
THEOREM RoutesAlwaysServed == DnsSpec => []RoutesHaveWorkers
<1>1. DnsInv => RoutesHaveWorkers
  BY DEF DnsInv, SafeInv, HostServes, Serves, RoutesHaveWorkers
<1> QED  BY <1>1, DnsInvariant, PTL

(* A refresh that failed at any step and was undone leaves the files, the  *)
(* units, Xray and the choice as they were, from the manifest alone.       *)
THEOREM UndoRestores == DnsSpec => []UndoneIsAsBefore
<1>1. DnsInv => UndoneIsAsBefore
  BY DEF DnsInv
<1> QED  BY <1>1, DnsInvariant, PTL
-----------------------------------------------------------------------------
(* The three parts in one host                                             *)

(* Seen by itself, every part behaves as its own specification says: the    *)
(* others only share the change lock with it.                              *)
LEMMA WindowsCompose == WindowsSpec => RestoreSpec /\ DnsSpec /\ AwgSpec
<1>1. WindowsInit => RestoreInit /\ DnsInit /\ AwgInit
  BY DEF WindowsInit
<1>2. ASSUME [WindowsNext]_<<part, restoreVars, dnsVars, awgVars>>
      PROVE  [RestoreNext]_restoreVars /\ [DnsNext]_dnsVars /\ [AwgNext]_awgVars
  <2>1. CASE UNCHANGED <<part, restoreVars, dnsVars, awgVars>>
    BY <2>1
  <2>2. CASE WindowsNext
    BY <2>2 DEF WindowsNext
  <2> QED  BY <1>2, <2>1, <2>2
<1> QED  BY <1>1, <1>2, PTL DEF WindowsSpec, RestoreSpec, DnsSpec, AwgSpec

(* Every variable of the three parts keeps its type.                       *)
THEOREM WindowsTypesCorrect == WindowsSpec => []WindowsTypeOK
<1>1. RestoreTypeOK /\ DnsTypeOK /\ AwgTypeOK => WindowsTypeOK
  BY DEF WindowsTypeOK
<1> QED
  BY <1>1, WindowsCompose, RestoreTypesCorrect, DnsTypesCorrect, AwgTypesCorrect, PTL

(* In the host that the runs check, the restore, the resolvers and the      *)
(* nodes keep their promises for every value of the constants.             *)
THEOREM WindowsKeepPromises ==
    WindowsSpec =>
        /\ [](OriginalsAreKept /\ RestoreIsAllOrNothing)
        /\ [](RoutesHaveWorkers /\ UndoneIsAsBefore)
        /\ [](PendingIsRestricted /\ NoInheritedAccess)
        /\ ConfirmedByAnother /\ TimerKnowsItsWindow
<1> QED
  BY WindowsCompose, OriginalsAlwaysKept, RestoresWhole, RoutesAlwaysServed, UndoRestores,
     PendingStaysRestricted, NobodyInherits, OnlyOthersConfirm, TimersKeepToTheirWindow, PTL
=============================================================================
