----------------------------- MODULE RootLogin ------------------------------
(***************************************************************************)
(* How root gets in by SSH: the keys of authorized_keys, which tasks of    *)
(* the website add and delete (lib/server_kit_ssh_keys.py), and the        *)
(* hardening that forbids passwords (debian_security_manager.sh), which    *)
(* its own transient timer takes back unless it is confirmed.              *)
(*                                                                         *)
(* Tasks run one after the other under the change lock.  The timer's       *)
(* rollback and the administrator's editor take no lock.                   *)
(***************************************************************************)
EXTENDS Integers, FiniteSets

CONSTANTS
    RootKeys,
    LineForms,          \* what lines of authorized_keys look like
    MaxKeyTasks,        \* previews: bounds the model
    MaxHardenings,      \* windows: bounds the model
    MaxRootEdits,       \* edits of authorized_keys by root: bounds the model
    MaxLoginTroubles    \* failed steps and kills: bounds the model

(* A key, one with options before it, and one behind a "#".  Besides there *)
(* is Junk: a line that is neither empty nor a comment nor a key.          *)
ASSUME LoginAssumption ==
    /\ "plain" \in LineForms /\ LineForms \subseteq {"plain", "options", "commented"}
    /\ {MaxKeyTasks, MaxHardenings, MaxRootEdits, MaxLoginTroubles} \subseteq Nat

VARIABLES
    rlLines,        \* the lines of authorized_keys
    rlPending,      \* keys staged for an addition, each with a token
    rlFile,         \* the drop-in of sshd forbids passwords
    rlLive,         \* sshd has loaded it
    rlWindow,       \* the pending transaction: what it restores
    rlTimer,        \* the rollback timer is armed
    rlAuto,         \* the step of the rollback the timer has started
    rlTasks,        \* previewed changes of keys
    rlShell,        \* the command that holds the change lock
    rlRaced,        \* history: one of the two races of RootCanLogin was lost
    rlBounds        \* what is left of the bounds

loginVars == <<rlLines, rlPending, rlFile, rlLive, rlWindow, rlTimer, rlAuto, rlTasks,
               rlShell, rlRaced, rlBounds>>

rlKeys == <<rlLines, rlPending, rlTasks, rlRaced>>
rlAuth == <<rlFile, rlLive, rlWindow, rlTimer>>

Junk == [key |-> "", form |-> "junk"]

AnyLine == [key : RootKeys, form : LineForms] \cup {Junk}

NoAuthWindow == [open |-> FALSE, before |-> FALSE]

NoRlShell == [op |-> "none", step |-> "none", key |-> "", seen |-> {}]

SpendRl(what) == /\ rlBounds[what] > 0
                 /\ rlBounds' = [rlBounds EXCEPT ![what] = @ - 1]

AtRl(step) == rlShell.step = step

GoRl(step) == rlShell' = [rlShell EXCEPT !.step = step]

(* What sshd accepts. *)
Effective(lines) == {l \in lines : l.form \in {"plain", "options"}}

(* key_from_authorized_line takes what follows the first word that names a *)
(* type of key; existing_keys names every key once.                        *)
KeyLines(lines) == lines \ {Junk}

Listed(lines) == {l.key : l \in KeyLines(lines)}

(* root_authorized_key_count *)
Counted == {l \in rlLines : l.form # "commented"}
-----------------------------------------------------------------------------
(* Changes of keys: previews, and the listing as the fact they rest on.    *)

FaultDeletable(lines) == Cardinality(KeyLines(lines)) > 1

Deletable(lines) == Cardinality(Listed(lines)) > 1

PreviewKey(op, k) ==
    /\ op = "delete" => k \in Listed(rlLines) /\ Deletable(rlLines)
    /\ SpendRl("tasks")
    /\ rlTasks' = rlTasks \cup {[op |-> op, key |-> k, listing |-> Listed(rlLines)]}
    /\ rlPending' = IF op = "add" THEN rlPending \cup {k} ELSE rlPending
    /\ UNCHANGED <<rlLines, rlRaced, rlAuth, rlAuto, rlShell>>

ExecuteKey(t) ==
    /\ AtRl("none")
    /\ rlTasks' = rlTasks \ {t}
    /\ IF t.listing = Listed(rlLines)
       THEN /\ rlShell' = [op |-> t.op, step |-> "read", key |-> t.key, seen |-> {}]
            /\ rlPending' = IF t.op = "add" THEN rlPending \cup {t.key} ELSE rlPending
       ELSE UNCHANGED <<rlShell, rlPending>>
    /\ UNCHANGED <<rlLines, rlRaced, rlAuth, rlAuto, rlBounds>>

(* delete_key reads the lines it will write before it checks the keys;     *)
(* add_key spends its token, checks for a duplicate and reads them last.   *)
ReadAuthorizedKeys ==
    /\ AtRl("read")
    /\ rlShell' = [rlShell EXCEPT !.step = "check", !.seen = rlLines]
    /\ rlPending' = rlPending \ {rlShell.key}
    /\ UNCHANGED <<rlLines, rlTasks, rlRaced, rlAuth, rlAuto, rlBounds>>

KeyChangeAllowed ==
    IF rlShell.op = "delete" THEN rlShell.key \in Listed(rlLines) /\ Deletable(rlLines)
    ELSE rlShell.key \notin Listed(rlLines)

CheckKeys ==
    /\ AtRl("check")
    /\ rlShell' = IF ~KeyChangeAllowed THEN NoRlShell
                  ELSE [rlShell EXCEPT !.step = "write",
                            !.seen = IF rlShell.op = "add" THEN rlLines ELSE @]
    /\ UNCHANGED <<rlKeys, rlAuth, rlAuto, rlBounds>>

(* Every line that names the deleted key goes.                             *)
Remaining(lines, k) == {l \in lines : l.key # k}

WriteAuthorizedKeys ==
    /\ AtRl("write")
    /\ rlLines' = IF rlShell.op = "delete" THEN Remaining(rlShell.seen, rlShell.key)
                  ELSE rlShell.seen \cup {[key |-> rlShell.key, form |-> "plain"]}
    /\ rlShell' = NoRlShell
    /\ UNCHANGED <<rlPending, rlTasks, rlRaced, rlAuth, rlAuto, rlBounds>>
-----------------------------------------------------------------------------
(* harden-ssh-auth, confirm-ssh-auth and rollback-ssh-auth.                *)

MayHarden == Counted # {}

BeginHardening ==
    /\ AtRl("none") /\ ~rlWindow.open /\ MayHarden
    /\ SpendRl("windows")
    /\ rlWindow' = [open |-> TRUE, before |-> rlFile]
    /\ rlShell' = [NoRlShell EXCEPT !.op = "harden", !.step = "dropin"]
    /\ UNCHANGED <<rlKeys, rlFile, rlLive, rlTimer, rlAuto>>

(* A configuration sshd refuses is taken back at once.                     *)
WriteDropin ==
    /\ AtRl("dropin")
    /\ \/ /\ rlFile' = TRUE
          /\ GoRl("arm")
          /\ UNCHANGED <<rlWindow, rlBounds>>
       \/ /\ SpendRl("troubles")
          /\ rlFile' = rlWindow.before /\ rlWindow' = NoAuthWindow
          /\ rlShell' = NoRlShell
    /\ UNCHANGED <<rlKeys, rlLive, rlTimer, rlAuto>>

(* A timer and a rollback that are left from an earlier window are stopped *)
(* first.                                                                  *)
ArmAuthTimer ==
    /\ AtRl("arm")
    /\ \/ /\ rlTimer' = TRUE
          /\ GoRl("reload")
          /\ UNCHANGED <<rlFile, rlWindow, rlBounds>>
       \/ /\ SpendRl("troubles")
          /\ rlFile' = rlWindow.before /\ rlWindow' = NoAuthWindow
          /\ rlShell' = NoRlShell
          /\ rlTimer' = FALSE
    /\ rlAuto' = "none"
    /\ UNCHANGED <<rlKeys, rlLive>>

(* ssh_auth_is_hardened reads the configuration as sshd would load it now. *)
NotHardened == [rlShell EXCEPT !.step = "restore"]

IfHardened == IF rlFile THEN NoRlShell ELSE NotHardened

(* A reload that fails goes unnoticed and the window opens with the sshd of *)
(* before; only one that does not run any more is taken back.              *)
ReloadSsh ==
    /\ AtRl("reload")
    /\ \/ /\ rlLive' = rlFile
          /\ rlShell' = IfHardened
          /\ UNCHANGED rlBounds
       \/ /\ SpendRl("troubles")
          /\ rlShell' \in {IfHardened, NotHardened}
          /\ UNCHANGED rlLive
    /\ UNCHANGED <<rlKeys, rlFile, rlWindow, rlTimer, rlAuto>>

(* The administrator confirms after a login with a key has succeeded; the  *)
(* configuration is checked once more.                                     *)
ConfirmHardening ==
    /\ AtRl("none") /\ rlWindow.open
    /\ Effective(rlLines) # {}
    /\ rlShell' = [NoRlShell EXCEPT !.op = "confirm",
                      !.step = IF rlFile THEN "drop" ELSE "restore"]
    /\ UNCHANGED <<rlKeys, rlAuth, rlAuto, rlBounds>>

DropAuthWindow ==
    /\ AtRl("drop")
    /\ rlWindow' = NoAuthWindow
    /\ GoRl("cancel")
    /\ UNCHANGED <<rlKeys, rlFile, rlLive, rlTimer, rlAuto, rlBounds>>

(* Stopping the timer's service also ends a rollback it has begun.         *)
CancelAuthTimer ==
    /\ AtRl("cancel")
    /\ rlTimer' = FALSE /\ rlAuto' = "none"
    /\ rlShell' = NoRlShell
    /\ UNCHANGED <<rlKeys, rlFile, rlLive, rlWindow, rlBounds>>

BeginRollback ==
    /\ AtRl("none") /\ rlWindow.open
    /\ rlShell' = [NoRlShell EXCEPT !.op = "rollback", !.step = "restore"]
    /\ UNCHANGED <<rlKeys, rlAuth, rlAuto, rlBounds>>

(* rollback_ssh_auth, by the command or by the timer: the drop-in comes    *)
(* back, sshd loads it, and the transaction goes.                          *)
AuthTimerFires ==
    /\ rlTimer
    /\ rlTimer' = FALSE
    /\ rlAuto' = IF rlWindow.open THEN "restore" ELSE "none"
    /\ UNCHANGED <<rlKeys, rlFile, rlLive, rlWindow, rlShell, rlBounds>>

RestoreDropin ==
    /\ rlWindow.open
    /\ rlFile' = rlWindow.before
    /\ \/ AtRl("restore") /\ GoRl("load") /\ UNCHANGED rlAuto
       \/ rlAuto = "restore" /\ rlAuto' = "load" /\ UNCHANGED rlShell
    /\ UNCHANGED <<rlKeys, rlLive, rlWindow, rlTimer, rlBounds>>

(* Without the transaction there is nothing to restore it from.            *)
NothingToRestore ==
    /\ ~rlWindow.open
    /\ \/ AtRl("restore") /\ rlShell' = NoRlShell /\ UNCHANGED rlAuto
       \/ rlAuto = "restore" /\ rlAuto' = "none" /\ UNCHANGED rlShell
    /\ UNCHANGED <<rlKeys, rlAuth, rlBounds>>

LoadRestored ==
    /\ rlLive' = rlFile
    /\ \/ AtRl("load") /\ GoRl("drop") /\ UNCHANGED rlAuto
       \/ rlAuto = "load" /\ rlAuto' = "drop" /\ UNCHANGED rlShell
    /\ UNCHANGED <<rlKeys, rlFile, rlWindow, rlTimer, rlBounds>>

(* A reload that fails ends the rollback; the transaction stays.           *)
LoadFails ==
    /\ SpendRl("troubles")
    /\ \/ AtRl("load") /\ rlShell' = NoRlShell /\ UNCHANGED rlAuto
       \/ rlAuto = "load" /\ rlAuto' = "none" /\ UNCHANGED rlShell
    /\ UNCHANGED <<rlKeys, rlAuth>>

DropRestored ==
    /\ rlAuto = "drop"
    /\ rlWindow' = NoAuthWindow /\ rlTimer' = FALSE
    /\ rlAuto' = "none"
    /\ UNCHANGED <<rlKeys, rlFile, rlLive, rlShell, rlBounds>>
-----------------------------------------------------------------------------
(* Root's editor and the end of a command.  Root does not lock himself out. *)

EditAuthorizedKeys(l) ==
    /\ SpendRl("edits")
    /\ rlLines' = IF l \in rlLines THEN rlLines \ {l} ELSE rlLines \cup {l}
    /\ Effective(rlLines) # {} => Effective(rlLines') # {}
    /\ rlRaced' = (rlRaced \/ rlShell.op = "delete")
    /\ UNCHANGED <<rlPending, rlTasks, rlAuth, rlAuto, rlShell>>

KillLoginCommand ==
    /\ ~AtRl("none")
    /\ SpendRl("troubles")
    /\ rlShell' = NoRlShell
    /\ rlRaced' = (rlRaced \/ AtRl("cancel"))
    /\ UNCHANGED <<rlLines, rlPending, rlTasks, rlAuth, rlAuto>>

(* The transient timer is lost, and sshd loads the file.                   *)
RebootLogin ==
    /\ SpendRl("troubles")
    /\ rlLive' = rlFile
    /\ rlTimer' = FALSE /\ rlAuto' = "none" /\ rlShell' = NoRlShell
    /\ UNCHANGED <<rlKeys, rlFile, rlWindow>>
-----------------------------------------------------------------------------
LoginInit ==
    /\ rlLines \in {L \in SUBSET AnyLine : Cardinality(L) <= 2}
    /\ rlPending = {} /\ rlTasks = {} /\ rlRaced = FALSE
    /\ rlFile = FALSE /\ rlLive = FALSE
    /\ rlWindow = NoAuthWindow /\ rlTimer = FALSE /\ rlAuto = "none"
    /\ rlShell = NoRlShell
    /\ rlBounds = [tasks |-> MaxKeyTasks, windows |-> MaxHardenings,
                   edits |-> MaxRootEdits, troubles |-> MaxLoginTroubles]

LoginNext ==
    \/ \E op \in {"add", "delete"}, k \in RootKeys : PreviewKey(op, k)
    \/ \E t \in rlTasks : ExecuteKey(t)
    \/ ReadAuthorizedKeys \/ CheckKeys \/ WriteAuthorizedKeys
    \/ BeginHardening \/ WriteDropin \/ ArmAuthTimer \/ ReloadSsh
    \/ ConfirmHardening \/ DropAuthWindow \/ CancelAuthTimer \/ BeginRollback
    \/ AuthTimerFires \/ RestoreDropin \/ NothingToRestore \/ LoadRestored
    \/ DropRestored
    \/ \E l \in AnyLine : EditAuthorizedKeys(l)
    \/ LoadFails \/ KillLoginCommand \/ RebootLogin

LoginSpec == LoginInit /\ [][LoginNext]_loginVars
-----------------------------------------------------------------------------
(* Every variable keeps its shape. *)
LoginTypeOK ==
    /\ rlLines \subseteq AnyLine /\ rlPending \subseteq RootKeys
    /\ {rlFile, rlLive, rlWindow.open, rlWindow.before, rlTimer, rlRaced} \subseteq BOOLEAN
    /\ rlAuto \in {"none", "restore", "load", "drop"}

(* debian_security_manager.sh:467-482, 602-620 and                         *)
(* server_kit_ssh_keys.py:275-307.  While passwords are forbidden root has *)
(* a key that works, or an undecided window that can still be rolled back, *)
(* in whatever order hardenings, rollbacks by the timer, reboots and       *)
(* changes of keys come.  Two races are excepted: an edit by root while a  *)
(* deletion runs, which writes back what it read before; and a command     *)
(* killed between removing its transaction and stopping its timer, whose   *)
(* rollback may then end the next window.                                  *)
RootCanLogin == rlLive /\ ~rlRaced => Effective(rlLines) # {} \/ rlWindow.open

(* server_kit_ssh_keys.py:284: "至少必须保留一把有效的 root SSH 公钥。"      *)
(* No deletion takes the last key that works.                               *)
LastKeyRemains ==
    [][Effective(rlLines) # {} => Effective(rlLines') # {}]_loginVars
=============================================================================
