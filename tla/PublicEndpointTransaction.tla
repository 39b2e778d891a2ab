--------------------- MODULE PublicEndpointTransaction ---------------------
(***************************************************************************)
(* The stable public endpoint as a transaction (server-kit-manager.sh,     *)
(* manage_public_endpoint_json): apply changes the endpoint fact and       *)
(* migrates everything published under the old address, behind backups and *)
(* a systemd timer that restores them unless another login session         *)
(* confirms.  One action is one durable change of a script; between any    *)
(* two of them the script may be killed or the host may reboot.            *)
(*                                                                         *)
(* The content of an artifact is the address it was made for.  Scripts     *)
(* exclude each other by the change lock; one that does not get it, or is  *)
(* refused, changes nothing and is not shown.                              *)
(***************************************************************************)
EXTENDS Naturals

CONSTANTS
    Sessions,       \* login sessions
    Names,          \* domain names that may become the endpoint
    Addresses,      \* public addresses the host may have
    FirstAddress,   \* the address the host is installed with
    Faults,         \* the steps that may fail without a crash
    MaxWindows,     \* windows ever opened: bounds the model
    MaxCrashes,     \* killed scripts and reboots: bounds the model
    MaxFaults,      \* failed steps: bounds the model
    MaxMoves,       \* changes of the host's address: bounds the model
    MaxRenewals     \* renewals outside the transaction: bounds the model

FaultKinds == {"backup", "timer", "fact", "reconcile", "restart", "outcome"}

NoName == "no name"
Missing == "missing"

ASSUME EndpointAssumption ==
    /\ FirstAddress \in Addresses
    /\ {NoName, Missing} \cap (Names \cup Addresses) = {}
    /\ Faults \subseteq FaultKinds
    /\ {MaxWindows, MaxCrashes, MaxFaults, MaxMoves, MaxRenewals} \subseteq Nat

Contents == Names \cup Addresses \cup {NoName, Missing}

(* What show the address, as audit_public_ip checks it. *)
Publication == {"file_config", "certificate", "clash_config"}
Artifacts == Publication \cup {"fact", "payload"}

VARIABLES
    live,       \* the live artifacts
    address,    \* the public address of the host
    dir,        \* the transaction directory
    outcome,    \* the outcome file
    unit,       \* the transient rollback timer and its service
    script,     \* the script that holds the change lock
    bounds,     \* how much of the bounds is used up
    changed,    \* history: the last window whose change began
    rebooted    \* history: the window that was open at the last reboot

vars == <<live, address, dir, outcome, unit, script, bounds, changed, rebooted>>

NoDir ==
    [phase |-> "none", id |-> 0, session |-> "", expired |-> FALSE,
     backup |-> [a \in Artifacts |-> Missing], intact |-> FALSE,
     displaced |-> FALSE]

NoOutcome == [id |-> 0, how |-> ""]

Idle ==
    [op |-> "none", step |-> "", session |-> "", address |-> "",
     saved |-> [a \in Artifacts |-> Missing], mode |-> "forward"]

FaultNoFallback == live["fact"]

PublicAddress == IF live["fact"] = NoName THEN address ELSE live["fact"]

Audited == \A a \in Publication : live[a] = PublicAddress

At(step) == script.op # "none" /\ script.step = step

Go(step) == script' = [script EXCEPT !.step = step]

(* Call public_endpoint_restore.  In the condition of a || list the shell's *)
(* errexit is off, so that an unchecked command in it may fail unnoticed.   *)
Restore(mode) == script' = [script EXCEPT !.step = "restore", !.mode = mode]

(* The script ends without success; a failed rollback service is restarted. *)
Fail == script' = Idle /\ UNCHANGED unit

Succeed ==
    /\ script' = Idle
    /\ unit' = IF script.op = "automatic" THEN [state |-> "none", id |-> 0] ELSE unit

Spend(what) ==
    /\ bounds[what] > 0
    /\ bounds' = [bounds EXCEPT ![what] = @ - 1]

Fault(kind) == kind \in Faults /\ Spend("faults")
-----------------------------------------------------------------------------
(* A script takes the lock and checks the request.                          *)

Start(op, step, mode) ==
    /\ script = Idle
    /\ script' = [Idle EXCEPT !.op = op, !.step = step, !.mode = mode]
    /\ UNCHANGED <<live, address, dir, outcome, unit, bounds, changed, rebooted>>

StartApply(s, name) ==
    /\ script = Idle /\ dir.phase = "none"
    /\ Spend("windows")
    /\ script' = [Idle EXCEPT !.op = "apply", !.session = s, !.step = "clear",
                              !.address = name]
    /\ UNCHANGED <<live, address, dir, outcome, unit, changed, rebooted>>

Undecided == dir.phase = "pending" /\ ~dir.expired

(* The request names the window by its transaction id. *)
StartConfirm(s) ==
    \/ Undecided /\ s # dir.session /\ Start("confirm", "commit", "forward")
    \/ dir.phase # "none" /\ ~Undecided /\ Start("confirm", "restore", "lenient")

StartRollback == dir.phase # "none" /\ Start("rollback", "restore", "strict")

StartAutomatic ==
    unit.state = "started" /\ Start("automatic", "restore", "strict")

(* transaction-status settles a window that is over, and else only reads. *)
StartStatus ==
    dir.phase # "none" /\ ~Undecided /\ Start("status", "restore", "lenient")

ReadStatus == script = Idle /\ UNCHANGED vars
-----------------------------------------------------------------------------
(* apply                                                                    *)

Clear ==
    /\ At("clear")
    /\ dir' = NoDir
    /\ outcome' = NoOutcome
    /\ Go("backup")
    /\ UNCHANGED <<live, address, unit, bounds, changed, rebooted>>

BackUp ==
    /\ At("backup")
    /\ \/ /\ live["payload"] # Missing
          /\ dir' = [NoDir EXCEPT !.backup = live, !.intact = TRUE]
          /\ Go("open")
          /\ UNCHANGED <<unit, bounds>>
       \/ /\ live["payload"] = Missing
          /\ dir' = NoDir
          /\ Fail
          /\ UNCHANGED bounds
       \/ Fault("backup") /\ dir' = NoDir /\ Fail
    /\ UNCHANGED <<live, address, outcome, changed, rebooted>>

FaultChangeFirst == "set"

(* The timer must run before the first change. *)
AfterOpening == "arm"

OpenWindow ==
    /\ At("open")
    /\ dir' = [dir EXCEPT !.phase = "pending", !.id = MaxWindows - bounds.windows,
                          !.session = script.session]
    /\ Go(AfterOpening)
    /\ UNCHANGED <<live, address, outcome, unit, bounds, changed, rebooted>>

FaultChangeUnarmed == "set"

AfterRefusal == "discard"

(* systemd-run refuses a unit name that is still loaded. *)
Arm ==
    /\ At("arm")
    /\ \/ /\ unit.state = "none"
          /\ unit' = [state |-> "armed", id |-> dir.id]
          /\ Go("set")
          /\ UNCHANGED bounds
       \/ /\ unit.state # "none"
          /\ Go(AfterRefusal)
          /\ UNCHANGED <<unit, bounds>>
       \/ Fault("timer") /\ Go(AfterRefusal) /\ UNCHANGED unit
    /\ UNCHANGED <<live, address, dir, outcome, changed, rebooted>>

SetFact ==
    /\ At("set")
    /\ changed' = dir.id
    /\ \/ /\ live' = [live EXCEPT !["fact"] = script.address]
          /\ Go("audit")
          /\ UNCHANGED bounds
       \/ Fault("fact") /\ Restore("strict") /\ UNCHANGED live
    /\ UNCHANGED <<address, dir, outcome, unit, rebooted>>
-----------------------------------------------------------------------------
(* reconcile-public-ip: publish everything under the current address.       *)

Rewritten ==
    [certify |-> "certificate", withdraw |-> "payload", publish |-> "payload",
     readdress |-> "clash_config", refile |-> "file_config"]

AfterRewriting ==
    [certify |-> "withdraw", withdraw |-> "publish", publish |-> "readdress",
     readdress |-> "refile", refile |-> "reaudit"]

Reconciled ==
    IF script.mode = "forward" THEN Succeed
    ELSE Go("recheck") /\ UNCHANGED unit

ReconcileFailed ==
    /\ live' = [script.saved EXCEPT !["fact"] = live["fact"]]
    /\ IF script.mode = "forward" THEN Restore("strict") ELSE script' = Idle
    /\ UNCHANGED unit

Audit ==
    /\ At("audit")
    /\ \/ Audited /\ Reconciled
       \/ /\ ~Audited
          /\ script' = [script EXCEPT !.step = "certify", !.saved = live,
                                      !.address = PublicAddress]
          /\ UNCHANGED unit
    /\ UNCHANGED <<live, address, dir, outcome, bounds, changed, rebooted>>

Rewrite ==
    /\ script.step \in DOMAIN Rewritten
    /\ \/ /\ live' = [live EXCEPT ![Rewritten[script.step]] =
                         IF script.step = "withdraw" THEN Missing ELSE script.address]
          /\ Go(AfterRewriting[script.step])
          /\ UNCHANGED <<unit, bounds>>
       \/ Fault("reconcile") /\ ReconcileFailed
    /\ UNCHANGED <<address, dir, outcome, changed, rebooted>>

Reaudit ==
    /\ At("reaudit")
    /\ \/ Audited /\ Reconciled /\ UNCHANGED live
       \/ ~Audited /\ ReconcileFailed
    /\ UNCHANGED <<address, dir, outcome, bounds, changed, rebooted>>
-----------------------------------------------------------------------------
(* public_endpoint_restore                                                  *)

Finished == IF script.op = "automatic" THEN Succeed ELSE Go("stop") /\ UNCHANGED unit

FaultForgetPhase == dir.phase # "none"

MayRestore == dir.phase = "pending"

StartRestore ==
    /\ At("restore")
    /\ \/ dir.phase = "none" /\ Finished
       \/ dir.phase = "confirmed" /\ ~MayRestore /\ Go("outcome") /\ UNCHANGED unit
       \/ MayRestore /\ dir.intact /\ Go("fact") /\ UNCHANGED unit
       \/ MayRestore /\ ~dir.intact /\ Fail
    /\ UNCHANGED <<live, address, dir, outcome, bounds, changed, rebooted>>

AfterRestoring ==
    [fact |-> "file_config", file_config |-> "certificate",
     certificate |-> "displace", payload |-> "clash_config",
     clash_config |-> "restart"]

RestoreArtifact ==
    /\ script.step \in DOMAIN AfterRestoring
    /\ live' = [live EXCEPT ![script.step] = dir.backup[script.step]]
    /\ Go(AfterRestoring[script.step])
    /\ UNCHANGED <<address, dir, outcome, unit, bounds, changed, rebooted>>

FaultDisplaceAgain == live["payload"] # Missing

MayDisplace == dir.displaced \/ live["payload"] # Missing

(* The live payload is kept in the transaction, once, and then moved away.  *)
Displace ==
    /\ At("displace")
    /\ \/ /\ MayDisplace
          /\ live' = [live EXCEPT !["payload"] = Missing]
          /\ dir' = [dir EXCEPT !.displaced = TRUE]
          /\ Go("payload")
          /\ UNCHANGED unit
       \/ /\ ~MayDisplace
          /\ Fail
          /\ UNCHANGED <<live, dir>>
    /\ UNCHANGED <<address, outcome, bounds, changed, rebooted>>

RestartServices ==
    /\ At("restart")
    /\ \/ Go("audit") /\ UNCHANGED <<unit, bounds>>
       \/ Fault("restart") /\ Fail
    /\ UNCHANGED <<live, address, dir, outcome, changed, rebooted>>

FaultTrustTheRestore == TRUE

Verified == live = dir.backup

Recheck ==
    /\ At("recheck")
    /\ \/ Verified /\ Go("outcome") /\ UNCHANGED unit
       \/ ~Verified /\ Fail
    /\ UNCHANGED <<live, address, dir, outcome, bounds, changed, rebooted>>

(* Also the end of a confirmation, which commits the phase first.           *)
Commit ==
    /\ At("commit")
    /\ dir' = [dir EXCEPT !.phase = "confirmed"]
    /\ Go("outcome")
    /\ UNCHANGED <<live, address, outcome, unit, bounds, changed, rebooted>>

FaultForgetConfirmation ==
    IF script.op = "automatic" \/ script.mode = "lenient"
    THEN "automatic_rollback" ELSE "rolled_back"

How ==
    IF dir.phase = "confirmed" THEN "confirmed"
    ELSE IF script.op = "automatic" \/ script.mode = "lenient"
    THEN "automatic_rollback" ELSE "rolled_back"

WriteOutcome ==
    /\ At("outcome")
    /\ \/ /\ outcome' = [id |-> dir.id, how |-> How]
          /\ Go("remove")
          /\ UNCHANGED <<unit, bounds>>
       \/ /\ Fault("outcome")
          /\ IF script.mode = "lenient" THEN Go("remove") /\ UNCHANGED unit ELSE Fail
          /\ UNCHANGED outcome
    /\ UNCHANGED <<live, address, dir, changed, rebooted>>

(* rm -rf takes the directory apart in any order; metadata.json is what     *)
(* makes it a transaction, the rest is what can be restored.                *)
Remove ==
    /\ At("remove") \/ At("discard")
    /\ \/ /\ dir.intact
          /\ dir' = [dir EXCEPT !.intact = FALSE]
          /\ UNCHANGED <<script, unit>>
       \/ /\ dir' = NoDir
          /\ IF script.step = "remove" THEN Finished ELSE Fail
    /\ UNCHANGED <<live, address, outcome, bounds, changed, rebooted>>

StopTimer ==
    /\ At("stop")
    /\ script' = Idle
    /\ unit' = IF unit.state = "armed" THEN [state |-> "none", id |-> 0] ELSE unit
    /\ UNCHANGED <<live, address, dir, outcome, bounds, changed, rebooted>>
-----------------------------------------------------------------------------
(* The host                                                                 *)

Expire ==
    /\ Undecided
    /\ dir' = [dir EXCEPT !.expired = TRUE]
    /\ UNCHANGED <<live, address, outcome, unit, script, bounds, changed, rebooted>>

(* The timer of a window runs at least as long as the window.               *)
TimerElapses ==
    /\ unit.state = "armed"
    /\ ~(Undecided /\ unit.id = dir.id)
    /\ unit' = [unit EXCEPT !.state = "started"]
    /\ UNCHANGED <<live, address, dir, outcome, script, bounds, changed, rebooted>>

Kill ==
    /\ script # Idle
    /\ Spend("crashes")
    /\ script' = Idle
    /\ UNCHANGED <<live, address, dir, outcome, unit, changed, rebooted>>

(* Transient units do not survive a reboot. *)
Reboot ==
    /\ Spend("crashes")
    /\ script' = Idle
    /\ unit' = [state |-> "none", id |-> 0]
    /\ rebooted' = dir.id
    /\ UNCHANGED <<live, address, dir, outcome, changed>>

AddressChanges(a) ==
    /\ a # address
    /\ Spend("moves")
    /\ address' = a
    /\ UNCHANGED <<live, dir, outcome, unit, script, changed, rebooted>>

(* The certificate timer reconciles too, without the change lock; here in   *)
(* one step.                                                                *)
Renewed ==
    [a \in Artifacts |-> IF a = "fact" THEN live["fact"] ELSE PublicAddress]

Renew ==
    /\ ~Audited /\ live["payload"] # Missing
    /\ Spend("renewals")
    /\ live' = Renewed
    /\ UNCHANGED <<address, dir, outcome, unit, script, changed, rebooted>>
-----------------------------------------------------------------------------
Init ==
    /\ live = [a \in Artifacts |-> IF a = "fact" THEN NoName ELSE FirstAddress]
    /\ address = FirstAddress
    /\ dir = NoDir /\ outcome = NoOutcome /\ script = Idle
    /\ unit = [state |-> "none", id |-> 0]
    /\ bounds = [windows |-> MaxWindows, crashes |-> MaxCrashes,
                 faults |-> MaxFaults, moves |-> MaxMoves, renewals |-> MaxRenewals]
    /\ changed = 0 /\ rebooted = 0

Request ==
    \/ \E s \in Sessions :
          \/ StartConfirm(s)
          \/ \E name \in Names \cup {NoName} : StartApply(s, name)
    \/ StartRollback \/ StartStatus \/ ReadStatus

Step ==
    \/ Clear \/ BackUp \/ OpenWindow \/ Arm \/ SetFact
    \/ Audit \/ Rewrite \/ Reaudit
    \/ StartRestore \/ RestoreArtifact \/ Displace \/ RestartServices \/ Recheck
    \/ Commit \/ WriteOutcome \/ Remove \/ StopTimer

Environment ==
    \/ Expire \/ TimerElapses \/ StartAutomatic
    \/ Kill \/ Reboot \/ Renew
    \/ \E a \in Addresses : AddressChanges(a)

Next == Request \/ Step \/ Environment

Spec == Init /\ [][Next]_vars

(***************************************************************************)
(* Fairness.  A running script goes on, deadlines pass and timers run; a   *)
(* rollback service that failed or did not get the lock is restarted every *)
(* ten seconds, and the worker of the change-task engine asks for the      *)
(* status every second while a task waits for the window.                  *)
(***************************************************************************)
Fairness ==
    /\ WF_vars(Step) /\ WF_vars(Expire) /\ WF_vars(TimerElapses)
    /\ SF_vars(StartAutomatic) /\ SF_vars(StartStatus)

FairSpec == Spec /\ Fairness
-----------------------------------------------------------------------------
Phases == {"none", "pending", "confirmed"}
Modes == {"forward", "strict", "lenient"}
Steps ==
    {"", "clear", "backup", "open", "arm", "set", "audit", "reaudit", "restore",
     "displace", "restart", "recheck", "commit", "outcome", "remove", "discard",
     "stop"}
      \cup DOMAIN Rewritten \cup DOMAIN AfterRestoring
Ops == {"none", "apply", "confirm", "rollback", "automatic", "status"}
Units == [state : {"none", "armed", "started"}, id : 0..MaxWindows]
Outcomes ==
    [id : 0..MaxWindows,
     how : {"", "confirmed", "rolled_back", "automatic_rollback"}]
Dirs ==
    [phase : Phases, id : 0..MaxWindows, session : Sessions \cup {""},
     expired : BOOLEAN, backup : [Artifacts -> Contents], intact : BOOLEAN,
     displaced : BOOLEAN]
Scripts ==
    [op : Ops, step : Steps, session : Sessions \cup {""},
     address : Contents \cup {""}, saved : [Artifacts -> Contents], mode : Modes]
Bounds == [{"windows", "crashes", "faults", "moves", "renewals"} -> Nat]

(* Every variable keeps its type: the live artifacts, the transaction       *)
(* directory, the outcome file, the units and the script under the lock.    *)
TypeOK ==
    /\ live \in [Artifacts -> Contents]
    /\ \A a \in Artifacts \ {"fact"} : live[a] # NoName
    /\ address \in Addresses
    /\ dir \in Dirs /\ outcome \in Outcomes /\ unit \in Units
    /\ script \in Scripts /\ bounds \in Bounds
    /\ changed \in 0..MaxWindows /\ rebooted \in 0..MaxWindows
-----------------------------------------------------------------------------
OpenChange == dir.phase = "pending" /\ changed = dir.id

(* No change is live without the timer of its own window: apply arms it     *)
(* before the first change, and no way to end a window, killed scripts and  *)
(* retried rollbacks included, stops it before everything is restored.      *)
ChangeIsGuarded ==
    OpenChange /\ rebooted # dir.id => unit.state # "none" /\ unit.id = dir.id

(* A change that is neither confirmed nor asked to be undone stays for its  *)
(* whole window: no timer left over by an earlier window, and no script     *)
(* that was killed, cuts it short.                                          *)
NoEarlyRollback ==
    [][OpenChange /\ ~dir.expired /\ dir'.phase = "none" =>
          script.op \in {"apply", "rollback"}]_vars

(* A change never ends half restored: when its window is gone unconfirmed,  *)
(* everything is as it was before, or was since renewed for one address     *)
(* with the endpoint of before.                                             *)
NeverHalfRestored ==
    [][OpenChange /\ dir'.phase = "none" =>
          \/ live = dir.backup
          \/ /\ live["fact"] = dir.backup["fact"]
             /\ \E c \in Names \cup Addresses :
                   \A a \in Artifacts \ {"fact"} : live[a] = c]_vars

(* What was confirmed stays: after the commit no rollback, no retry and no  *)
(* left over timer touches the live artifacts.                              *)
ConfirmedStays ==
    [][dir.phase = "confirmed" => live' \in {live, Renewed}]_vars

(* A restore cannot succeed by itself: the backups are damaged, the payload *)
(* was lost before it was displaced, or the old state does not fit the      *)
(* host's address any more.                                                 *)
NeedsRepair ==
    \/ ~dir.intact
    \/ live["payload"] = Missing /\ ~dir.displaced /\ script = Idle
    \/ \E a \in Publication :
          dir.backup[a] # IF dir.backup["fact"] = NoName
                          THEN address ELSE dir.backup["fact"]

(* A window that is over gets closed, through failing services, killed      *)
(* scripts and a reboot that forgets the timer, unless it needs repair.     *)
ExpiredWindowCloses ==
    (dir.phase = "pending" /\ dir.expired) ~> (dir.phase # "pending" \/ NeedsRepair)

Abstract == INSTANCE GuardedWindow WITH
    state <- IF dir.phase = "pending" THEN "pending" ELSE "idle",
    number <- IF dir.phase # "none" THEN dir.id ELSE outcome.id,
    outcome <- CASE dir.phase = "confirmed" -> "confirmed"
                 [] dir.phase = "pending" -> ""
                 [] OTHER -> outcome.how,
    changed <- OpenChange

(* What the status shows is a guarded window: whatever is killed, one       *)
(* window is open at a time and how it ended is never lost or revised.      *)
ImplementsGuardedWindow == Abstract!Spec
-----------------------------------------------------------------------------
(* What the documents and tests say and the code does not do.               *)

(* A window that is over restores the old endpoint and publications.        *)
ExpiredWindowAlwaysCloses ==
    (dir.phase = "pending" /\ dir.expired) ~> dir.phase # "pending"

(* The outcome is persisted before the metadata is deleted.                 *)
OutcomePersistedFirst ==
    [][dir.phase # "none" /\ changed = dir.id /\ dir'.phase = "none" =>
          outcome.id = dir.id]_vars
=============================================================================
