------------------------------ MODULE ExitDns ------------------------------
(***************************************************************************)
(* Exit-consistent DNS (lib/server_kit_exit_dns.py, driven by              *)
(* refresh_server_relay and configure_server_relay_dns of                  *)
(* debian_vless_manager.sh): every exit chosen for it gets a worker        *)
(* process of its own, and the main Xray routes the exit through it.  A    *)
(* refresh starts and probes the workers, then switches Xray, then removes *)
(* the workers no longer wanted; a failed step undoes all of it in the     *)
(* exit trap of the shell.  A killed refresh undoes nothing: its           *)
(* transaction has a directory of its own that nobody opens again.         *)
(***************************************************************************)
EXTENDS Naturals

CONSTANTS
    DnsExits,           \* the exits of the proxy directory
    MaxExitVersion,     \* how often an exit is edited: bounds the model
    MaxRefreshes,       \* refreshes ever started: bounds the model
    MaxDnsTroubles      \* failed steps, kills and reboots: bounds the model

ASSUME ExitDnsAssumption == {MaxExitVersion, MaxRefreshes, MaxDnsTroubles} \subseteq Nat

VARIABLES
    exitVersion,    \* the upstream of every exit; 0: not in the directory
    dnsChosen,      \* dns_consistent_exit_ids of server-relay.json
    workerFile,     \* the configuration file of every worker; 0: no file
    workerEnabled,  \* the units enabled at boot
    workerRuns,     \* the configuration a worker runs with; 0: stopped
    xrayFile,       \* the exits Xray's file routes through workers
    xrayRuns,       \* the same of the running Xray, and whether it runs
    manifest,       \* manifest.json of the transaction
    refresh,        \* the shell: its step and local variables
    dnsBounds,      \* how much of the bounds is used up
    dnsBefore,      \* history: the state when the refresh began
    dnsOutcome      \* history: how the last refresh ended

dnsVars == <<exitVersion, dnsChosen, workerFile, workerEnabled, workerRuns, xrayFile,
             xrayRuns, manifest, refresh, dnsBounds, dnsBefore, dnsOutcome>>

dnsUnits == <<workerFile, workerEnabled, workerRuns>>
dnsXray == <<xrayFile, xrayRuns>>
dnsHistory == <<dnsBefore, dnsOutcome>>

NoManifest == [phase |-> "none", desired |-> {}, old |-> {}, files |-> <<>>,
               active |-> {}, enabled |-> {}, changed |-> {}]

NoRefresh == [step |-> "none", todo |-> {}, candidate |-> {}, written |-> "",
              restart |-> FALSE, activated |-> FALSE]

DnsState == [chosen |-> dnsChosen, file |-> workerFile, enabled |-> workerEnabled,
             runs |-> workerRuns, xray |-> xrayFile, xrayRuns |-> xrayRuns]

AtDns(step) == refresh.step = step

GoDns(step, todo) == refresh' = [refresh EXCEPT !.step = step, !.todo = todo]

SpendDns(what) ==
    /\ dnsBounds[what] > 0
    /\ dnsBounds' = [dnsBounds EXCEPT ![what] = @ - 1]

(* A failed step leaves the function; its trap undoes what was done.       *)
FailDns == SpendDns("troubles") /\ GoDns("undo_xray", {})

KeepDns == UNCHANGED dnsBounds

(* "broken": a kill, or an undoing that failed, has left Xray and the      *)
(* workers apart, see the README.                                          *)
Ended(how) == dnsOutcome' = IF dnsOutcome = "broken" THEN "broken" ELSE how

(* render_exit_dns_workers: a worker for every chosen exit that is still   *)
(* in the directory.                                                       *)
WantedWorkers == {e \in dnsChosen : exitVersion[e] > 0}

(* render_xray: the same exits leave Xray through the port of their worker. *)
CandidateRoutes == WantedWorkers
-----------------------------------------------------------------------------
EditExit ==
    /\ AtDns("none")
    /\ \E e \in DnsExits, v \in 0..MaxExitVersion :
          /\ v = 0 \/ v = exitVersion[e] + 1
          /\ v # exitVersion[e]
          /\ exitVersion' = [exitVersion EXCEPT ![e] = v]
    /\ SpendDns("edits")
    /\ UNCHANGED <<dnsChosen, dnsUnits, dnsXray, manifest, refresh, dnsHistory>>

(* configure_server_relay_dns saves the choice and refreshes; other changes *)
(* of the relay refresh with the choice as it is.                          *)
BeginRefresh ==
    /\ AtDns("none")
    /\ SpendDns("refreshes")
    /\ \E ids \in (SUBSET {e \in DnsExits : exitVersion[e] > 0}) \cup {dnsChosen} :
          dnsChosen' = ids
    /\ dnsBefore' = DnsState
    /\ dnsOutcome' = IF dnsOutcome = "broken" THEN "broken" ELSE "running"
    /\ refresh' = [NoRefresh EXCEPT !.step = "prepare"]
    /\ manifest' = NoManifest
    /\ UNCHANGED <<exitVersion, dnsUnits, dnsXray>>

ExistingWorkers == {e \in DnsExits : workerFile[e] > 0}

PrepareWorkers ==
    /\ AtDns("prepare")
    /\ \/ /\ KeepDns
          /\ manifest' =
               [phase |-> "prepared", desired |-> WantedWorkers, old |-> ExistingWorkers,
                files |-> workerFile,
                active |-> {e \in ExistingWorkers : workerRuns[e] > 0},
                enabled |-> ExistingWorkers \cap workerEnabled, changed |-> {}]
          /\ refresh' = [refresh EXCEPT !.step = "apply", !.candidate = CandidateRoutes]
       \/ FailDns /\ UNCHANGED manifest
    /\ UNCHANGED <<exitVersion, dnsChosen, dnsUnits, dnsXray, dnsHistory>>

ApplyWorkers ==
    /\ AtDns("apply")
    /\ manifest' = [manifest EXCEPT !.phase = "applying"]
    /\ GoDns("worker", manifest.desired)
    /\ KeepDns
    /\ UNCHANGED <<exitVersion, dnsChosen, dnsUnits, dnsXray, dnsHistory>>

FaultMarkEvery(e) == [manifest EXCEPT !.changed = DnsExits]

MarkChanged(e) == [manifest EXCEPT !.changed = @ \cup {e}]

(* A worker whose file changes is listed in the manifest first.            *)
WriteWorker ==
    /\ AtDns("worker")
    /\ \E e \in refresh.todo :
          /\ workerFile[e] # exitVersion[e]
          /\ manifest' = MarkChanged(e)
          /\ workerFile' = [workerFile EXCEPT ![e] = exitVersion[e]]
          /\ refresh' = [refresh EXCEPT !.step = "start", !.written = e]
    /\ KeepDns
    /\ UNCHANGED <<exitVersion, dnsChosen, workerEnabled, workerRuns, dnsXray,
                   dnsHistory>>

Restarted(e) == [workerRuns EXCEPT ![e] = workerFile[e]]

StartedIfStopped(e) == [workerRuns EXCEPT ![e] = IF @ = 0 THEN workerFile[e] ELSE @]

(* systemctl may refuse, and a process it restarted may end on its own.    *)
StartWorker ==
    /\ \E e \in refresh.todo :
          /\ \/ AtDns("start") /\ e = refresh.written
             \/ AtDns("worker") /\ workerFile[e] = exitVersion[e]
          /\ workerEnabled' = workerEnabled \cup {e}
          /\ \/ /\ workerRuns' = IF AtDns("start") THEN Restarted(e)
                                 ELSE StartedIfStopped(e)
                /\ GoDns("worker", refresh.todo \ {e})
                /\ KeepDns
             \/ /\ AtDns("start")
                /\ workerRuns' = [workerRuns EXCEPT ![e] = 0]
                /\ \/ SpendDns("troubles") /\ GoDns("worker", refresh.todo \ {e})
                   \/ FailDns
    /\ UNCHANGED <<exitVersion, dnsChosen, workerFile, dnsXray, manifest, dnsHistory>>

FaultProbeNothing == TRUE

AllAnswer == \A e \in manifest.desired : workerRuns[e] > 0

(* The probe also needs the upstream of the exit.                          *)
ProbeWorkers ==
    /\ AtDns("worker")
    /\ refresh.todo = {}
    /\ \/ AllAnswer /\ GoDns("compare", {}) /\ KeepDns
       \/ ~AllAnswer /\ GoDns("undo_xray", {}) /\ KeepDns
       \/ AllAnswer /\ FailDns
    /\ UNCHANGED <<exitVersion, dnsChosen, dnsUnits, dnsXray, manifest, dnsHistory>>

(* An unchanged Xray configuration is committed without a restart.         *)
CompareXray ==
    /\ AtDns("compare")
    /\ refresh' =
         IF refresh.candidate = xrayFile
         THEN [refresh EXCEPT !.step = "commit", !.todo = manifest.old \ manifest.desired]
         ELSE [refresh EXCEPT !.step = "activate", !.restart = xrayRuns.on,
                              !.activated = TRUE]
    /\ KeepDns
    /\ UNCHANGED <<exitVersion, dnsChosen, dnsUnits, dnsXray, manifest, dnsHistory>>

XrayWith(via) == [on |-> TRUE, via |-> via]

XrayStopped == [on |-> FALSE, via |-> {}]

InstallXray ==
    /\ AtDns("activate")
    /\ xrayFile' = refresh.candidate
    /\ GoDns("restart", {})
    /\ KeepDns
    /\ UNCHANGED <<exitVersion, dnsChosen, dnsUnits, xrayRuns, manifest, dnsHistory>>

RestartXray ==
    /\ AtDns("restart")
    /\ \/ /\ xrayRuns' = IF refresh.restart THEN XrayWith(xrayFile) ELSE xrayRuns
          /\ GoDns("commit", manifest.old \ manifest.desired)
          /\ KeepDns
       \/ refresh.restart /\ xrayRuns' = XrayStopped /\ FailDns
    /\ UNCHANGED <<exitVersion, dnsChosen, dnsUnits, xrayFile, manifest, dnsHistory>>

RemoveWorker(e) ==
    /\ workerRuns' = [workerRuns EXCEPT ![e] = 0]
    /\ workerEnabled' = workerEnabled \ {e}
    /\ workerFile' = [workerFile EXCEPT ![e] = 0]

CommitWorkers ==
    /\ AtDns("commit")
    /\ \/ /\ refresh.todo = {}
          /\ manifest' = [manifest EXCEPT !.phase = "committed"]
          /\ refresh' = NoRefresh /\ Ended("done")
          /\ KeepDns
          /\ UNCHANGED dnsUnits
       \/ \E e \in refresh.todo :
             /\ RemoveWorker(e)
             /\ GoDns("commit", refresh.todo \ {e})
             /\ KeepDns
             /\ UNCHANGED <<manifest, dnsOutcome>>
       \/ FailDns /\ UNCHANGED <<manifest, dnsOutcome, dnsUnits>>
    /\ UNCHANGED <<exitVersion, dnsChosen, dnsXray, dnsBefore>>
-----------------------------------------------------------------------------
(* The trap: Xray first, then the workers, then the choice.  Nothing stops  *)
(* it: a step that fails is passed over, or ends the undoing of the workers *)
(* alone, and the choice is put back all the same.                          *)

(* The old file is not copied back, or Xray does not start on it.           *)
UndoXrayFails ==
    /\ refresh.activated
    /\ \/ /\ UNCHANGED xrayFile
          /\ xrayRuns' = IF refresh.restart THEN XrayWith(xrayFile) ELSE xrayRuns
       \/ /\ refresh.restart
          /\ xrayFile' = dnsBefore.xray
          /\ xrayRuns' = XrayStopped

UndoXray ==
    /\ AtDns("undo_xray")
    /\ \/ /\ xrayFile' = IF refresh.activated THEN dnsBefore.xray ELSE xrayFile
          /\ xrayRuns' = IF refresh.activated /\ refresh.restart
                         THEN XrayWith(dnsBefore.xray) ELSE xrayRuns
          /\ KeepDns /\ UNCHANGED dnsOutcome
       \/ UndoXrayFails /\ SpendDns("troubles") /\ dnsOutcome' = "broken"
    /\ IF manifest.phase = "applying"
       THEN GoDns("undo_new", manifest.desired \ manifest.old)
       ELSE GoDns("undo_choice", {})
    /\ UNCHANGED <<exitVersion, dnsChosen, dnsUnits, manifest, dnsBefore>>

(* The undoing of the workers ends before its last step.                    *)
UndoBreaksOff ==
    /\ refresh.todo # {}
    /\ SpendDns("troubles")
    /\ refresh' = [refresh EXCEPT !.step = "undo_choice", !.activated = FALSE]

(* The file of a worker that would not stop goes all the same.              *)
UndoWorkerFails(e) ==
    /\ workerFile' = [workerFile EXCEPT ![e] = 0]
    /\ workerEnabled' \in {workerEnabled, workerEnabled \ {e}}
    /\ UNCHANGED workerRuns

UndoNewWorkers ==
    /\ AtDns("undo_new")
    /\ \/ /\ refresh.todo = {}
          /\ GoDns("undo_files", manifest.old)
          /\ KeepDns /\ UNCHANGED <<dnsUnits, dnsOutcome>>
       \/ \E e \in refresh.todo :
             /\ GoDns("undo_new", refresh.todo \ {e})
             /\ \/ RemoveWorker(e) /\ KeepDns /\ UNCHANGED dnsOutcome
                \/ /\ UndoWorkerFails(e)
                   /\ SpendDns("troubles") /\ dnsOutcome' = "broken"
    /\ UNCHANGED <<exitVersion, dnsChosen, dnsXray, manifest, dnsBefore>>

UndoFiles ==
    /\ AtDns("undo_files")
    /\ \/ /\ refresh.todo = {}
          /\ GoDns("undo_units", manifest.old)
          /\ KeepDns /\ UNCHANGED workerFile
       \/ \E e \in refresh.todo :
             /\ workerFile' = [workerFile EXCEPT ![e] = manifest.files[e]]
             /\ GoDns("undo_files", refresh.todo \ {e})
             /\ KeepDns
       \/ UndoBreaksOff /\ UNCHANGED workerFile
    /\ UNCHANGED <<exitVersion, dnsChosen, workerEnabled, workerRuns, dnsXray, manifest,
                   dnsHistory>>

FaultRestartRemoved(e) == e \notin manifest.desired

NeedsRestart(e) == e \in manifest.changed \/ e \notin manifest.desired

UndoUnits ==
    /\ AtDns("undo_units")
    /\ \/ /\ refresh.todo = {}
          /\ manifest' = [manifest EXCEPT !.phase = "rolled-back"]
          /\ GoDns("undo_choice", {})
          /\ KeepDns
          /\ UNCHANGED <<workerEnabled, workerRuns>>
       \/ \E e \in refresh.todo :
             /\ workerEnabled' = IF e \in manifest.enabled THEN workerEnabled \cup {e}
                                 ELSE workerEnabled \ {e}
             /\ workerRuns' =
                  IF e \notin manifest.active THEN [workerRuns EXCEPT ![e] = 0]
                  ELSE IF NeedsRestart(e) THEN Restarted(e) ELSE StartedIfStopped(e)
             /\ GoDns("undo_units", refresh.todo \ {e})
             /\ KeepDns
             /\ UNCHANGED manifest
       \/ UndoBreaksOff /\ UNCHANGED <<workerEnabled, workerRuns, manifest>>
    /\ UNCHANGED <<exitVersion, dnsChosen, workerFile, dnsXray, dnsHistory>>

UndoChoice ==
    /\ AtDns("undo_choice")
    /\ dnsChosen' = dnsBefore.chosen
    /\ refresh' = NoRefresh
    /\ Ended(IF manifest.phase \in {"none", "prepared", "rolled-back"}
             THEN "undone" ELSE "broken")
    /\ KeepDns
    /\ UNCHANGED <<exitVersion, dnsUnits, dnsXray, manifest, dnsBefore>>

Undoing == refresh.step \in {"undo_xray", "undo_new", "undo_files", "undo_units",
                             "undo_choice"}

SomeStartFailed == \E e \in manifest.changed \ refresh.todo : workerRuns[e] = 0

KillRefresh ==
    /\ ~AtDns("none")
    /\ SpendDns("troubles")
    /\ refresh' = NoRefresh
    /\ Ended(IF Undoing \/ AtDns("restart") \/ SomeStartFailed THEN "broken"
             ELSE "killed")
    /\ UNCHANGED <<exitVersion, dnsChosen, dnsUnits, dnsXray, manifest, dnsBefore>>

RebootDns ==
    /\ AtDns("none")
    /\ SpendDns("troubles")
    /\ workerRuns' = [e \in DnsExits |-> IF e \in workerEnabled THEN workerFile[e] ELSE 0]
    /\ xrayRuns' = XrayWith(xrayFile)
    /\ Ended("rebooted")
    /\ UNCHANGED <<exitVersion, dnsChosen, workerFile, workerEnabled, xrayFile, manifest,
                   refresh, dnsBefore>>
-----------------------------------------------------------------------------
DnsInit ==
    /\ exitVersion = [e \in DnsExits |-> 1]
    /\ dnsChosen \in SUBSET DnsExits
    /\ workerFile = [e \in DnsExits |-> IF e \in dnsChosen THEN 1 ELSE 0]
    /\ workerEnabled = dnsChosen
    /\ workerRuns = workerFile
    /\ xrayFile = dnsChosen
    /\ xrayRuns \in {XrayWith(dnsChosen), XrayStopped}
    /\ manifest = NoManifest /\ refresh = NoRefresh
    /\ dnsBounds = [refreshes |-> MaxRefreshes, troubles |-> MaxDnsTroubles,
                    edits |-> MaxExitVersion]
    /\ dnsBefore = DnsState /\ dnsOutcome = "done"

DnsNext ==
    \/ EditExit \/ BeginRefresh \/ PrepareWorkers \/ ApplyWorkers \/ WriteWorker
    \/ StartWorker \/ ProbeWorkers \/ CompareXray \/ InstallXray \/ RestartXray
    \/ CommitWorkers \/ UndoXray \/ UndoNewWorkers \/ UndoFiles \/ UndoUnits
    \/ UndoChoice \/ KillRefresh \/ RebootDns

DnsSpec == DnsInit /\ [][DnsNext]_dnsVars
-----------------------------------------------------------------------------
DnsTypeOK ==
    /\ exitVersion \in [DnsExits -> 0..MaxExitVersion + 1]
    /\ dnsChosen \subseteq DnsExits /\ workerEnabled \subseteq DnsExits
    /\ workerFile \in [DnsExits -> 0..MaxExitVersion + 1]
    /\ workerRuns \in [DnsExits -> 0..MaxExitVersion + 1]
    /\ xrayFile \subseteq DnsExits /\ xrayRuns.via \subseteq DnsExits
    /\ manifest.changed \subseteq manifest.desired

(* Between two refreshes every exit the running Xray routes through a       *)
(* worker has its worker running, whether the refresh was done, undone or   *)
(* killed, and after a reboot: workers come up before Xray is switched and  *)
(* go down after it.  Left out are an undoing that itself broke off, a kill *)
(* that leaves a failed start of a worker without its undoing, and a kill   *)
(* between the installation of Xray's file and its restart, after which the *)
(* next refresh takes the installed file for the running one.               *)
RoutesHaveWorkers ==
    AtDns("none") /\ dnsOutcome # "broken" /\ xrayRuns.on
    => \A e \in xrayRuns.via : workerRuns[e] > 0

(* What ran before but not from its file, after a kill, is restarted.       *)
RunsAsBefore(e) ==
    \/ workerRuns[e] = dnsBefore.runs[e]
    \/ dnsBefore.runs[e] \notin {0, dnsBefore.file[e]}

(* A refresh that failed at any step, and was undone, leaves the choice,    *)
(* the files, the enabled units, Xray and the running workers as they were. *)
UndoneIsAsBefore ==
    dnsOutcome = "undone" /\ AtDns("none")
    => /\ [DnsState EXCEPT !.runs = <<>>] = [dnsBefore EXCEPT !.runs = <<>>]
       /\ \A e \in DnsExits : RunsAsBefore(e)
=============================================================================
