---------------------------- MODULE ServiceTasks ----------------------------
(***************************************************************************)
(* Deployment of a service, its start and stop, and the links of the file  *)
(* service (core.py, runner.py, server-kit-manager.sh,                     *)
(* lib/server_kit_file_resources.py, debian_file_manager.sh).  A task is   *)
(* previewed against the host's facts, compared with them again when it    *)
(* executes, and then a script changes configuration, payloads and the     *)
(* running server one after the other.                                     *)
(*                                                                         *)
(* The agent executes one task at a time under the change lock.  The       *)
(* menus of debian_file_manager.sh take no lock: MenuDuringTasks says      *)
(* whether the administrator may use one while a task runs.                *)
(***************************************************************************)
EXTENDS Integers, Sequences, FiniteSets

CONSTANTS
    TcpPorts,
    UploadFiles,        \* files staged by the website
    MaxDownloads,       \* MAX_RESOURCES
    MenuDuringTasks,
    MaxServiceTasks,    \* previews: bounds the model
    MaxRotations,       \* rotations of every link: bounds the model
    MaxServiceTroubles  \* failed commands and kills: bounds the model

ASSUME ServiceAssumption ==
    /\ {MaxDownloads, MaxServiceTasks, MaxRotations, MaxServiceTroubles} \subseteq Nat
    /\ MenuDuringTasks \in BOOLEAN
    /\ 0 \notin TcpPorts /\ "shared" \notin UploadFiles

VARIABLES
    svServices,     \* state and port of every service
    svDownloads,    \* the links in the file service's configuration
    svServed,       \* the links its running server loaded
    svPayloads,     \* files in its data directory
    svUploads,      \* files staged for a task
    svGeneration,   \* rotations so far: a link's token belongs to one
    svTasks,        \* previewed tasks
    svShell,        \* the script of the executing task
    svMenu,         \* a menu's rotation under way: <<links it read>>
    svRefusal,      \* history: the last refusal at execution
    svBounds        \* what is left of the bounds

serviceVars == <<svServices, svDownloads, svServed, svPayloads, svUploads, svGeneration,
                 svTasks, svShell, svMenu, svRefusal, svBounds>>

SvNames == {"vless", "clash", "file"}

NoSvShell == [steps |-> <<>>, task |-> [op |-> "none"], loaded |-> {}]

SpendSv(what) == /\ svBounds[what] > 0
                 /\ svBounds' = [svBounds EXCEPT ![what] = @ - 1]

SvInstalled(s) == svServices[s].state # "absent"

Link(id) == [id |-> id, generation |-> svGeneration]

Running(s) == svServices[s].state = "running"
-----------------------------------------------------------------------------
(* Facts a preview shows and its digest covers.                            *)

(* A port of another installed service; UDP entries do not count.          *)
PortConflicts(s, port) ==
    {o \in SvNames \ {s} : SvInstalled(o) /\ svServices[o].port = port}

(* Services every deployment needs: AWG and the website are there.         *)
Dependencies(s) == IF s = "clash" THEN {"vless"} ELSE {}

DependenciesMet(s) ==
    \A o \in Dependencies(s) : svServices[o].state \in {"running", "stopped"}

AllowedOperations(s) ==
    CASE svServices[s].state = "running" -> {"stop", "restart"}
      [] svServices[s].state \in {"stopped", "failed"} -> {"start"}
      [] OTHER -> {}

DeploymentFacts(t) == [params |-> t, services |-> svServices, upload |-> t.file]

FileFacts(t) ==
    [params |-> [t EXCEPT !.staged = FALSE],
     present |-> IF t.op = "add" THEN t.file \in svUploads
                                 ELSE \E d \in svDownloads : d.id = t.file,
     state |-> svServices["file"].state]

ServiceFacts(t) == [params |-> t, state |-> svServices[t.service].state]

Facts(t) ==
    CASE t.op = "deploy" -> DeploymentFacts(t)
      [] t.op \in {"add", "delete"} -> FileFacts(t)
      [] OTHER -> ServiceFacts(t)

SvTask(op, s, file, port) ==
    [op |-> op, service |-> s, file |-> file, port |-> port, staged |-> FALSE]

(* What the database keeps: the facts of the upload are added to the       *)
(* parameters, after the digest was taken.                                 *)
StoredTask(t) ==
    [t EXCEPT !.staged = (t.op = "add" \/ (t.op = "deploy" /\ t.service = "file"))]
-----------------------------------------------------------------------------
(* Previews.                                                               *)

PreviewSv(t) ==
    /\ SpendSv("tasks")
    /\ svTasks' = svTasks \cup {[task |-> StoredTask(t), digest |-> Facts(t),
                                 stored |-> Facts(StoredTask(t))]}
    /\ UNCHANGED <<svServices, svDownloads, svServed, svPayloads, svUploads,
                   svGeneration, svShell, svMenu, svRefusal>>

(* The file service, and no other, is deployed with an upload.             *)
DeploymentValid(s, file) ==
    /\ (s = "file") = (file # "none")
    /\ file \in svUploads \cup {"none"}

PreviewDeployment(s, port, file) ==
    /\ DeploymentValid(s, file)
    /\ ~SvInstalled(s) /\ DependenciesMet(s) /\ PortConflicts(s, port) = {}
    /\ PreviewSv(SvTask("deploy", s, file, port))

FileRequestValid(op, id) ==
    IF op = "add" THEN id \in svUploads ELSE \E d \in svDownloads : d.id = id

PreviewFileTask(op, id) ==
    /\ SvInstalled("file")
    /\ FileRequestValid(op, id)
    /\ PreviewSv(SvTask(op, "file", id, 0))

PreviewServiceChange(s, op) ==
    /\ op \in AllowedOperations(s)
    /\ PreviewSv(SvTask(op, s, "none", 0))

StageUpload(f) ==
    /\ f \notin svUploads \cup svPayloads
    /\ svUploads' = svUploads \cup {f}
    /\ UNCHANGED <<svServices, svDownloads, svServed, svPayloads, svGeneration,
                   svTasks, svShell, svMenu, svRefusal, svBounds>>
-----------------------------------------------------------------------------
(* Execution: the script's commands in their order.                        *)

FaultFileSteps(op) ==
    IF op = "add" THEN <<"load", "copy", "write", "restart">>
                  ELSE <<"load", "purge", "write", "restart">>

FileSteps(op) ==
    IF op = "add" THEN <<"load", "copy", "write", "restart">>
                  ELSE <<"load", "write", "restart", "purge">>

DeploySteps(s) == IF s = "file" THEN <<"payload", "config", "enable">> ELSE <<"install">>

StepsOf(t) ==
    CASE t.op = "deploy" -> DeploySteps(t.service)
      [] t.op \in {"add", "delete"} -> FileSteps(t.op)
      [] OTHER -> <<"systemctl">>

Idle == svShell.steps = <<>>

At(step) == ~Idle /\ Head(svShell.steps) = step

MenuIdle == svMenu = <<>>

(* cleanup_task_action, and the trap of the script.                        *)
AfterCleanup(t) ==
    IF t.op = "add" \/ (t.op = "deploy" /\ t.service = "file")
    THEN svUploads \ {t.file} ELSE svUploads

Step == svShell' = [svShell EXCEPT !.steps = Tail(@)]

(* The facts are read once more, from the parameters of the database; a    *)
(* staged file that is gone ends the task as well.                         *)
ExecuteTask(r) ==
    /\ Idle /\ (MenuIdle \/ MenuDuringTasks)
    /\ svTasks' = svTasks \ {r}
    /\ IF Facts(r.task) = r.digest
       THEN /\ svShell' = [steps |-> StepsOf(r.task), task |-> r.task, loaded |-> {}]
            /\ UNCHANGED <<svRefusal, svUploads>>
       ELSE /\ svRefusal' = [refused |-> TRUE, changed |-> Facts(r.task) # r.stored]
            /\ svUploads' = AfterCleanup(r.task)
            /\ UNCHANGED svShell
    /\ UNCHANGED <<svServices, svDownloads, svServed, svPayloads, svGeneration,
                   svMenu, svBounds>>

(* The helper reads the links and checks the limit.                        *)
LoadDownloads ==
    /\ At("load")
    /\ \/ /\ svShell.task.op = "add" => Cardinality(svDownloads) < MaxDownloads
          /\ svShell' = [svShell EXCEPT !.steps = Tail(@), !.loaded = svDownloads]
          /\ UNCHANGED svUploads
       \/ /\ svShell.task.op = "add" /\ Cardinality(svDownloads) >= MaxDownloads
          /\ svShell' = NoSvShell
          /\ svUploads' = AfterCleanup(svShell.task)
    /\ UNCHANGED <<svServices, svDownloads, svServed, svPayloads, svGeneration,
                   svTasks, svMenu, svRefusal, svBounds>>

(* Copying may fail; nothing was changed then but a partial payload, which *)
(* the helper unlinks.                                                     *)
CopyPayload ==
    /\ At("copy")
    /\ \/ /\ svPayloads' = svPayloads \cup {svShell.task.file}
          /\ Step
          /\ UNCHANGED <<svUploads, svBounds>>
       \/ /\ SpendSv("troubles")
          /\ svShell' = NoSvShell
          /\ svUploads' = AfterCleanup(svShell.task)
          /\ UNCHANGED svPayloads
    /\ UNCHANGED <<svServices, svDownloads, svServed, svGeneration, svTasks, svMenu,
                   svRefusal>>

(* The list that was read is written back with the change.                 *)
WriteDownloads ==
    /\ At("write")
    /\ svDownloads' = IF svShell.task.op = "add"
                      THEN svShell.loaded \cup {Link(svShell.task.file)}
                      ELSE {d \in svShell.loaded : d.id # svShell.task.file}
    /\ svUploads' = AfterCleanup(svShell.task)
    /\ Step
    /\ UNCHANGED <<svServices, svServed, svPayloads, svGeneration, svTasks, svMenu,
                   svRefusal, svBounds>>

RestartServer ==
    /\ At("restart")
    /\ svServed' = IF Running("file") THEN svDownloads ELSE svServed
    /\ Step
    /\ UNCHANGED <<svServices, svDownloads, svPayloads, svUploads, svGeneration,
                   svTasks, svMenu, svRefusal, svBounds>>

(* The copy taken first comes back, the server is started with it or stays *)
(* failed, and the payload of an addition is purged.                       *)
RestartFails ==
    /\ At("restart") /\ Running("file")
    /\ SpendSv("troubles")
    /\ svDownloads' = svShell.loaded
    /\ \/ /\ svServed' = svShell.loaded
          /\ UNCHANGED svServices
       \/ /\ svServed' = {}
          /\ svServices' = [svServices EXCEPT !["file"].state = "failed"]
    /\ svPayloads' = IF svShell.task.op = "add"
                     THEN svPayloads \ {svShell.task.file} ELSE svPayloads
    /\ svShell' = NoSvShell
    /\ UNCHANGED <<svUploads, svGeneration, svTasks, svMenu, svRefusal>>

PurgePayload ==
    /\ At("purge")
    /\ svPayloads' = svPayloads \ {svShell.task.file}
    /\ Step
    /\ UNCHANGED <<svServices, svDownloads, svServed, svUploads, svGeneration, svTasks,
                   svMenu, svRefusal, svBounds>>

(* install_and_run: the first file, a configuration of its own, and the    *)
(* unit, which may fail to start.                                          *)
InstallPayload ==
    /\ At("payload")
    /\ svPayloads' = svPayloads \cup {"shared"}
    /\ svUploads' = AfterCleanup(svShell.task)
    /\ Step
    /\ UNCHANGED <<svServices, svDownloads, svServed, svGeneration, svTasks, svMenu,
                   svRefusal, svBounds>>

WriteFirstConfig ==
    /\ At("config")
    /\ svDownloads' = {Link("shared")}
    /\ svServices' = [svServices EXCEPT
                        !["file"] = [state |-> "stopped", port |-> svShell.task.port]]
    /\ Step
    /\ UNCHANGED <<svServed, svPayloads, svUploads, svGeneration, svTasks, svMenu,
                   svRefusal, svBounds>>

EnableServer ==
    /\ At("enable")
    /\ \/ /\ svServices' = [svServices EXCEPT !["file"].state = "running"]
          /\ svServed' = svDownloads
          /\ UNCHANGED svBounds
       \/ /\ SpendSv("troubles")
          /\ svServices' = [svServices EXCEPT !["file"].state = "failed"]
          /\ UNCHANGED svServed
    /\ Step
    /\ UNCHANGED <<svDownloads, svPayloads, svUploads, svGeneration, svTasks, svMenu,
                   svRefusal>>

(* The installers of the other services: they may give up before or after  *)
(* the configuration is written.                                           *)
InstallService ==
    /\ At("install")
    /\ LET s == svShell.task.service
           Installed(state) == [svServices EXCEPT ![s] = [state |-> state,
                                                          port |-> svShell.task.port]]
       IN \/ svServices' = Installed("running") /\ UNCHANGED svBounds
          \/ SpendSv("troubles") /\ svServices' \in {svServices, Installed("failed")}
    /\ Step
    /\ UNCHANGED <<svDownloads, svServed, svPayloads, svUploads, svGeneration, svTasks,
                   svMenu, svRefusal>>

ChangeService ==
    /\ At("systemctl")
    /\ LET s == svShell.task.service
           Target == IF svShell.task.op = "stop" THEN "stopped" ELSE "running"
       IN \/ /\ svServices' = [svServices EXCEPT ![s].state = Target]
             /\ svServed' = IF s # "file" THEN svServed
                            ELSE IF Target = "running" THEN svDownloads ELSE {}
             /\ UNCHANGED svBounds
          \/ /\ SpendSv("troubles") /\ Target = "running"
             /\ svServices' = [svServices EXCEPT ![s].state = "failed"]
             /\ svServed' = IF s = "file" THEN {} ELSE svServed
    /\ Step
    /\ UNCHANGED <<svDownloads, svPayloads, svUploads, svGeneration, svTasks, svMenu,
                   svRefusal>>

(* The runner's time is up, or the agent dies: the task's staged file is   *)
(* discarded, nothing else is put back.                                    *)
KillSvShell ==
    /\ ~Idle
    /\ SpendSv("troubles")
    /\ svUploads' = AfterCleanup(svShell.task)
    /\ svShell' = NoSvShell
    /\ UNCHANGED <<svServices, svDownloads, svServed, svPayloads, svGeneration, svTasks,
                   svMenu, svRefusal>>
-----------------------------------------------------------------------------
(* The menus of debian_file_manager.sh.                                    *)

MenuAllowed == Idle \/ MenuDuringTasks

(* The administrator installs the file service on a port nobody has; the   *)
(* script itself compares with the subscriptions' port only.               *)
MenuInstall(port) ==
    /\ Idle /\ MenuIdle /\ ~SvInstalled("file") /\ PortConflicts("file", port) = {}
    /\ svShell' = [NoSvShell EXCEPT !.steps = DeploySteps("file"),
                                    !.task = SvTask("deploy", "file", "none", port)]
    /\ UNCHANGED <<svServices, svDownloads, svServed, svPayloads, svUploads,
                   svGeneration, svTasks, svMenu, svRefusal, svBounds>>

RotateRead ==
    /\ MenuAllowed /\ MenuIdle /\ SvInstalled("file")
    /\ SpendSv("rotations")
    /\ svMenu' = <<svDownloads>>
    /\ UNCHANGED <<svServices, svDownloads, svServed, svPayloads, svUploads,
                   svGeneration, svTasks, svShell, svRefusal>>

(* New tokens for every link, then the server is restarted.                *)
RotateWrite ==
    /\ ~MenuIdle
    /\ svGeneration' = svGeneration + 1
    /\ svDownloads' = {[d EXCEPT !.generation = svGeneration + 1] : d \in svMenu[1]}
    /\ svServed' = svDownloads'
    /\ svServices' = [svServices EXCEPT !["file"].state = "running"]
    /\ svMenu' = <<>>
    /\ UNCHANGED <<svPayloads, svUploads, svTasks, svShell, svRefusal, svBounds>>
-----------------------------------------------------------------------------
ServiceInit ==
    /\ svServices = [s \in SvNames |-> [state |-> "absent", port |-> 0]]
    /\ svDownloads = {} /\ svServed = {} /\ svPayloads = {} /\ svUploads = {}
    /\ svGeneration = 0
    /\ svTasks = {}
    /\ svShell = NoSvShell
    /\ svMenu = <<>>
    /\ svRefusal = [refused |-> FALSE, changed |-> FALSE]
    /\ svBounds = [tasks |-> MaxServiceTasks, rotations |-> MaxRotations,
                   troubles |-> MaxServiceTroubles]

PreviewAnySv ==
    \/ \E s \in SvNames, p \in TcpPorts, f \in UploadFiles \cup {"none"} :
          PreviewDeployment(s, p, f)
    \/ \E op \in {"add", "delete"}, f \in UploadFiles \cup {"shared"} :
          PreviewFileTask(op, f)
    \/ \E s \in SvNames, op \in {"start", "stop", "restart"} : PreviewServiceChange(s, op)

FileScript ==
    \/ LoadDownloads \/ CopyPayload \/ WriteDownloads
    \/ RestartServer \/ RestartFails \/ PurgePayload

DeployScript == InstallPayload \/ WriteFirstConfig \/ EnableServer \/ InstallService

ServiceNext ==
    \/ PreviewAnySv
    \/ \E f \in UploadFiles : StageUpload(f)
    \/ \E r \in svTasks : ExecuteTask(r)
    \/ FileScript \/ DeployScript \/ ChangeService
    \/ KillSvShell
    \/ \E p \in TcpPorts : MenuInstall(p)
    \/ RotateRead \/ RotateWrite

ServiceSpec == ServiceInit /\ [][ServiceNext]_serviceVars
-----------------------------------------------------------------------------
(* Correctness.                                                            *)

SvLinks == [id : UploadFiles \cup {"shared"}, generation : 0..MaxRotations]

(* Every variable keeps its shape; a service that is not installed has no  *)
(* port (svServices follows the configuration files).                      *)
SvTypeOK ==
    /\ \A s \in SvNames :
          /\ svServices[s].state \in {"absent", "stopped", "running", "failed"}
          /\ svServices[s].port \in TcpPorts \cup {0}
          /\ SvInstalled(s) <=> svServices[s].port # 0
    /\ svDownloads \subseteq SvLinks /\ svServed \subseteq SvLinks
    /\ svPayloads \subseteq UploadFiles \cup {"shared"}
    /\ svUploads \subseteq UploadFiles
    /\ svGeneration \in 0..MaxRotations
    /\ svMenu = <<>> \/ svMenu[1] \subseteq SvLinks

(* Every link in the configuration, and every link the running server      *)
(* gives out, has its file: whatever fails or is killed on the way, the    *)
(* payload is there before its link and goes after it.                     *)
PublishedFilesExist ==
    \A d \in svDownloads \cup svServed : d.id \in svPayloads

(* tasks.py:48, "invalidated": "执行前事实已变化，请重新预览。"  A task is  *)
(* refused at execution only when a fact has changed since its preview.    *)
InvalidatedOnlyWhenChanged == svRefusal.refused => svRefusal.changed

(* debian_file_manager.sh:2805, rotate_link: "下载链接已更新，全部旧链接立  *)
(* 即失效。"  No link made before the last rotation comes back.            *)
RevokedStaysRevoked ==
    \A d \in svDownloads \cup svServed : d.generation = svGeneration
=============================================================================
