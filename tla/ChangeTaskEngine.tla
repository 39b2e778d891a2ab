-------------------------- MODULE ChangeTaskEngine --------------------------
(***************************************************************************)
(* The change-task engine of the root agent (control_plane/tasks.py): a    *)
(* SQLite table of tasks shared by the thread that serves requests and the *)
(* single worker thread, together with the world the tasks act on -- the   *)
(* script transactions with their rollback windows -- as far as            *)
(* ControlPlane.execute_task_action and inspect_task_action show it to the *)
(* engine.  One action is one database transaction or one script run; the  *)
(* two threads, the systemd rollback timers, a root shell and a crash of   *)
(* the agent interleave between them.                                      *)
(*                                                                         *)
(* Task t is the t-th row inserted, so the order of identifiers is the     *)
(* order of (created_at, rowid).  Time is abstract: maintenance may find   *)
(* any waiting preview past its deadline and any ended task past its       *)
(* retention.                                                              *)
(*                                                                         *)
(* An operator whose name starts with Fault is no part of the model: it is *)
(* the definition below it with a plausible slip, and shows which property *)
(* would catch that slip.                                                  *)
(***************************************************************************)
EXTENDS TaskActions

CONSTANTS
    MaxTasks,       \* tasks ever created: bounds the model
    Actors,         \* administrators
    Actions,        \* the actions requests may ask for
    QueueLimit,     \* ChangeTaskEngine(queue_limit=...)
    MaxCrashes,     \* crashes of the agent: bounds the model
    MaxMeddling,    \* changes made past the engine: bounds the model
    MaxPurged,      \* tasks whose details are purged: bounds the model
    MaxUploads      \* files the website has staged: bounds the model

ASSUME EngineAssumption ==
    /\ MaxTasks \in Nat
    /\ Actions \subseteq AllActions
    /\ QueueLimit \in Nat \ {0}
    /\ MaxCrashes \in Nat
    /\ MaxMeddling \in Nat
    /\ MaxPurged \in Nat
    /\ MaxUploads \in Nat

Tasks == 1..MaxTasks
NoTask == 0

(* Every file is staged under an identifier of its own.                     *)
Uploads == 1..MaxUploads
NoUpload == 0

TerminalStates ==
    {"succeeded", "failed", "invalidated", "cancelled", "expired",
     "interrupted", "confirmed", "rolled_back"}
ActiveStates ==
    {"waiting_confirmation", "queued", "running",
     "waiting_rollback_confirmation"}
States == {"absent"} \cup ActiveStates \cup TerminalStates

Outcomes == {"", "confirmed", "rolled_back", "automatic_rollback"}
Fates == {"unopened", "open"} \cup (Outcomes \ {""})
Threads == {"server", "worker"}

WorkerSteps ==
    {"loop", "reconcile", "inspect", "execute", "recover", "guard", "finish"}
ServerSteps == {"idle", "insert", "confirm", "cancel", "answer", "reconcile"}

VARIABLES
    \* the tasks table
    state, owner, action, upload, digest, payload, expected, created, purged,
    \* the agent process
    agent, wpc, wtask, wend, wmark, spc, request, todo, reading, verdict,
    \* the host
    window, revision, crashes, meddled,
    \* files staged, those a thread is about to discard, and those whose
    \* preview the website got no answer to
    staged, doomed, abandoned,
    \* history: how often a task was executed, how the window it opened was
    \* closed, and which window it was previewed against
    execs, fate, target

table == <<state, owner, action, upload, digest, payload, expected, created, purged>>
workerVars == <<wpc, wtask, wend, wmark>>
serverVars == <<spc, request>>
reconcileVars == <<todo, reading, verdict>>
process == <<agent, workerVars, serverVars, reconcileVars>>
uploads == <<staged, doomed, abandoned>>
host == <<window, revision, uploads, crashes, meddled>>
history == <<execs, fate, target>>
vars == <<table, process, host, history>>

NoRequest ==
    [task |-> NoTask, actor |-> "", action |-> [family |-> Host, op |-> "change"],
     digest |-> [state |-> "", mark |-> 0, outcome |-> ""], target |-> NoTask,
     upload |-> NoUpload]

InState(s) == {t \in Tasks : state[t] = s}
-----------------------------------------------------------------------------
(* What inspect_task_action reports, as far as the fact digest covers it.  *)

FaultReportedWithoutId(f) ==
    IF f = Host
    THEN [state |-> "", mark |-> revision, outcome |-> ""]
    ELSE [state |-> window[f].state, mark |-> 0, outcome |-> window[f].outcome]

Reported(f) ==
    IF f = Host
    THEN [state |-> "", mark |-> revision, outcome |-> ""]
    ELSE IF ReportsOutcome(f)
    THEN [state |-> window[f].state, mark |-> window[f].id,
          outcome |-> window[f].outcome]
    ELSE [state |-> window[f].state, mark |-> 0, outcome |-> ""]

CurrentWindow(f) == IF f = Host THEN NoTask ELSE window[f].id

FaultOutcomeStateMissing(f) ==
    CASE Reported(f).outcome = "confirmed" -> "confirmed"
      [] Reported(f).outcome \in {"rolled_back", "automatic_rollback"} ->
            "rolled_back"
      [] OTHER -> "unknown"

(* The terminal state a closed window stands for. *)
OutcomeState(f) ==
    CASE Reported(f).outcome = "confirmed" -> "confirmed"
      [] Reported(f).outcome \in {"rolled_back", "automatic_rollback"} ->
            "rolled_back"
      [] OTHER -> "interrupted"

Close(f, how) ==
    /\ window' = [window EXCEPT ![f].state = "idle", ![f].outcome = how]
    /\ fate' = [t \in Tasks |->
                  IF t = window[f].id THEN how ELSE fate[t]]

Open(f, id) ==
    window' = [window EXCEPT ![f] =
                 [state |-> "pending", id |-> id, outcome |-> ""]]
-----------------------------------------------------------------------------
FaultCleanupEverything(th, S) == doomed' = [doomed EXCEPT ![th] = staged]

(* The thread has yet to discard the uploads that the tasks of S name,      *)
(* whichever other task names them: _cleanup follows the commit.            *)
Cleanup(th, S) ==
    doomed' = [doomed EXCEPT ![th] = {upload[t] : t \in S} \ {NoUpload}]

CleanedUp(th) == doomed[th] = {}

(* discard_file_upload; a failure is logged and forgotten.                  *)
DiscardUpload(th, u) ==
    /\ u \in doomed[th]
    /\ doomed' = [doomed EXCEPT ![th] = @ \ {u}]
    /\ staged' \in {staged, staged \ {u}}
    /\ UNCHANGED <<table, process, window, revision, abandoned, crashes, meddled, history>>

FaultKeepSecret(t) == UNCHANGED payload

(* Every update that takes a task out of the queue empties                  *)
(* payload_ciphertext.                                                      *)
EraseSecret(t) == payload' = payload \ {t}

(* _run_maintenance: the previews in E have expired, old details are purged. *)
RunMaintenance(th) == \E E \in SUBSET InState("waiting_confirmation") :
    /\ state' = [t \in Tasks |-> IF t \in E THEN "expired" ELSE state[t]]
    /\ payload' = payload \ E
    /\ \E P \in SUBSET {t \in Tasks \ purged : state[t] \in TerminalStates} :
          /\ Cardinality(purged \cup P) <= MaxPurged
          /\ purged' = purged \cup P
    /\ Cleanup(th, E)
    /\ UNCHANGED <<owner, action, upload, digest, expected, created>>
-----------------------------------------------------------------------------
(* Requests, served one at a time.                                          *)

(* The upload a request names: any that is staged, also one that is named   *)
(* by another task.                                                         *)
NamedUploads(act) == IF CarriesUpload(act) THEN staged ELSE {NoUpload}

(* preview(), first half: prepare_task_action reads the facts. *)
Prepare(a, act) ==
    /\ agent = "up" /\ spc = "idle"
    /\ created < MaxTasks
    /\ act.op = "apply" => window[act.family].state = "idle"
    /\ act.op \in {"confirm", "rollback"} =>
          window[act.family].state = "pending"
    /\ \E u \in NamedUploads(act) :
          request' = [task |-> NoTask, actor |-> a, action |-> act,
                      digest |-> Reported(act.family),
                      target |-> CurrentWindow(act.family), upload |-> u]
    /\ spc' = "insert"
    /\ UNCHANGED <<table, agent, workerVars, reconcileVars, host, history>>

(* preview(), second half: insert the row. *)
InsertPreview ==
    LET t == created + 1 IN
    /\ agent = "up" /\ spc = "insert"
    /\ created' = t
    /\ state' = [state EXCEPT ![t] = "waiting_confirmation"]
    /\ owner' = [owner EXCEPT ![t] = request.actor]
    /\ action' = [action EXCEPT ![t] = request.action]
    /\ upload' = [upload EXCEPT ![t] = request.upload]
    /\ digest' = [digest EXCEPT ![t] = request.digest]
    /\ target' = [target EXCEPT ![t] = request.target]
    /\ payload' = IF CarriesSecret(request.action)
                  THEN payload \cup {t} ELSE payload
    /\ request' = [NoRequest EXCEPT !.task = t, !.upload = request.upload]
    /\ spc' = "answer"
    /\ UNCHANGED <<expected, purged, agent, workerVars, reconcileVars, host,
                   execs, fate>>

(* confirm() and cancel() run the maintenance before their transaction. *)
StartDecision(t, a, decision) ==
    /\ agent = "up" /\ spc = "idle"
    /\ state[t] # "absent"
    /\ RunMaintenance("server")
    /\ request' = [NoRequest EXCEPT !.task = t, !.actor = a]
    /\ spc' = decision
    /\ UNCHANGED <<agent, workerVars, reconcileVars, window, revision,
                   staged, abandoned, crashes, meddled, history>>

MayDecide(t, a) == owner[t] = a \/ TakeoverAllowed(action[t])

Refuse ==
    /\ spc' = "idle"
    /\ request' = NoRequest
    /\ UNCHANGED <<table, agent, workerVars, reconcileVars, host, history>>

FaultBusyQueuedOnly == Cardinality(InState("queued"))

Busy == Cardinality(InState("queued") \cup InState("running"))

FaultUnconfirmedUnlessActive(t) == state[t] \notin {"queued", "running"}

(* A repeated confirmation only reads the task. *)
Unconfirmed(t) == state[t] = "waiting_confirmation"

ConfirmTask ==
    LET t == request.task IN
    /\ agent = "up" /\ spc = "confirm"
    /\ \/ /\ ~MayDecide(t, request.actor) \/ (Unconfirmed(t) /\ Busy >= QueueLimit)
          /\ Refuse
       \/ /\ MayDecide(t, request.actor)
          /\ \/ /\ Unconfirmed(t) /\ Busy < QueueLimit
                /\ state' = [state EXCEPT ![t] = "queued"]
             \/ /\ ~Unconfirmed(t)
                /\ UNCHANGED state
          /\ request' = [NoRequest EXCEPT !.task = t]
          /\ spc' = "answer"
          /\ UNCHANGED <<owner, action, upload, digest, payload, expected,
                         created, purged, agent, workerVars, reconcileVars, host,
                         history>>

CancelTask ==
    LET t == request.task IN
    /\ agent = "up" /\ spc = "cancel"
    /\ \/ /\ ~MayDecide(t, request.actor) \/ state[t] = "running"
          /\ Refuse
       \/ /\ MayDecide(t, request.actor)
          /\ \/ /\ state[t] \in {"waiting_confirmation", "queued"}
                /\ state' = [state EXCEPT ![t] = "cancelled"]
                /\ EraseSecret(t)
                /\ Cleanup("server", {t})
             \/ /\ state[t] \notin {"waiting_confirmation", "queued", "running"}
                /\ UNCHANGED <<state, payload, doomed>>
          /\ request' = [NoRequest EXCEPT !.task = t]
          /\ spc' = "answer"
          /\ UNCHANGED <<owner, action, upload, digest, expected, created,
                         purged, agent, workerVars, reconcileVars, window,
                         revision, staged, abandoned, crashes, meddled, history>>

(* The request then reconciles the tasks of S, rows waiting for a rollback. *)
LookAt(S) ==
    /\ todo' = [todo EXCEPT !["server"] = S]
    /\ spc' = IF S = {} THEN "idle" ELSE "reconcile"

(* get(): also the answer of preview(), confirm() and cancel(). *)
StartGet(t) ==
    /\ agent = "up"
    /\ spc = "idle" \/ (spc = "answer" /\ request.task = t)
    /\ state[t] # "absent"
    /\ RunMaintenance("server")
    /\ LookAt({t} \cap InState("waiting_rollback_confirmation"))
    /\ request' = NoRequest
    /\ UNCHANGED <<agent, workerVars, reading, verdict, window, revision,
                   staged, abandoned, crashes, meddled, history>>

(* list() and has_active_tasks(). *)
StartList ==
    /\ agent = "up" /\ spc = "idle"
    /\ RunMaintenance("server")
    /\ LookAt(InState("waiting_rollback_confirmation"))
    /\ UNCHANGED <<agent, workerVars, request, reading, verdict, window,
                   revision, staged, abandoned, crashes, meddled, history>>

EndRequest ==
    /\ spc = "reconcile"
    /\ todo["server"] = {} /\ reading["server"] = NoTask
    /\ spc' = "idle"
    /\ UNCHANGED <<table, agent, workerVars, request, reconcileVars, host,
                   history>>
-----------------------------------------------------------------------------
(* _reconcile_rollback_task(s), run by either thread: read the row, inspect *)
(* outside the database, then finish the row if it is still waiting.        *)

Reconciling(th) ==
    /\ agent = "up"
    /\ IF th = "worker" THEN wpc = "reconcile" ELSE spc = "reconcile"
    /\ reading[th] = NoTask

FaultSettledWhilePending(t) ==
    /\ state[t] = "waiting_rollback_confirmation"
    /\ expected[t] # NoTask => Reported(action[t].family).mark = expected[t]

FaultSettledByOutcomeOnly(t) ==
    /\ state[t] = "waiting_rollback_confirmation"
    /\ Reported(action[t].family).state # "pending"
    /\ OutcomeState(action[t].family) # "interrupted"

SettledElsewhere(t) ==
    LET facts == Reported(action[t].family) IN
    /\ state[t] = "waiting_rollback_confirmation"
    /\ expected[t] # NoTask => facts.mark = expected[t]
    /\ facts.state # "pending"

ReconcileInspect(th, t) ==
    /\ Reconciling(th) /\ t \in todo[th]
    /\ SettledElsewhere(t)
    /\ todo' = [todo EXCEPT ![th] = @ \ {t}]
    /\ reading' = [reading EXCEPT ![th] = t]
    /\ verdict' = [verdict EXCEPT ![th] = OutcomeState(action[t].family)]
    /\ UNCHANGED <<table, agent, workerVars, serverVars, host, history>>

(* Nothing to finish, or the inspection failed: both are only logged. *)
ReconcileSkip(th, t) ==
    /\ Reconciling(th) /\ t \in todo[th]
    /\ todo' = [todo EXCEPT ![th] = @ \ {t}]
    /\ UNCHANGED <<table, agent, workerVars, serverVars, reading, verdict,
                   host, history>>

(* _finish_waiting_rollback *)
FinishWaitingRollback(th) ==
    LET t == reading[th] IN
    /\ t # NoTask
    /\ state' = IF state[t] = "waiting_rollback_confirmation"
                THEN [state EXCEPT ![t] = verdict[th]] ELSE state
    /\ reading' = [reading EXCEPT ![th] = NoTask]
    /\ verdict' = [verdict EXCEPT ![th] = ""]
    /\ UNCHANGED <<owner, action, upload, digest, payload, expected, created,
                   purged, agent, workerVars, serverVars, todo, host, history>>
-----------------------------------------------------------------------------
(* The worker thread: process_one(), again and again.                       *)

WorkerWake ==
    /\ agent = "up" /\ wpc = "loop"
    /\ RunMaintenance("worker")
    /\ todo' = [todo EXCEPT !["worker"] =
                  InState("waiting_rollback_confirmation")]
    /\ wpc' = "reconcile"
    /\ UNCHANGED <<agent, wtask, wend, wmark, serverVars, reading, verdict,
                   window, revision, staged, abandoned, crashes, meddled, history>>

FaultClaimableAnyway == InState("queued")

Claimable ==
    {t \in InState("queued") :
        \/ BypassesWindow(action[t])
        \/ InState("waiting_rollback_confirmation") = {}}

ReadyToClaim ==
    /\ agent = "up" /\ wpc = "reconcile"
    /\ todo["worker"] = {} /\ reading["worker"] = NoTask

FaultAnyInLine(t) == t \in Claimable

(* ORDER BY created_at, rowid LIMIT 1 *)
FirstInLine(t) == t \in Claimable /\ \A u \in Claimable : t <= u

ClaimNext(t) ==
    /\ ReadyToClaim
    /\ FirstInLine(t)
    /\ state' = [state EXCEPT ![t] = "running"]
    /\ wtask' = t
    /\ wpc' = "inspect"
    /\ UNCHANGED <<owner, action, upload, digest, payload, expected, created,
                   purged, agent, wend, wmark, serverVars, reconcileVars, host,
                   history>>

NothingToClaim ==
    /\ ReadyToClaim
    /\ Claimable = {}
    /\ wpc' = "loop"
    /\ UNCHANGED <<table, agent, wtask, wend, wmark, serverVars,
                   reconcileVars, host, history>>

(* Continue with _finish(task, end) or with _wait_for_rollback_confirmation. *)
ThenFinish(end) ==
    /\ wpc' = "finish" /\ wend' = end /\ UNCHANGED <<wtask, wmark>>

ThenGuard(mark) ==
    /\ wpc' = "guard" /\ wmark' = mark /\ UNCHANGED <<wtask, wend>>

ThenRecover == wpc' = "recover" /\ UNCHANGED <<wtask, wend, wmark>>

(* The upload a task names, if it names one, and whether it is still there. *)
OwnUpload(t) == {upload[t]} \ {NoUpload}
UploadIsThere(t) == OwnUpload(t) \subseteq staged

(* Decrypt the payload and compare the facts with the preview's digest; to  *)
(* be read, an upload must be there.                                        *)
InspectBeforeExecution ==
    /\ agent = "up" /\ wpc = "inspect"
    /\ \/ /\ UploadIsThere(wtask)
          /\ Reported(action[wtask].family) = digest[wtask]
          /\ wpc' = "execute"
          /\ UNCHANGED <<wtask, wend, wmark>>
       \/ /\ UploadIsThere(wtask)
          /\ Reported(action[wtask].family) # digest[wtask]
          /\ ThenFinish("invalidated")
       \/ ThenRecover   \* the payload or the facts could not be read
    /\ UNCHANGED <<table, agent, serverVars, reconcileVars, host, history>>

Executing(ops) ==
    /\ agent = "up" /\ wpc = "execute"
    /\ action[wtask].op \in ops
    /\ execs' = [execs EXCEPT ![wtask] = @ + 1]
    /\ UNCHANGED <<table, agent, serverVars, reconcileVars, doomed, abandoned,
                   crashes, meddled, target>>

(* The script needs the upload and removes it itself, also when it fails    *)
(* after it has found it.                                                   *)
ExecuteChange ==
    /\ Executing(HostOps)
    /\ \/ /\ UploadIsThere(wtask)
          /\ revision' = revision + 1 /\ staged' = staged \ OwnUpload(wtask)
          /\ ThenFinish("succeeded")
       \/ /\ revision' = revision \/ (UploadIsThere(wtask) /\ revision' = revision + 1)
          /\ staged' \in {staged, staged \ OwnUpload(wtask)}
          /\ ThenRecover
    /\ UNCHANGED <<window, fate>>

(* An accepted apply opens the window; its task waits for the outcome when  *)
(* supports_rollback, and is done otherwise.                                *)
AfterApply(f) ==
    IF SupportsRollback(action[wtask])
    THEN ThenGuard(IF ReportsOutcome(f) THEN wtask ELSE NoTask)
    ELSE ThenFinish("succeeded")

ExecuteApply ==
    LET f == action[wtask].family IN
    /\ Executing({"apply"})
    /\ UNCHANGED <<revision, staged>>
    /\ \/ \* the window is open; the answer may get lost
          /\ window[f].state = "idle"
          /\ Open(f, wtask)
          /\ fate' = [fate EXCEPT ![wtask] = "open"]
          /\ AfterApply(f) \/ ThenRecover
       \/ \* refused before anything was touched: change lock held, window
          \* already open, validation failed
          /\ UNCHANGED <<window, fate>>
          /\ ThenRecover
       \/ \* a later step failed and the script restored the old state
          /\ window[f].state = "idle"
          /\ window' = [window EXCEPT ![f] =
                  [state |-> "idle", id |-> wtask, outcome |-> "rolled_back"]]
          /\ fate' = [fate EXCEPT ![wtask] = "rolled_back"]
          /\ ThenRecover
       \/ \* no rollback timer: the last outcome is gone, nothing was applied
          /\ window[f].state = "idle"
          /\ window' = [window EXCEPT ![f] =
                  [state |-> "idle", id |-> NoTask, outcome |-> ""]]
          /\ UNCHANGED fate
          /\ ThenRecover

(* confirm and rollback close the open window, unless they fail. *)
ExecuteClose ==
    LET f == action[wtask].family
        how == IF action[wtask].op = "confirm"
               THEN "confirmed" ELSE "rolled_back"
    IN
    /\ Executing({"confirm", "rollback"})
    /\ UNCHANGED <<revision, staged>>
    /\ \/ /\ window[f].state = "pending"
          /\ NamesWindow(f) => window[f].id = target[wtask]
          /\ Close(f, how)
          /\ ThenFinish("succeeded") \/ ThenRecover
       \/ /\ UNCHANGED <<window, fate>>
          /\ ThenRecover

(* The except branches of process_one and _recover_rollback_execution. *)
RecoverExecution ==
    LET f == action[wtask].family IN
    /\ agent = "up" /\ wpc = "recover"
    /\ \/ ThenFinish("failed")    \* no rollback support, or inspection failed
       \/ /\ SupportsRollback(action[wtask])
          /\ Reported(f).state = "pending"
          /\ ThenGuard(Reported(f).mark)
       \/ /\ SupportsRollback(action[wtask])
          /\ Reported(f).state # "pending"
          /\ OutcomeState(f) # "interrupted"
          /\ ThenFinish(OutcomeState(f))
    /\ UNCHANGED <<table, agent, serverVars, reconcileVars, host, history>>

(* _wait_for_rollback_confirmation *)
WaitForRollbackConfirmation ==
    /\ agent \in {"starting", "up"} /\ wpc = "guard"
    /\ state' = [state EXCEPT ![wtask] = "waiting_rollback_confirmation"]
    /\ expected' = [expected EXCEPT ![wtask] = wmark]
    /\ EraseSecret(wtask)
    /\ wpc' = "loop" /\ wtask' = NoTask /\ wmark' = NoTask
    /\ UNCHANGED <<owner, action, upload, digest, created, purged, agent, wend,
                   serverVars, reconcileVars, host, history>>

(* _finish *)
FinishTask ==
    /\ agent \in {"starting", "up"} /\ wpc = "finish"
    /\ state' = [state EXCEPT ![wtask] = wend]
    /\ EraseSecret(wtask)
    /\ Cleanup("worker", {wtask})
    /\ wpc' = "loop" /\ wtask' = NoTask /\ wend' = ""
    /\ UNCHANGED <<owner, action, upload, digest, expected, created, purged,
                   agent, wmark, serverVars, reconcileVars, window, revision,
                   staged, abandoned, crashes, meddled, history>>
-----------------------------------------------------------------------------
(* The agent process: systemd restarts it after a crash, and the engine's   *)
(* constructor settles what was running before the first request is served. *)

Crash ==
    /\ agent # "down" /\ crashes < MaxCrashes
    /\ crashes' = crashes + 1
    /\ agent' = "down"
    /\ wpc' = "loop" /\ wtask' = NoTask /\ wend' = "" /\ wmark' = NoTask
    /\ spc' = "idle" /\ request' = NoRequest
    /\ todo' = [th \in Threads |-> {}]
    /\ reading' = [th \in Threads |-> NoTask]
    /\ verdict' = [th \in Threads |-> ""]
    /\ doomed' = [th \in Threads |-> {}]
    /\ abandoned' = abandoned \cup ({request.upload} \ {NoUpload})
    /\ UNCHANGED <<table, window, revision, staged, meddled, history>>

Restart ==
    /\ agent = "down"
    /\ agent' = "starting"
    /\ UNCHANGED <<table, workerVars, serverVars, reconcileVars, host, history>>

FaultReplayRunningTask(t) ==
    /\ agent = "starting" /\ wpc = "loop"
    /\ state[t] = "running"
    /\ state' = [state EXCEPT ![t] = "queued"]
    /\ UNCHANGED <<owner, action, upload, digest, payload, expected, created,
                   purged, process, host, history>>

(* _recover_running_tasks, for one row: inspect, never execute again. *)
RecoverRunningTask(t) ==
    LET f == action[t].family
        pending == ShowsWindow(action[t]) /\ Reported(f).state = "pending"
    IN
    /\ agent = "starting" /\ wpc = "loop"
    /\ state[t] = "running"
    /\ wtask' = t
    /\ \/ /\ pending
          /\ wpc' = "guard" /\ wmark' = Reported(f).mark
          /\ UNCHANGED wend
       \/ \* no open window, or the inspection failed
          /\ wpc' = "finish" /\ wend' = "interrupted"
          /\ UNCHANGED wmark
    /\ UNCHANGED <<table, agent, serverVars, reconcileVars, host, history>>

FaultRecoveredLater == wpc = "loop"

(* The constructor returns only when no row is left running. *)
Recovered == wpc = "loop" /\ InState("running") = {}

ServeRequests ==
    /\ agent = "starting"
    /\ Recovered
    /\ agent' = "up"
    /\ UNCHANGED <<table, workerVars, serverVars, reconcileVars, host, history>>
-----------------------------------------------------------------------------
(* The host next to the agent.                                              *)

(* The systemd timer of the window, or a status read after its deadline. *)
AutomaticRollback(f) ==
    /\ window[f].state = "pending"
    /\ Close(f, "automatic_rollback")
    /\ UNCHANGED <<table, process, revision, uploads, crashes, meddled, execs,
                   target>>

Meddle ==
    /\ meddled < MaxMeddling
    /\ meddled' = meddled + 1
    /\ UNCHANGED <<table, process, uploads, crashes, execs, target>>

(* A root shell changes the host, or opens or closes a window. *)
MeddleHost == Meddle /\ revision' = revision + 1 /\ UNCHANGED <<window, fate>>

MeddleOpen(f) ==
    /\ Meddle
    /\ f \in CommandLineFamilies /\ window[f].state = "idle"
    /\ Open(f, NoTask)
    /\ UNCHANGED <<revision, fate>>

MeddleClose(f) ==
    /\ Meddle
    /\ window[f].state = "pending"
    /\ \/ Close(f, "rolled_back")
       \/ f \in CommandLineFamilies /\ Close(f, "confirmed")
    /\ UNCHANGED revision

(* The website gets no answer to a preview that names an upload.            *)
LoseAnswer ==
    /\ request.upload # NoUpload
    /\ abandoned' = abandoned \cup {request.upload}
    /\ UNCHANGED <<table, process, window, revision, staged, doomed, crashes,
                   meddled, history>>

(* It then removes the file it has staged.                                  *)
WithdrawUpload(u) ==
    /\ u \in abandoned
    /\ staged' = staged \ {u}
    /\ UNCHANGED <<table, process, window, revision, doomed, abandoned, crashes,
                   meddled, history>>
-----------------------------------------------------------------------------
Init ==
    /\ state = [t \in Tasks |-> "absent"]
    /\ owner = [t \in Tasks |-> ""]
    /\ action = [t \in Tasks |-> NoRequest.action]
    /\ digest = [t \in Tasks |-> NoRequest.digest]
    /\ upload = [t \in Tasks |-> NoUpload]
    /\ payload = {} /\ purged = {}
    /\ staged = Uploads /\ doomed = [th \in Threads |-> {}] /\ abandoned = {}
    /\ expected = [t \in Tasks |-> NoTask]
    /\ target = [t \in Tasks |-> NoTask]
    /\ created = 0 /\ revision = 0 /\ crashes = 0 /\ meddled = 0
    /\ agent = "starting"
    /\ wpc = "loop" /\ wtask = NoTask /\ wend = "" /\ wmark = NoTask
    /\ spc = "idle" /\ request = NoRequest
    /\ todo = [th \in Threads |-> {}]
    /\ reading = [th \in Threads |-> NoTask]
    /\ verdict = [th \in Threads |-> ""]
    /\ window = [f \in Families |-> [state |-> "idle", id |-> NoTask, outcome |-> ""]]
    /\ execs = [t \in Tasks |-> 0]
    /\ fate = [t \in Tasks |-> "unopened"]

(* A thread that has something to clean up does that first.                 *)
Server ==
    /\ CleanedUp("server")
    /\ \/ \E a \in Actors, act \in Actions : Prepare(a, act)
       \/ InsertPreview
       \/ \E t \in Tasks, a \in Actors, d \in {"confirm", "cancel"} :
             StartDecision(t, a, d)
       \/ ConfirmTask \/ CancelTask
       \/ \E t \in Tasks : StartGet(t)
       \/ StartList \/ EndRequest

Reconcile ==
    \E th \in Threads : CleanedUp(th) /\
        \/ \E t \in Tasks : ReconcileInspect(th, t) \/ ReconcileSkip(th, t)
        \/ FinishWaitingRollback(th)

Worker ==
    /\ CleanedUp("worker")
    /\ \/ WorkerWake \/ NothingToClaim
       \/ \E t \in Tasks : ClaimNext(t)
       \/ InspectBeforeExecution
       \/ ExecuteChange \/ ExecuteApply \/ ExecuteClose
       \/ RecoverExecution \/ WaitForRollbackConfirmation \/ FinishTask

AgentProcess ==
    \/ Crash \/ Restart
    \/ /\ CleanedUp("worker")
       /\ ServeRequests \/ \E t \in Tasks : RecoverRunningTask(t)

Discarding == \E th \in Threads, u \in Uploads : DiscardUpload(th, u)

Environment ==
    \/ \E f \in Families : AutomaticRollback(f) \/ MeddleOpen(f) \/ MeddleClose(f)
    \/ MeddleHost
    \/ LoseAnswer \/ \E u \in Uploads : WithdrawUpload(u)

Next == Server \/ Reconcile \/ Worker \/ AgentProcess \/ Discarding \/ Environment

Spec == Init /\ [][Next]_vars
-----------------------------------------------------------------------------
(***************************************************************************)
(* Fairness.  systemd restarts the agent (Restart=on-failure) and runs the *)
(* rollback timers, deadlines pass, and the worker loop wakes at least once *)
(* a second; an inspection that is tried again and again succeeds at last.  *)
(* No administrator is fair: nobody has to confirm, cancel or look.         *)
(***************************************************************************)
WorkerThread ==
    \/ Worker
    \/ /\ CleanedUp("worker")
       /\ \/ \E t \in Tasks : ReconcileInspect("worker", t) \/ ReconcileSkip("worker", t)
          \/ FinishWaitingRollback("worker")
    \/ \E u \in Uploads : DiscardUpload("worker", u)

Recovery ==
    \/ Restart
    \/ /\ CleanedUp("worker")
       /\ ServeRequests \/ \E t \in Tasks : RecoverRunningTask(t)

Fairness ==
    /\ WF_vars(WorkerThread)
    /\ WF_vars(Recovery)
    /\ \A t \in Tasks : SF_vars(ReconcileInspect("worker", t))
                      /\ SF_vars(WorkerWake /\ state'[t] = "expired")
    /\ \A f \in Families : WF_vars(AutomaticRollback(f))

FairSpec == Spec /\ Fairness
-----------------------------------------------------------------------------
Digests == [state : {"", "idle", "pending"}, mark : Nat, outcome : Outcomes]

TableType ==
    /\ state \in [Tasks -> States]
    /\ owner \in [Tasks -> Actors \cup {""}]
    /\ action \in [Tasks -> AllActions]
    /\ upload \in [Tasks -> Uploads \cup {NoUpload}]
    /\ digest \in [Tasks -> Digests]
    /\ expected \in [Tasks -> Tasks \cup {NoTask}]
    /\ payload \subseteq Tasks /\ purged \subseteq Tasks
    /\ created \in 0..MaxTasks

Requests ==
    [task : Tasks \cup {NoTask}, actor : Actors \cup {""}, action : AllActions,
     digest : Digests, target : Tasks \cup {NoTask},
     upload : Uploads \cup {NoUpload}]

ProcessType ==
    /\ agent \in {"up", "down", "starting"}
    /\ wpc \in WorkerSteps
    /\ wtask \in Tasks \cup {NoTask} /\ wmark \in Tasks \cup {NoTask}
    /\ wend \in TerminalStates \cup {""}
    /\ spc \in ServerSteps
    /\ request \in Requests
    /\ todo \in [Threads -> SUBSET Tasks]
    /\ reading \in [Threads -> Tasks \cup {NoTask}]
    /\ verdict \in [Threads -> TerminalStates \cup {""}]

Windows ==
    [state : {"idle", "pending"}, id : Tasks \cup {NoTask}, outcome : Outcomes]

HostType ==
    /\ window \in [Families -> Windows]
    /\ staged \subseteq Uploads /\ abandoned \subseteq Uploads
    /\ doomed \in [Threads -> SUBSET Uploads]
    /\ revision \in Nat /\ crashes \in Nat /\ meddled \in Nat

HistoryType ==
    /\ execs \in [Tasks -> Nat]
    /\ fate \in [Tasks -> Fates]
    /\ target \in [Tasks -> Tasks \cup {NoTask}]

(* Every variable keeps its type: the columns of the tasks table, the       *)
(* program counters of the two threads of the agent, the host, and what is  *)
(* recorded about the past.                                                 *)
TypeOK == TableType /\ ProcessType /\ HostType /\ HistoryType
-----------------------------------------------------------------------------
(* Changes are globally serial: whatever the two threads, a crash and the   *)
(* recovery do, no two rows are running at the same time.                   *)
OneRunning ==
    \A t, u \in Tasks : state[t] = "running" /\ state[u] = "running" => t = u

NotStarted ==
    {"absent", "waiting_confirmation", "queued", "cancelled", "expired",
     "invalidated"}

(* A task runs its script at most once, through repeated confirmations,     *)
(* failed executions, crashes and recoveries; and never when the row says   *)
(* that it was not confirmed, was cancelled, expired or became stale.       *)
ExecutedAtMostOnce ==
    \A t \in Tasks :
        /\ execs[t] <= 1
        /\ state[t] \in NotStarted => execs[t] = 0

(* While a task waits for its rollback window, the only tasks that run are  *)
(* those that can close a window (the guarded query of _claim_next).        *)
WindowBlocksQueue ==
    \A t \in Tasks :
        state[t] = "running" /\ ~BypassesWindow(action[t]) =>
            InState("waiting_rollback_confirmation") = {}

(* Encrypted parameters are kept only for as long as the task may run: no   *)
(* way to leave the queue, crash recovery included, forgets to erase them.  *)
SecretsErased ==
    \A t \in payload : state[t] \in {"waiting_confirmation", "queued", "running"}

(* A task that names the upload u runs, has run, or is over.                *)
Spent(u) ==
    \E t \in Tasks :
        upload[t] = u /\ state[t] \notin {"absent", "waiting_confirmation", "queued"}

(* An upload stays staged for the tasks that name it until one of them runs *)
(* or is over, or the website has given it up: no clean-up that lags behind *)
(* its commit, no expiry, no crash and no recovery discards another.        *)
UploadSurvives ==
    \A t \in Tasks :
        CarriesUpload(action[t]) /\ state[t] \in {"waiting_confirmation", "queued"}
          => upload[t] \in staged \cup abandoned \/ Spent(upload[t])

(* The queue never holds more confirmed tasks than the limit: a task stays  *)
(* counted from its confirmation until it leaves "running".                 *)
QueueBounded ==
    Cardinality(InState("queued") \cup InState("running")) <= QueueLimit

(* A task that waited for the window with the transaction id it recorded    *)
(* ends with what really became of that window, whichever thread notices,   *)
(* whatever other window of the family opened since.                        *)
GuardedOutcomeIsTrue ==
    \A t \in Tasks :
        expected[t] # NoTask /\ state[t] \in TerminalStates =>
            /\ state[t] = "confirmed" => fate[expected[t]] = "confirmed"
            /\ state[t] # "confirmed" =>
                  /\ state[t] = "rolled_back"
                  /\ fate[expected[t]] \in {"rolled_back", "automatic_rollback"}

(* A row that reached a terminal state keeps it, although maintenance, a    *)
(* decision and two reconciliations may all hold an older reading of it.    *)
TerminalIsFinal ==
    [][\A t \in Tasks : state[t] \in TerminalStates => state'[t] = state[t]]_vars

ClosedByWorker(t) ==
    /\ wpc = "execute" /\ execs' # execs
    /\ fate[t] = "open" /\ fate'[t] # "open"

(* A confirmation or rollback task of a family whose status names the       *)
(* transaction closes the very window its preview showed.                   *)
ClosesPreviewedWindow ==
    [][\A t \in Tasks :
          ClosedByWorker(t) /\ ReportsOutcome(action[wtask].family) =>
              target[wtask] = t]_vars

(* Every task comes to an end: an unconfirmed preview expires, a confirmed  *)
(* one gets its turn behind the open window, an execution that failed or    *)
(* was cut off by a crash is settled, and a window is closed by its timer   *)
(* and noticed -- even if no administrator ever comes back.                 *)
TasksSettle ==
    \A t \in Tasks : state[t] \in ActiveStates ~> state[t] \in TerminalStates
-----------------------------------------------------------------------------
(* The engine implements the abstract life of its tasks.                    *)

Phase(s) ==
    CASE s = "absent" -> "absent"
      [] s = "waiting_confirmation" -> "proposed"
      [] s = "queued" -> "approved"
      [] s = "running" -> "running"
      [] s = "waiting_rollback_confirmation" -> "guarded"
      [] OTHER -> "ended"

Abstract == INSTANCE TaskLifecycle WITH
    Limit <- QueueLimit,
    phase <- [t \in Tasks |-> Phase(state[t])],
    exempt <- {t \in 1..created : BypassesWindow(action[t])},
    acted <- {t \in Tasks : execs[t] > 0}

(* Every step of the two threads, the timers and a crash is a step of the   *)
(* abstract life of one task, or invisible in it: approval is never undone, *)
(* turns are serial and in order, nothing acts twice or outside its turn.   *)
ImplementsLifecycle == Abstract!Spec
-----------------------------------------------------------------------------
(* What the documents and messages say and the code does not do.            *)

(* "confirmed" tells that the change was kept by an independent connection. *)
ConfirmedMeansKept ==
    \A t \in Tasks : state[t] = "confirmed" => fate[t] = "confirmed"

(* Only a change that opens a rollback window waits for one; a task that    *)
(* was running when the agent exited is marked as interrupted.              *)
OnlyAppliesWait ==
    \A t \in Tasks :
        state[t] = "waiting_rollback_confirmation" => SupportsRollback(action[t])

(* A changed fact invalidates a task: no task closes another window than    *)
(* the one its preview showed, in any family.                               *)
AllClosePreviewedWindow ==
    [][\A t \in Tasks : ClosedByWorker(t) => target[wtask] = t]_vars

(* "interrupted" tells that the agent restarted while the task ran.         *)
InterruptedMeansRestart ==
    \A t \in Tasks : state[t] = "interrupted" => crashes > 0

(* The clean-up of a task discards what is staged for that task alone: it   *)
(* takes no upload from a task that may still run.                          *)
CleanupIsExclusive ==
    [][\A t \in Tasks :
          /\ state[t] \in {"waiting_confirmation", "queued"}
          /\ upload[t] \in staged \ staged'
          => doomed' = doomed]_vars
=============================================================================
