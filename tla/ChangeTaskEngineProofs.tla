----------------------- MODULE ChangeTaskEngineProofs -----------------------
(***************************************************************************)
(* The change-task engine is safe for any number of tasks, administrators, *)
(* actions, crashes and changes made past the engine, and it implements    *)
(* TaskLifecycle.                                                          *)
(*                                                                         *)
(* The safety properties are not inductive by themselves: that no two rows *)
(* run rests on what the worker knows about the row it holds (WorkerInv),  *)
(* that a task runs once on what the worker knows before it executes       *)
(* (OnceInv), and that a settled row gets a terminal state on what a       *)
(* reconciliation read before it writes (VerdictInv).                      *)
(* The last section is about rollback windows: what tasks report of them is    *)
(* true.                                                                   *)
(***************************************************************************)
EXTENDS ChangeTaskEngine, FiniteSetTheorems, TLAPS

USE DEF vars, table, workerVars, serverVars, reconcileVars, process, uploads, host,
        history

(* Rows are numbered in the order they are inserted, a preview being        *)
(* inserted finds room, and a decision is about a row.                      *)
CreatedInv ==
    /\ \A t \in Tasks : state[t] = "absent" <=> t > created
    /\ spc = "insert" => created < MaxTasks
    /\ spc \in {"confirm", "cancel"} => request.task \in Tasks

BusySteps == {"inspect", "execute", "recover", "guard", "finish"}

EndStates ==
    {"succeeded", "failed", "invalidated", "interrupted", "confirmed",
     "rolled_back"}

(* The worker is the only thread with a running row, except between a crash *)
(* and the end of the recovery.                                             *)
WorkerInv ==
    /\ wpc \in BusySteps => wtask \in Tasks /\ state[wtask] = "running"
    /\ agent = "up" =>
          \A t \in Tasks : state[t] = "running" => wpc \in BusySteps /\ t = wtask
    /\ agent = "down" => wpc = "loop"
    /\ agent = "starting" => wpc \in {"loop", "guard", "finish"}
    /\ wpc = "finish" => wend \in EndStates

(* A reconciliation that is about to finish a row knows its outcome. *)
VerdictInv ==
    \A th \in Threads :
        reading[th] # NoTask =>
            verdict[th] \in {"confirmed", "rolled_back", "interrupted"}

(* A task that may still run has not run. *)
OnceInv ==
    /\ wpc \in {"inspect", "execute"} => execs[wtask] = 0
    /\ wpc = "finish" /\ wend = "invalidated" => execs[wtask] = 0

IInv ==
    /\ TypeOK /\ CreatedInv /\ WorkerInv /\ VerdictInv /\ OnceInv
    /\ OneRunning /\ ExecutedAtMostOnce /\ SecretsErased /\ WindowBlocksQueue

-----------------------------------------------------------------------------
(* Task identifiers are naturals, and none of them is NoTask. *)
LEMMA TasksFact == NoTask = 0 /\ \A t \in Tasks : t \in Nat /\ t # NoTask
BY EngineAssumption DEF Tasks, NoTask

(* Between two requests, and while one is answered, request has its type. *)
LEMMA NoRequestType ==
    /\ NoRequest \in Requests
    /\ \A t \in Tasks \cup {NoTask} : [NoRequest EXCEPT !.task = t] \in Requests
    /\ \A t \in Tasks \cup {NoTask}, a \in Actors :
          [NoRequest EXCEPT !.task = t, !.actor = a] \in Requests
    /\ \A t \in Tasks \cup {NoTask}, u \in Uploads \cup {NoUpload} :
          [NoRequest EXCEPT !.task = t, !.upload = u] \in Requests
BY DEF NoRequest, Requests, Digests, Outcomes, AllActions, Host, HostOps

(* The status of a family, as the digest covers it, is a digest. *)
LEMMA ReportedType ==
    ASSUME HostType, NEW f \in Families \cup {Host}
    PROVE  Reported(f) \in Digests /\ CurrentWindow(f) \in Tasks \cup {NoTask}
<1>1. CASE f = Host
  BY <1>1 DEF HostType, Reported, CurrentWindow, Digests, Outcomes
<1>2. CASE f # Host
  <2>1. /\ window[f].state \in {"idle", "pending"}
        /\ window[f].id \in Tasks \cup {NoTask}
        /\ window[f].outcome \in Outcomes
    BY <1>2 DEF HostType, Windows
  <2>2. window[f].id \in Nat
    BY <2>1, TasksFact
  <2> QED  BY <1>2, <2>1, <2>2 DEF Reported, CurrentWindow, Digests, Outcomes
<1> QED  BY <1>1, <1>2

(* Changes of the host have no window, all other actions have a family. *)
LEMMA FamilyType ==
    ASSUME NEW a \in AllActions
    PROVE  /\ a.family \in Families \cup {Host}
           /\ a.op \notin HostOps => a.family \in Families
           /\ a.op \in HostOps => a.family = Host
BY DEF AllActions, HostOps, WindowOps

(* A reconciliation settles a row with one of three terminal states. *)
LEMMA OutcomeStateType ==
    ASSUME NEW f
    PROVE  OutcomeState(f) \in {"confirmed", "rolled_back", "interrupted"}
BY DEF OutcomeState

(* A clean-up names uploads.                                                *)
LEMMA CleanupType ==
    ASSUME TypeOK, NEW th \in Threads, NEW S \in SUBSET Tasks, Cleanup(th, S)
    PROVE  doomed' \in [Threads -> SUBSET Uploads]
<1>1. {upload[t] : t \in S} \ {NoUpload} \in SUBSET Uploads
  BY DEF TypeOK, TableType
<1> QED  BY <1>1 DEF Cleanup, TypeOK, HostType

(* _run_maintenance, by whichever thread.                                   *)
Maintained == \E th \in Threads : RunMaintenance(th)

(* _run_maintenance keeps the types of the table and of the uploads. *)
LEMMA MaintenanceType ==
    ASSUME TypeOK, NEW th \in Threads, RunMaintenance(th)
    PROVE  TableType' /\ doomed' \in [Threads -> SUBSET Uploads]
<1>1. PICK E \in SUBSET InState("waiting_confirmation") :
        /\ state' = [t \in Tasks |-> IF t \in E THEN "expired" ELSE state[t]]
        /\ payload' = payload \ E
        /\ \E P \in SUBSET {t \in Tasks \ purged : state[t] \in TerminalStates} :
              /\ Cardinality(purged \cup P) <= MaxPurged
              /\ purged' = purged \cup P
        /\ Cleanup(th, E)
        /\ UNCHANGED <<owner, action, upload, digest, expected, created>>
  BY DEF RunMaintenance
<1>2. state' \in [Tasks -> States]
  BY <1>1 DEF TypeOK, TableType, States, TerminalStates
<1>3. purged' \subseteq Tasks
  BY <1>1 DEF TypeOK, TableType
<1>4. payload' \subseteq Tasks
  BY <1>1 DEF TypeOK, TableType
<1>5. doomed' \in [Threads -> SUBSET Uploads]
  BY <1>1, CleanupType DEF InState
<1> QED  BY <1>1, <1>2, <1>3, <1>4, <1>5 DEF TypeOK, TableType

(* The transaction id a status names is a task or none. *)
LEMMA MarkType ==
    ASSUME HostType, NEW f \in Families
    PROVE  Reported(f).mark \in Tasks \cup {NoTask}
<1>1. f # Host
  BY DEF Families, SecurityFamilies, Host
<1>2. window[f].id \in Tasks \cup {NoTask}
  BY DEF HostType, Windows
<1> QED  BY <1>1, <1>2, TasksFact DEF Reported

(* Opening and closing a window gives a window. *)
LEMMA WindowType ==
    ASSUME HostType, NEW f \in Families, NEW id \in Tasks \cup {NoTask},
           NEW st \in {"idle", "pending"}, NEW how \in Outcomes
    PROVE  /\ [window EXCEPT ![f] = [state |-> st, id |-> id, outcome |-> how]]
                 \in [Families -> Windows]
           /\ [window EXCEPT ![f].state = st, ![f].outcome = how]
                 \in [Families -> Windows]
<1>1. [state |-> st, id |-> id, outcome |-> how] \in Windows
  BY DEF Windows
<1>2. [window[f] EXCEPT !.state = st, !.outcome = how] \in Windows
  BY DEF HostType, Windows
<1> QED  BY <1>1, <1>2 DEF HostType

(* Recording how a window was closed gives a fate. *)
LEMMA FateType ==
    ASSUME HistoryType, NEW f \in Families, NEW how \in Fates
    PROVE  [t \in Tasks |-> IF t = window[f].id THEN how ELSE fate[t]]
             \in [Tasks -> Fates]
BY DEF HistoryType

(* Counting an execution gives a count. *)
LEMMA ExecsType ==
    ASSUME HistoryType, NEW u
    PROVE  [execs EXCEPT ![u] = @ + 1] \in [Tasks -> Nat]
<1>1. CASE u \in Tasks
  <2>1. execs[u] + 1 \in Nat
    BY <1>1 DEF HistoryType
  <2> QED  BY <2>1 DEF HistoryType
<1>2. CASE u \notin Tasks
  <2>1. [execs EXCEPT ![u] = @ + 1] = execs
    BY <1>2 DEF HistoryType
  <2> QED  BY <2>1 DEF HistoryType
<1> QED  BY <1>1, <1>2

(* Closing a window keeps the types of the windows and of their fates. *)
LEMMA CloseType ==
    ASSUME HostType, HistoryType, NEW f \in Families, NEW how \in Outcomes \ {""},
           Close(f, how)
    PROVE  window' \in [Families -> Windows] /\ fate' \in [Tasks -> Fates]
<1>1. window' \in [Families -> Windows]
  BY WindowType DEF Close
<1>2. fate' \in [Tasks -> Fates]
  BY FateType DEF Close, Fates
<1> QED  BY <1>1, <1>2

(* A preview that is inserted gets a row of the table. *)
LEMMA NextRow ==
    ASSUME TableType, CreatedInv, spc = "insert"
    PROVE  created + 1 \in Tasks /\ created + 1 \in 0..MaxTasks
<1>1. MaxTasks \in Nat
  BY EngineAssumption
<1>2. created \in 0..MaxTasks /\ created < MaxTasks
  BY DEF TableType, CreatedInv
<1> QED  BY <1>1, <1>2 DEF Tasks

-----------------------------------------------------------------------------
(* Every step of the engine keeps every variable in its type. *)
LEMMA TypeStep ==
    ASSUME TypeOK, CreatedInv, WorkerInv, VerdictInv, [Next]_vars
    PROVE  TypeOK'
<1> USE DEF TypeOK
<1>1. ASSUME NEW a \in Actors, NEW act \in Actions, Prepare(a, act)
      PROVE  TypeOK'
  <2>1. TableType'
    BY <1>1 DEF TableType, States, ActiveStates, TerminalStates, Prepare
  <2>2. ProcessType'
    <3>1. request' \in Requests
      <4>1. PICK u \in NamedUploads(act) :
              request' = [task |-> NoTask, actor |-> a, action |-> act,
                          digest |-> Reported(act.family),
                          target |-> CurrentWindow(act.family), upload |-> u]
        BY <1>1 DEF Prepare
      <4>2. u \in Uploads \cup {NoUpload}
        BY DEF NamedUploads, HostType
      <4>3. act \in AllActions
        BY EngineAssumption
      <4> QED  BY <4>1, <4>2, <4>3, ReportedType, FamilyType DEF Requests, NoTask
    <3> QED  BY <1>1, <3>1 DEF ProcessType, Prepare, ServerSteps
  <2>3. HostType'
    BY <1>1 DEF HostType, Prepare
  <2>4. HistoryType'
    BY <1>1 DEF HistoryType, Prepare
  <2> QED  BY <2>1, <2>2, <2>3, <2>4
<1>2. CASE InsertPreview
  <2>1. TableType'
    <3>1. /\ request.actor \in Actors \cup {""} /\ request.action \in AllActions
          /\ request.digest \in Digests /\ request.upload \in Uploads \cup {NoUpload}
      BY DEF ProcessType, Requests
    <3>2. created + 1 \in Tasks /\ created + 1 \in 0..MaxTasks
      BY <1>2, NextRow DEF InsertPreview
    <3>3. /\ state' \in [Tasks -> States] /\ owner' \in [Tasks -> Actors \cup {""}]
          /\ action' \in [Tasks -> AllActions] /\ digest' \in [Tasks -> Digests]
          /\ upload' \in [Tasks -> Uploads \cup {NoUpload}]
      BY <1>2, <3>1, <3>2 DEF InsertPreview, TableType, States, ActiveStates
    <3>4. payload' \subseteq Tasks /\ created' \in 0..MaxTasks
      BY <1>2, <3>2 DEF InsertPreview, TableType
    <3> QED  BY <1>2, <3>3, <3>4 DEF InsertPreview, TableType
  <2>2. ProcessType'
    <3>1. created + 1 \in Tasks
      BY <1>2, NextRow DEF InsertPreview
    <3>2. request' \in Requests
      BY <1>2, <3>1, NoRequestType DEF InsertPreview, ProcessType, Requests
    <3> QED  BY <1>2, <3>2 DEF ProcessType, InsertPreview, ServerSteps
  <2>3. HostType'
    BY <1>2 DEF HostType, InsertPreview
  <2>4. HistoryType'
    <3>1. request.target \in Tasks \cup {NoTask}
      BY DEF ProcessType, Requests
    <3> QED  BY <1>2, <3>1 DEF InsertPreview, HistoryType
  <2> QED  BY <2>1, <2>2, <2>3, <2>4
<1>3. ASSUME NEW t \in Tasks, NEW a \in Actors, NEW d \in {"confirm", "cancel"}, StartDecision(t, a, d)
      PROVE  TypeOK'
  <2>1. TableType'
    BY <1>3, MaintenanceType DEF StartDecision, Threads
  <2>2. ProcessType'
    BY <1>3, NoRequestType, TasksFact DEF ProcessType, WorkerSteps, ServerSteps, TerminalStates, Threads, StartDecision, RunMaintenance, Cleanup
  <2>3. HostType'
    BY <1>3, MaintenanceType DEF StartDecision, Threads, HostType
  <2>4. HistoryType'
    BY <1>3 DEF HistoryType, StartDecision, RunMaintenance, Cleanup
  <2> QED  BY <2>1, <2>2, <2>3, <2>4
<1>4. CASE ConfirmTask
  <2>1. TableType'
    BY <1>4 DEF TableType, States, ActiveStates, TerminalStates, ConfirmTask, Refuse
  <2>2. ProcessType'
    <3>1. request.task \in Tasks \cup {NoTask}
      BY DEF ProcessType, Requests
    <3>2. request' \in Requests
      BY <1>4, <3>1, NoRequestType DEF ConfirmTask, Refuse
    <3> QED  BY <1>4, <3>2 DEF ConfirmTask, Refuse, ProcessType, ServerSteps
  <2>3. HostType'
    BY <1>4 DEF HostType, ConfirmTask, Refuse
  <2>4. HistoryType'
    BY <1>4 DEF HistoryType, ConfirmTask, Refuse
  <2> QED  BY <2>1, <2>2, <2>3, <2>4
<1>5. CASE CancelTask
  <2>1. TableType'
    BY <1>5 DEF TableType, States, ActiveStates, TerminalStates, CancelTask, Refuse, EraseSecret, Cleanup
  <2>2. ProcessType'
    <3>1. request.task \in Tasks \cup {NoTask}
      BY DEF ProcessType, Requests
    <3>2. request' \in Requests
      BY <1>5, <3>1, NoRequestType DEF CancelTask, Refuse
    <3> QED  BY <1>5, <3>2 DEF CancelTask, Refuse, ProcessType, ServerSteps
  <2>3. HostType'
    <3>1. request.task \in Tasks
      BY <1>5 DEF CancelTask, CreatedInv
    <3>2. Cleanup("server", {request.task}) =>
            doomed' \in [Threads -> SUBSET Uploads]
      BY <3>1, CleanupType DEF Threads
    <3> QED  BY <1>5, <3>2 DEF HostType, CancelTask, Refuse
  <2>4. HistoryType'
    BY <1>5 DEF HistoryType, CancelTask, Refuse, EraseSecret, Cleanup
  <2> QED  BY <2>1, <2>2, <2>3, <2>4
<1>6. ASSUME NEW t \in Tasks, StartGet(t)
      PROVE  TypeOK'
  <2>1. TableType'
    BY <1>6, MaintenanceType DEF StartGet, Threads
  <2>2. ProcessType'
    BY <1>6, NoRequestType, TasksFact DEF ProcessType, WorkerSteps, ServerSteps, TerminalStates, Threads, StartGet, RunMaintenance, Cleanup, LookAt, InState
  <2>3. HostType'
    BY <1>6, MaintenanceType DEF StartGet, Threads, HostType
  <2>4. HistoryType'
    BY <1>6 DEF HistoryType, StartGet, RunMaintenance, Cleanup, LookAt, InState
  <2> QED  BY <2>1, <2>2, <2>3, <2>4
<1>7. CASE StartList
  <2>1. TableType'
    BY <1>7, MaintenanceType DEF StartList, Threads
  <2>2. ProcessType'
    BY <1>7 DEF ProcessType, WorkerSteps, ServerSteps, TerminalStates, Threads, StartList, RunMaintenance, Cleanup, LookAt, InState
  <2>3. HostType'
    BY <1>7, MaintenanceType DEF StartList, Threads, HostType
  <2>4. HistoryType'
    BY <1>7 DEF HistoryType, StartList, RunMaintenance, Cleanup, LookAt, InState
  <2> QED  BY <2>1, <2>2, <2>3, <2>4
<1>8. CASE EndRequest
  <2>1. TableType'
    BY <1>8 DEF TableType, States, ActiveStates, TerminalStates, EndRequest
  <2>2. ProcessType'
    BY <1>8 DEF ProcessType, WorkerSteps, ServerSteps, TerminalStates, Threads, EndRequest
  <2>3. HostType'
    BY <1>8 DEF HostType, EndRequest
  <2>4. HistoryType'
    BY <1>8 DEF HistoryType, EndRequest
  <2> QED  BY <2>1, <2>2, <2>3, <2>4
<1>9. ASSUME NEW th \in Threads, NEW t \in Tasks, ReconcileInspect(th, t)
      PROVE  TypeOK'
  <2>1. TableType'
    BY <1>9 DEF TableType, States, ActiveStates, TerminalStates, ReconcileInspect
  <2>2. ProcessType'
    <3>1. todo' \in [Threads -> SUBSET Tasks] /\ reading' \in [Threads -> Tasks \cup {NoTask}]
      BY <1>9 DEF ReconcileInspect, ProcessType
    <3>2. verdict' \in [Threads -> TerminalStates \cup {""}]
      BY <1>9, OutcomeStateType DEF ReconcileInspect, ProcessType, TerminalStates
    <3> QED  BY <1>9, <3>1, <3>2 DEF ReconcileInspect, ProcessType
  <2>3. HostType'
    BY <1>9 DEF HostType, ReconcileInspect
  <2>4. HistoryType'
    BY <1>9 DEF HistoryType, ReconcileInspect
  <2> QED  BY <2>1, <2>2, <2>3, <2>4
<1>10. ASSUME NEW th \in Threads, NEW t \in Tasks, ReconcileSkip(th, t)
      PROVE  TypeOK'
  <2>1. TableType'
    BY <1>10 DEF TableType, States, ActiveStates, TerminalStates, ReconcileSkip
  <2>2. ProcessType'
    <3>1. todo' \in [Threads -> SUBSET Tasks]
      BY <1>10 DEF ReconcileSkip, ProcessType
    <3> QED  BY <1>10, <3>1 DEF ReconcileSkip, ProcessType
  <2>3. HostType'
    BY <1>10 DEF HostType, ReconcileSkip
  <2>4. HistoryType'
    BY <1>10 DEF HistoryType, ReconcileSkip
  <2> QED  BY <2>1, <2>2, <2>3, <2>4
<1>11. ASSUME NEW th \in Threads, FinishWaitingRollback(th)
      PROVE  TypeOK'
  <2>1. TableType'
    <3>1. verdict[th] # "" => verdict[th] \in States
      BY <1>11 DEF ProcessType, States
    <3>2. state' \in [Tasks -> States]
      BY <1>11, <3>1 DEF FinishWaitingRollback, TableType, VerdictInv
    <3> QED  BY <1>11, <3>2 DEF FinishWaitingRollback, TableType
  <2>2. ProcessType'
    BY <1>11 DEF ProcessType, WorkerSteps, ServerSteps, TerminalStates, Threads, FinishWaitingRollback
  <2>3. HostType'
    BY <1>11 DEF HostType, FinishWaitingRollback
  <2>4. HistoryType'
    BY <1>11 DEF HistoryType, FinishWaitingRollback
  <2> QED  BY <2>1, <2>2, <2>3, <2>4
<1>12. CASE WorkerWake
  <2>1. TableType'
    BY <1>12, MaintenanceType DEF WorkerWake, Threads
  <2>2. ProcessType'
    BY <1>12 DEF ProcessType, WorkerSteps, ServerSteps, TerminalStates, Threads, WorkerWake, RunMaintenance, Cleanup, InState
  <2>3. HostType'
    BY <1>12, MaintenanceType DEF WorkerWake, Threads, HostType
  <2>4. HistoryType'
    BY <1>12 DEF HistoryType, WorkerWake, RunMaintenance, Cleanup, InState
  <2> QED  BY <2>1, <2>2, <2>3, <2>4
<1>13. CASE NothingToClaim
  <2>1. TableType'
    BY <1>13 DEF TableType, States, ActiveStates, TerminalStates, NothingToClaim
  <2>2. ProcessType'
    BY <1>13 DEF ProcessType, WorkerSteps, ServerSteps, TerminalStates, Threads, NothingToClaim
  <2>3. HostType'
    BY <1>13 DEF HostType, NothingToClaim
  <2>4. HistoryType'
    BY <1>13 DEF HistoryType, NothingToClaim
  <2> QED  BY <2>1, <2>2, <2>3, <2>4
<1>14. ASSUME NEW t \in Tasks, ClaimNext(t)
      PROVE  TypeOK'
  <2>1. TableType'
    BY <1>14 DEF TableType, States, ActiveStates, TerminalStates, ClaimNext
  <2>2. ProcessType'
    BY <1>14 DEF ProcessType, WorkerSteps, ServerSteps, TerminalStates, Threads, ClaimNext
  <2>3. HostType'
    BY <1>14 DEF HostType, ClaimNext
  <2>4. HistoryType'
    BY <1>14 DEF HistoryType, ClaimNext
  <2> QED  BY <2>1, <2>2, <2>3, <2>4
<1>15. CASE InspectBeforeExecution
  <2>1. TableType'
    BY <1>15 DEF TableType, States, ActiveStates, TerminalStates, InspectBeforeExecution, ThenFinish, ThenRecover
  <2>2. ProcessType'
    BY <1>15 DEF ProcessType, WorkerSteps, ServerSteps, TerminalStates, Threads, InspectBeforeExecution, ThenFinish, ThenRecover
  <2>3. HostType'
    BY <1>15 DEF HostType, InspectBeforeExecution, ThenFinish, ThenRecover
  <2>4. HistoryType'
    BY <1>15 DEF HistoryType, InspectBeforeExecution, ThenFinish, ThenRecover
  <2> QED  BY <2>1, <2>2, <2>3, <2>4
<1>16. CASE ExecuteChange
  <2>1. TableType'
    BY <1>16 DEF TableType, States, ActiveStates, TerminalStates, ExecuteChange, Executing, ThenFinish, ThenRecover
  <2>2. ProcessType'
    BY <1>16 DEF ProcessType, WorkerSteps, ServerSteps, TerminalStates, Threads, ExecuteChange, Executing, ThenFinish, ThenRecover
  <2>3. HostType'
    BY <1>16 DEF ExecuteChange, Executing, HostType
  <2>4. HistoryType'
    <3>1. execs' \in [Tasks -> Nat]
      BY <1>16, ExecsType DEF ExecuteChange, Executing
    <3> QED  BY <1>16, <3>1 DEF ExecuteChange, Executing, HistoryType
  <2> QED  BY <2>1, <2>2, <2>3, <2>4
<1>17. CASE ExecuteApply
  <2>1. TableType'
    BY <1>17 DEF TableType, States, ActiveStates, TerminalStates, ExecuteApply, Executing, Open, AfterApply, ThenGuard, ThenFinish, ThenRecover
  <2>2. ProcessType'
    BY <1>17 DEF ProcessType, WorkerSteps, ServerSteps, TerminalStates, Threads, ExecuteApply, Executing, Open, AfterApply, ThenGuard, ThenFinish, ThenRecover
  <2>3. HostType'
    <3>1. action[wtask].family \in Families
      BY <1>17, FamilyType DEF ExecuteApply, Executing, WorkerInv, BusySteps, TableType, HostOps
    <3>2. wtask \in Tasks
      BY <1>17 DEF ExecuteApply, Executing, WorkerInv, BusySteps
    <3> DEFINE Set(st, id, how) ==
            [window EXCEPT ![action[wtask].family] =
               [state |-> st, id |-> id, outcome |-> how]]
    <3>3. /\ Set("pending", wtask, "") \in [Families -> Windows]
          /\ Set("idle", wtask, "rolled_back") \in [Families -> Windows]
          /\ Set("idle", NoTask, "") \in [Families -> Windows]
      BY <3>1, <3>2, WindowType DEF Outcomes
    <3>4. window' \in {window, Set("pending", wtask, ""),
                       Set("idle", wtask, "rolled_back"), Set("idle", NoTask, "")}
      BY <1>17 DEF ExecuteApply, Open
    <3>5. window' \in [Families -> Windows]
      BY <3>3, <3>4 DEF HostType
    <3> QED  BY <1>17, <3>5 DEF ExecuteApply, Executing, HostType
  <2>4. HistoryType'
    <3>1. execs' \in [Tasks -> Nat]
      BY <1>17, ExecsType DEF ExecuteApply, Executing
    <3>2. fate' \in [Tasks -> Fates]
      BY <1>17 DEF ExecuteApply, HistoryType, Fates, Outcomes
    <3> QED  BY <1>17, <3>1, <3>2 DEF ExecuteApply, Executing, HistoryType
  <2> QED  BY <2>1, <2>2, <2>3, <2>4
<1>18. CASE ExecuteClose
  <2>1. TableType'
    BY <1>18 DEF TableType, States, ActiveStates, TerminalStates, ExecuteClose, Executing, Close, ThenFinish, ThenRecover
  <2>2. ProcessType'
    BY <1>18 DEF ProcessType, WorkerSteps, ServerSteps, TerminalStates, Threads, ExecuteClose, Executing, Close, ThenFinish, ThenRecover
  <2>3. HostType'
    <3>1. action[wtask].family \in Families
      BY <1>18, FamilyType DEF ExecuteClose, Executing, WorkerInv, BusySteps, TableType, HostOps
    <3>2. window' \in [Families -> Windows]
      BY <1>18, <3>1, CloseType DEF ExecuteClose, HostType, Outcomes
    <3> QED  BY <1>18, <3>2 DEF ExecuteClose, Executing, HostType
  <2>4. HistoryType'
    <3>1. action[wtask].family \in Families
      BY <1>18, FamilyType DEF ExecuteClose, Executing, WorkerInv, BusySteps, TableType, HostOps
    <3>2. execs' \in [Tasks -> Nat]
      BY <1>18, ExecsType DEF ExecuteClose, Executing
    <3>3. fate' \in [Tasks -> Fates]
      BY <1>18, <3>1, CloseType DEF ExecuteClose, HistoryType, Outcomes
    <3> QED  BY <1>18, <3>2, <3>3 DEF ExecuteClose, Executing, HistoryType
  <2> QED  BY <2>1, <2>2, <2>3, <2>4
<1>19. CASE RecoverExecution
  <2>1. TableType'
    BY <1>19 DEF TableType, States, ActiveStates, TerminalStates, RecoverExecution, ThenFinish, ThenGuard
  <2>2. ProcessType'
    <3>1. action[wtask] \in AllActions
      BY <1>19 DEF RecoverExecution, WorkerInv, BusySteps, TableType
    <3>2. SupportsRollback(action[wtask]) =>
            Reported(action[wtask].family).mark \in Tasks \cup {NoTask}
      BY <3>1, MarkType, FamilyType DEF SupportsRollback, HostOps
    <3>3. OutcomeState(action[wtask].family) \in TerminalStates
      BY OutcomeStateType DEF TerminalStates
    <3> QED  BY <1>19, <3>2, <3>3 DEF RecoverExecution, ThenFinish, ThenGuard, ProcessType, WorkerSteps, TerminalStates
  <2>3. HostType'
    BY <1>19 DEF HostType, RecoverExecution, ThenFinish, ThenGuard
  <2>4. HistoryType'
    BY <1>19 DEF HistoryType, RecoverExecution, ThenFinish, ThenGuard
  <2> QED  BY <2>1, <2>2, <2>3, <2>4
<1>20. CASE WaitForRollbackConfirmation
  <2>1. TableType'
    <3>1. state' \in [Tasks -> States]
      BY <1>20 DEF WaitForRollbackConfirmation, TableType, States, ActiveStates
    <3>2. expected' \in [Tasks -> Tasks \cup {NoTask}]
      BY <1>20 DEF WaitForRollbackConfirmation, TableType, ProcessType
    <3> QED  BY <1>20, <3>1, <3>2 DEF WaitForRollbackConfirmation, EraseSecret, TableType
  <2>2. ProcessType'
    BY <1>20 DEF ProcessType, WorkerSteps, ServerSteps, TerminalStates, Threads, WaitForRollbackConfirmation, EraseSecret
  <2>3. HostType'
    BY <1>20 DEF HostType, WaitForRollbackConfirmation, EraseSecret
  <2>4. HistoryType'
    BY <1>20 DEF HistoryType, WaitForRollbackConfirmation, EraseSecret
  <2> QED  BY <2>1, <2>2, <2>3, <2>4
<1>21. CASE FinishTask
  <2>1. TableType'
    <3>1. wend \in States
      BY <1>21 DEF FinishTask, WorkerInv, EndStates, States, TerminalStates
    <3> QED  BY <1>21, <3>1 DEF FinishTask, EraseSecret, TableType
  <2>2. ProcessType'
    BY <1>21 DEF ProcessType, WorkerSteps, ServerSteps, TerminalStates, Threads, FinishTask, EraseSecret, Cleanup
  <2>3. HostType'
    <3>1. wtask \in Tasks
      BY <1>21 DEF FinishTask, WorkerInv, BusySteps
    <3>2. doomed' \in [Threads -> SUBSET Uploads]
      BY <1>21, <3>1, CleanupType DEF FinishTask, Threads
    <3> QED  BY <1>21, <3>2 DEF HostType, FinishTask
  <2>4. HistoryType'
    BY <1>21 DEF HistoryType, FinishTask, EraseSecret, Cleanup
  <2> QED  BY <2>1, <2>2, <2>3, <2>4
<1>22. CASE Crash
  <2>1. TableType'
    BY <1>22 DEF TableType, States, ActiveStates, TerminalStates, Crash
  <2>2. ProcessType'
    BY <1>22, NoRequestType, TasksFact DEF ProcessType, WorkerSteps, ServerSteps, TerminalStates, Threads, Crash
  <2>3. HostType'
    <3>1. /\ crashes' = crashes + 1 /\ UNCHANGED <<window, revision, staged, meddled>>
          /\ doomed' = [th \in Threads |-> {}]
          /\ abandoned' = abandoned \cup ({request.upload} \ {NoUpload})
      BY <1>22 DEF Crash
    <3>2. request.upload \in Uploads \cup {NoUpload}
      BY DEF ProcessType, Requests
    <3> QED  BY <3>1, <3>2 DEF HostType
  <2>4. HistoryType'
    BY <1>22 DEF HistoryType, Crash
  <2> QED  BY <2>1, <2>2, <2>3, <2>4
<1>23. CASE Restart
  <2>1. TableType'
    BY <1>23 DEF TableType, States, ActiveStates, TerminalStates, Restart
  <2>2. ProcessType'
    BY <1>23 DEF ProcessType, WorkerSteps, ServerSteps, TerminalStates, Threads, Restart
  <2>3. HostType'
    BY <1>23 DEF HostType, Restart
  <2>4. HistoryType'
    BY <1>23 DEF HistoryType, Restart
  <2> QED  BY <2>1, <2>2, <2>3, <2>4
<1>24. CASE ServeRequests
  <2>1. TableType'
    BY <1>24 DEF TableType, States, ActiveStates, TerminalStates, ServeRequests
  <2>2. ProcessType'
    BY <1>24 DEF ProcessType, WorkerSteps, ServerSteps, TerminalStates, Threads, ServeRequests
  <2>3. HostType'
    BY <1>24 DEF HostType, ServeRequests
  <2>4. HistoryType'
    BY <1>24 DEF HistoryType, ServeRequests
  <2> QED  BY <2>1, <2>2, <2>3, <2>4
<1>25. ASSUME NEW t \in Tasks, RecoverRunningTask(t)
      PROVE  TypeOK'
  <2>1. TableType'
    BY <1>25 DEF TableType, States, ActiveStates, TerminalStates, RecoverRunningTask
  <2>2. ProcessType'
    <3>1. ShowsWindow(action[t]) => Reported(action[t].family).mark \in Tasks \cup {NoTask}
      BY MarkType DEF ShowsWindow
    <3> QED  BY <1>25, <3>1 DEF RecoverRunningTask, ProcessType, WorkerSteps, TerminalStates
  <2>3. HostType'
    BY <1>25 DEF HostType, RecoverRunningTask
  <2>4. HistoryType'
    BY <1>25 DEF HistoryType, RecoverRunningTask
  <2> QED  BY <2>1, <2>2, <2>3, <2>4
<1>26. ASSUME NEW f \in Families, AutomaticRollback(f)
      PROVE  TypeOK'
  <2>1. TableType'
    BY <1>26 DEF TableType, States, ActiveStates, TerminalStates, AutomaticRollback, Close
  <2>2. ProcessType'
    BY <1>26 DEF ProcessType, WorkerSteps, ServerSteps, TerminalStates, Threads, AutomaticRollback, Close
  <2>3. HostType'
    <3>1. window' \in [Families -> Windows]
      BY <1>26, CloseType DEF AutomaticRollback, Outcomes
    <3> QED  BY <1>26, <3>1 DEF AutomaticRollback, HostType
  <2>4. HistoryType'
    <3>1. fate' \in [Tasks -> Fates]
      BY <1>26, CloseType DEF AutomaticRollback, Outcomes
    <3> QED  BY <1>26, <3>1 DEF AutomaticRollback, HistoryType
  <2> QED  BY <2>1, <2>2, <2>3, <2>4
<1>27. ASSUME NEW f \in Families, MeddleOpen(f)
      PROVE  TypeOK'
  <2>1. TableType'
    BY <1>27 DEF TableType, States, ActiveStates, TerminalStates, MeddleOpen, Meddle, Open
  <2>2. ProcessType'
    BY <1>27 DEF ProcessType, WorkerSteps, ServerSteps, TerminalStates, Threads, MeddleOpen, Meddle, Open
  <2>3. HostType'
    <3>1. window' \in [Families -> Windows]
      BY <1>27, WindowType DEF MeddleOpen, Open, Outcomes
    <3> QED  BY <1>27, <3>1 DEF MeddleOpen, Meddle, HostType
  <2>4. HistoryType'
    BY <1>27 DEF HistoryType, MeddleOpen, Meddle, Open
  <2> QED  BY <2>1, <2>2, <2>3, <2>4
<1>28. ASSUME NEW f \in Families, MeddleClose(f)
      PROVE  TypeOK'
  <2>1. TableType'
    BY <1>28 DEF TableType, States, ActiveStates, TerminalStates, MeddleClose, Meddle, Close
  <2>2. ProcessType'
    BY <1>28 DEF ProcessType, WorkerSteps, ServerSteps, TerminalStates, Threads, MeddleClose, Meddle, Close
  <2>3. HostType'
    <3>1. window' \in [Families -> Windows]
      BY <1>28, CloseType DEF MeddleClose, Outcomes
    <3> QED  BY <1>28, <3>1 DEF MeddleClose, Meddle, HostType
  <2>4. HistoryType'
    <3>1. fate' \in [Tasks -> Fates]
      BY <1>28, CloseType DEF MeddleClose, Outcomes
    <3> QED  BY <1>28, <3>1 DEF MeddleClose, Meddle, HistoryType
  <2> QED  BY <2>1, <2>2, <2>3, <2>4
<1>29. CASE MeddleHost
  <2>1. TableType'
    BY <1>29 DEF TableType, States, ActiveStates, TerminalStates, MeddleHost, Meddle
  <2>2. ProcessType'
    BY <1>29 DEF ProcessType, WorkerSteps, ServerSteps, TerminalStates, Threads, MeddleHost, Meddle
  <2>3. HostType'
    BY <1>29 DEF MeddleHost, Meddle, HostType
  <2>4. HistoryType'
    BY <1>29 DEF HistoryType, MeddleHost, Meddle
  <2> QED  BY <2>1, <2>2, <2>3, <2>4
<1>30. CASE UNCHANGED vars
  BY <1>30 DEF TableType, ProcessType, HostType, HistoryType
<1>31. ASSUME NEW th \in Threads, NEW u \in Uploads, DiscardUpload(th, u)
       PROVE  TypeOK'
  BY <1>31 DEF DiscardUpload, TableType, ProcessType, HostType, HistoryType
<1>32. CASE LoseAnswer \/ \E u \in Uploads : WithdrawUpload(u)
  <2>1. HostType'
    BY <1>32 DEF LoseAnswer, WithdrawUpload, HostType, ProcessType, Requests
  <2> QED
    BY <1>32, <2>1 DEF LoseAnswer, WithdrawUpload, TableType, ProcessType, HistoryType
<1> QED
  BY <1>31, <1>32, <1>1, <1>2, <1>3, <1>4, <1>5, <1>6, <1>7, <1>8, <1>9, <1>10, <1>11, <1>12, <1>13, <1>14, <1>15, <1>16, <1>17, <1>18, <1>19, <1>20, <1>21, <1>22, <1>23, <1>24, <1>25, <1>26, <1>27, <1>28, <1>29, <1>30
     DEF Next, Server, Reconcile, Worker, AgentProcess, Discarding, Environment
-----------------------------------------------------------------------------
(* The safety properties.                                                  *)

(* The steps that write the tasks table or discard an upload. *)
LEMMA TableCases ==
    ASSUME [Next]_vars
    PROVE  \/ UNCHANGED table
           \/ Maintained /\ UNCHANGED history
           \/ InsertPreview \/ ConfirmTask \/ CancelTask
           \/ \E t \in Tasks : ClaimNext(t)
           \/ \E th \in Threads : FinishWaitingRollback(th)
           \/ WaitForRollbackConfirmation \/ FinishTask
<1>1. CASE UNCHANGED vars
  BY <1>1
<1>2. CASE Server
  BY <1>2 DEF Server, Prepare, StartDecision, StartGet, StartList, EndRequest, Maintained,
              Threads
<1>3. CASE Reconcile
  BY <1>3 DEF Reconcile, ReconcileInspect, ReconcileSkip
<1>4. CASE Worker
  <2>1. CASE ExecuteChange \/ ExecuteApply \/ ExecuteClose
    BY <2>1 DEF ExecuteChange, ExecuteApply, ExecuteClose, Executing
  <2> QED  BY <1>4, <2>1 DEF Worker, WorkerWake, NothingToClaim, InspectBeforeExecution, RecoverExecution, Maintained, Threads
<1>5. CASE AgentProcess
  BY <1>5 DEF AgentProcess, Crash, Restart, ServeRequests, RecoverRunningTask
<1>6. CASE Discarding \/ Environment
  BY <1>6 DEF Discarding, DiscardUpload, Environment, LoseAnswer, WithdrawUpload,
     AutomaticRollback, MeddleOpen, MeddleClose, MeddleHost, Meddle
<1> QED  BY <1>1, <1>2, <1>3, <1>4, <1>5, <1>6 DEF Next

(* Facts about the identifiers, apart so that the provers see nothing else. *)
LEMMA BoundedIsNatural == \A n \in 0..MaxTasks : n \in Nat
BY EngineAssumption

(* No task has the number of the rows that exist at first. *)
LEMMA TasksArePositive == \A t \in Tasks : t > 0
BY EngineAssumption DEF Tasks

(* An empty table is within the bound. *)
LEMMA NoneCreatedYet == 0 \in 0..MaxTasks
BY EngineAssumption

(* A task that was never executed was executed at most once. *)
LEMMA ZeroAtMostOne == \A n : n = 0 => n <= 1
OBVIOUS

(* Inserting row c + 1 makes exactly that row exist. *)
LEMMA OneMoreCreated ==
    ASSUME NEW c \in Nat, NEW t \in Tasks, t = c + 1
    PROVE  \A u \in Tasks : /\ u > c <=> u = t \/ u > t
                            /\ ~(t > t)
BY EngineAssumption DEF Tasks

(* The number of rows is a natural. *)
LEMMA CreatedType ==
    ASSUME TableType
    PROVE  created \in Nat
<1>1. created \in 0..MaxTasks
  BY DEF TableType
<1> QED  BY <1>1, BoundedIsNatural

(* preview() writes an absent row, the next one, and no other. *)
LEMMA InsertEffect ==
    ASSUME TableType, CreatedInv, InsertPreview
    PROVE  \E t \in Tasks :
              /\ t = created + 1 /\ created' = t
              /\ state[t] = "absent"
              /\ state' = [state EXCEPT ![t] = "waiting_confirmation"]
              /\ payload' \in {payload, payload \cup {t}}
<1>1. created + 1 \in Tasks
  BY NextRow DEF InsertPreview
<1>2. created + 1 > created
  BY CreatedType
<1> QED  BY <1>1, <1>2 DEF InsertPreview, CreatedInv

(* cancel() ends only a preview or a queued task, and erases its secrets. *)
LEMMA CancelEffect ==
    ASSUME TableType, CancelTask
    PROVE  \/ UNCHANGED <<state, payload>>
           \/ \E t \in Tasks :
                /\ state[t] \in {"waiting_confirmation", "queued"}
                /\ state' = [state EXCEPT ![t] = "cancelled"]
                /\ payload' = payload \ {t}
<1>1. CASE request.task \in Tasks
  BY <1>1 DEF CancelTask, Refuse, EraseSecret
<1>2. CASE request.task \notin Tasks
  <2>1. /\ [state EXCEPT ![request.task] = "cancelled"] = state
        /\ payload \ {request.task} = payload
    BY <1>2 DEF TableType
  <2> QED  BY <1>2, <2>1 DEF CancelTask, Refuse, EraseSecret
<1> QED  BY <1>1, <1>2

(* A reconciliation ends only a task that waits for its window. *)
LEMMA FinishEffect ==
    ASSUME TypeOK, VerdictInv, NEW th \in Threads, FinishWaitingRollback(th)
    PROVE  \/ UNCHANGED state
           \/ \E t \in Tasks, v \in {"confirmed", "rolled_back", "interrupted"} :
                /\ state[t] = "waiting_rollback_confirmation"
                /\ state' = [state EXCEPT ![t] = v]
<1>1. reading[th] \in Tasks /\ verdict[th] \in {"confirmed", "rolled_back", "interrupted"}
  BY DEF FinishWaitingRollback, VerdictInv, TypeOK, ProcessType
<1> QED  BY <1>1 DEF FinishWaitingRollback

(* Only the worker has a running row, and it knows which: the worker claims  *)
(* a row only when it holds none, holds it until it writes it back, and a    *)
(* crash leaves at most that row to the recovery.                            *)
LEMMA WorkerStep ==
    ASSUME IInv, [Next]_vars
    PROVE  WorkerInv'
<1> USE DEF IInv, WorkerInv, BusySteps
<1>1. ASSUME NEW a \in Actors, NEW act \in Actions, Prepare(a, act)
      PROVE  WorkerInv'
  BY <1>1 DEF Prepare
<1>2. CASE InsertPreview
  BY <1>2, InsertEffect DEF InsertPreview, TypeOK, TableType, CreatedInv
<1>3. ASSUME NEW t \in Tasks, NEW a \in Actors, NEW d \in {"confirm", "cancel"}, StartDecision(t, a, d)
      PROVE  WorkerInv'
  BY <1>3 DEF StartDecision, RunMaintenance, Cleanup, InState, TypeOK, TableType, OneRunning
<1>4. CASE ConfirmTask
  BY <1>4 DEF ConfirmTask, Refuse, InState, TypeOK, TableType, OneRunning, Unconfirmed
<1>5. CASE CancelTask
  BY <1>5 DEF CancelTask, Refuse, EraseSecret, Cleanup, InState, TypeOK, TableType, OneRunning
<1>6. ASSUME NEW t \in Tasks, StartGet(t)
      PROVE  WorkerInv'
  BY <1>6 DEF StartGet, RunMaintenance, Cleanup, LookAt, InState, TypeOK, TableType, OneRunning
<1>7. CASE StartList
  BY <1>7 DEF StartList, RunMaintenance, Cleanup, LookAt, InState, TypeOK, TableType, OneRunning
<1>8. CASE EndRequest
  BY <1>8 DEF EndRequest
<1>9. ASSUME NEW th \in Threads, NEW t \in Tasks, ReconcileInspect(th, t)
      PROVE  WorkerInv'
  BY <1>9 DEF ReconcileInspect
<1>10. ASSUME NEW th \in Threads, NEW t \in Tasks, ReconcileSkip(th, t)
      PROVE  WorkerInv'
  BY <1>10 DEF ReconcileSkip
<1>11. ASSUME NEW th \in Threads, FinishWaitingRollback(th)
      PROVE  WorkerInv'
  BY <1>11 DEF FinishWaitingRollback, TypeOK, TableType, VerdictInv
<1>12. CASE WorkerWake
  BY <1>12 DEF WorkerWake, RunMaintenance, Cleanup, InState, TypeOK, TableType, OneRunning
<1>13. CASE NothingToClaim
  BY <1>13 DEF NothingToClaim, ReadyToClaim
<1>14. ASSUME NEW t \in Tasks, ClaimNext(t)
      PROVE  WorkerInv'
  BY <1>14 DEF ClaimNext, InState, TypeOK, TableType, OneRunning, FirstInLine, Claimable, ReadyToClaim
<1>15. CASE InspectBeforeExecution
  BY <1>15 DEF InspectBeforeExecution, ThenFinish, ThenRecover, EndStates
<1>16. CASE ExecuteChange
  BY <1>16 DEF ExecuteChange, Executing, ThenFinish, ThenRecover, EndStates
<1>17. CASE ExecuteApply
  BY <1>17 DEF ExecuteApply, Executing, Open, AfterApply, ThenGuard, ThenFinish, ThenRecover, EndStates
<1>18. CASE ExecuteClose
  BY <1>18 DEF ExecuteClose, Executing, Close, ThenFinish, ThenRecover, EndStates
<1>19. CASE RecoverExecution
  BY <1>19, OutcomeStateType DEF RecoverExecution, ThenFinish, ThenGuard, EndStates
<1>20. CASE WaitForRollbackConfirmation
  BY <1>20 DEF WaitForRollbackConfirmation, EraseSecret, InState, TypeOK, TableType, OneRunning
<1>21. CASE FinishTask
  BY <1>21 DEF FinishTask, EraseSecret, Cleanup, EndStates, InState, TypeOK, TableType, OneRunning
<1>22. CASE Crash
  BY <1>22 DEF Crash
<1>23. CASE Restart
  BY <1>23 DEF Restart
<1>24. CASE ServeRequests
  BY <1>24 DEF ServeRequests, Recovered, InState
<1>25. ASSUME NEW t \in Tasks, RecoverRunningTask(t)
      PROVE  WorkerInv'
  BY <1>25 DEF RecoverRunningTask, EndStates
<1>26. ASSUME NEW f \in Families, AutomaticRollback(f)
      PROVE  WorkerInv'
  BY <1>26 DEF AutomaticRollback, Close
<1>27. ASSUME NEW f \in Families, MeddleOpen(f)
      PROVE  WorkerInv'
  BY <1>27 DEF MeddleOpen, Meddle, Open
<1>28. ASSUME NEW f \in Families, MeddleClose(f)
      PROVE  WorkerInv'
  BY <1>28 DEF MeddleClose, Meddle, Close
<1>29. CASE MeddleHost
  BY <1>29 DEF MeddleHost, Meddle
<1>30. CASE UNCHANGED vars
  BY <1>30
<1>31. CASE Discarding \/ LoseAnswer \/ \E u \in Uploads : WithdrawUpload(u)
  BY <1>31 DEF Discarding, DiscardUpload, LoseAnswer, WithdrawUpload
<1> QED
  BY <1>31, <1>1, <1>2, <1>3, <1>4, <1>5, <1>6, <1>7, <1>8, <1>9, <1>10, <1>11, <1>12, <1>13, <1>14, <1>15, <1>16, <1>17, <1>18, <1>19, <1>20, <1>21, <1>22, <1>23, <1>24, <1>25, <1>26, <1>27, <1>28, <1>29, <1>30
     DEF Next, Server, Reconcile, Worker, AgentProcess, Discarding, Environment

(* Only prepare_task_action starts the insertion of a preview. *)
LEMMA InsertCases ==
    ASSUME [Next]_vars, spc' = "insert"
    PROVE  created' < MaxTasks \/ UNCHANGED <<spc, created>>
<1>1. CASE UNCHANGED vars
  BY <1>1
<1>2. CASE Server
  <2>1. CASE \E a \in Actors, act \in Actions : Prepare(a, act)
    BY <2>1 DEF Prepare
  <2>2. CASE InsertPreview \/ EndRequest \/ StartList \/ \E t \in Tasks : StartGet(t)
    BY <2>2 DEF InsertPreview, EndRequest, StartGet, StartList, LookAt
  <2>3. CASE \E t \in Tasks, a \in Actors, d \in {"confirm", "cancel"} :
                StartDecision(t, a, d)
    BY <2>3 DEF StartDecision
  <2>4. CASE ConfirmTask \/ CancelTask
    BY <2>4 DEF ConfirmTask, CancelTask, Refuse
  <2> QED  BY <1>2, <2>1, <2>2, <2>3, <2>4 DEF Server
<1>3. CASE Reconcile
  BY <1>3 DEF Reconcile, ReconcileInspect, ReconcileSkip, FinishWaitingRollback
<1>4. CASE Worker
  <2>1. CASE ExecuteChange \/ ExecuteApply \/ ExecuteClose
    BY <2>1 DEF ExecuteChange, ExecuteApply, ExecuteClose, Executing
  <2>2. CASE WorkerWake
    BY <2>2 DEF WorkerWake, RunMaintenance
  <2> QED
    BY <1>4, <2>1, <2>2 DEF Worker, NothingToClaim, ClaimNext, InspectBeforeExecution,
       RecoverExecution, WaitForRollbackConfirmation, FinishTask
<1>5. CASE AgentProcess
  BY <1>5 DEF AgentProcess, Crash, Restart, ServeRequests, RecoverRunningTask
<1>6. CASE Discarding \/ Environment
  BY <1>6 DEF Discarding, DiscardUpload, Environment, LoseAnswer, WithdrawUpload,
     AutomaticRollback, MeddleOpen, MeddleClose, MeddleHost, Meddle
<1> QED  BY <1>1, <1>2, <1>3, <1>4, <1>5, <1>6 DEF Next

(* confirm() and cancel() are about the row whose id they are given.        *)
LEMMA DecisionCases ==
    ASSUME [Next]_vars, spc' \in {"confirm", "cancel"}
    PROVE  request'.task \in Tasks \/ UNCHANGED <<spc, request>>
<1>1. CASE Server
  <2>1. ASSUME NEW t \in Tasks, NEW a \in Actors, NEW d \in {"confirm", "cancel"},
               StartDecision(t, a, d)
        PROVE  request'.task \in Tasks
    BY <2>1 DEF StartDecision, NoRequest
  <2> QED
    BY <1>1, <2>1 DEF Server, Prepare, InsertPreview, ConfirmTask, CancelTask, Refuse,
       StartGet, StartList, EndRequest, LookAt
<1>2. CASE Worker
  BY <1>2 DEF Worker, WorkerWake, NothingToClaim, ClaimNext, InspectBeforeExecution,
              ExecuteChange, ExecuteApply, ExecuteClose, Executing, RecoverExecution,
              WaitForRollbackConfirmation, FinishTask
<1>3. CASE Reconcile \/ AgentProcess \/ Discarding \/ Environment \/ UNCHANGED vars
  BY <1>3 DEF Reconcile, ReconcileInspect, ReconcileSkip, FinishWaitingRollback,
              AgentProcess, Crash, Restart, ServeRequests, RecoverRunningTask,
              Discarding, DiscardUpload, Environment, LoseAnswer, WithdrawUpload,
              AutomaticRollback, MeddleOpen, MeddleClose, MeddleHost, Meddle
<1> QED  BY <1>1, <1>2, <1>3 DEF Next

(* Rows are inserted in order and never removed. *)
LEMMA CreatedStep ==
    ASSUME IInv, [Next]_vars
    PROVE  CreatedInv'
<1>0. /\ TypeOK /\ TableType /\ CreatedInv /\ WorkerInv /\ VerdictInv
      /\ state \in [Tasks -> States]
  BY DEF IInv, TypeOK, TableType
<1>1. /\ (spc = "insert" => created < MaxTasks)'
      /\ (spc \in {"confirm", "cancel"} => request.task \in Tasks)'
  BY <1>0, InsertCases, DecisionCases DEF CreatedInv
<1>2. (\A t \in Tasks : state[t] = "absent" <=> t > created)'
  <2>1. CASE UNCHANGED table
    BY <1>0, <2>1 DEF CreatedInv
  <2>2. CASE Maintained /\ UNCHANGED history
    BY <1>0, <2>2 DEF Maintained, RunMaintenance, InState, CreatedInv
  <2>3. CASE InsertPreview
    <3>1. PICK t \in Tasks :
            /\ t = created + 1 /\ created' = t
            /\ state' = [state EXCEPT ![t] = "waiting_confirmation"]
      BY <1>0, <2>3, InsertEffect
    <3>0. created \in Nat
      BY <1>0, CreatedType
    <3>2. \A u \in Tasks : u > created <=> u = t \/ u > created'
      BY <1>0, <3>0, <3>1, OneMoreCreated
    <3>3. ~(t > created')
      BY <1>0, <3>0, <3>1, OneMoreCreated
    <3>4. ASSUME NEW u \in Tasks
          PROVE  (state[u] = "absent" <=> u > created)'
      <4>1. CASE u = t
        BY <1>0, <3>1, <3>3, <4>1
      <4>2. CASE u # t
        BY <1>0, <3>1, <3>2, <4>2 DEF CreatedInv
      <4> QED  BY <1>0, <4>1, <4>2
    <3> QED  BY <1>0, <3>4
  <2>4. CASE ConfirmTask
    BY <1>0, <2>4 DEF ConfirmTask, Refuse, Unconfirmed, CreatedInv
  <2>5. CASE CancelTask
    BY <1>0, <2>5 DEF CancelTask, Refuse, CreatedInv
  <2>6. CASE \E t \in Tasks : ClaimNext(t)
    <3>1. PICK t \in Tasks : ClaimNext(t)
      BY <1>0, <2>6
    <3>2. state[t] = "queued" /\ state' = [state EXCEPT ![t] = "running"] /\ UNCHANGED created
      BY <1>0, <3>1 DEF ClaimNext, FirstInLine, Claimable, InState
    <3> QED  BY <1>0, <3>2 DEF CreatedInv
  <2>7. CASE \E th \in Threads : FinishWaitingRollback(th)
    <3>1. UNCHANGED created
      BY <1>0, <2>7 DEF FinishWaitingRollback
    <3> QED  BY <1>0, <2>7, <3>1, FinishEffect DEF CreatedInv
  <2>8. CASE WaitForRollbackConfirmation \/ FinishTask
    BY <1>0, <2>8 DEF WaitForRollbackConfirmation, FinishTask, WorkerInv, BusySteps, EndStates, CreatedInv
  <2> QED
    BY <1>0, <2>1, <2>2, <2>3, <2>4, <2>5, <2>6, <2>7, <2>8, TableCases
<1> QED  BY <1>1, <1>2 DEF CreatedInv

(* A row is claimed only when no row is running. *)
LEMMA OneRunningStep ==
    ASSUME IInv, [Next]_vars
    PROVE  OneRunning'
<1> USE DEF IInv, TypeOK, TableType, OneRunning
<1>1. CASE UNCHANGED table
  BY <1>1
<1>2. CASE Maintained /\ UNCHANGED history
  BY <1>2 DEF Maintained, RunMaintenance
<1>3. CASE InsertPreview
  BY <1>3 DEF InsertPreview
<1>4. CASE ConfirmTask
  BY <1>4 DEF ConfirmTask, Refuse
<1>5. CASE CancelTask
  BY <1>5, CancelEffect
<1>6. CASE \E t \in Tasks : ClaimNext(t)
  BY <1>6 DEF ClaimNext, ReadyToClaim, WorkerInv, BusySteps
<1>7. CASE \E th \in Threads : FinishWaitingRollback(th)
  BY <1>7, FinishEffect
<1>8. CASE WaitForRollbackConfirmation \/ FinishTask
  BY <1>8 DEF WaitForRollbackConfirmation, FinishTask, WorkerInv, EndStates
<1> QED  BY <1>1, <1>2, <1>3, <1>4, <1>5, <1>6, <1>7, <1>8, TableCases

(* Every update that takes a row out of the queue erases its parameters. *)
LEMMA SecretsStep ==
    ASSUME IInv, [Next]_vars
    PROVE  SecretsErased'
<1> USE DEF IInv, TypeOK, TableType, SecretsErased
<1>1. CASE UNCHANGED table
  BY <1>1
<1>2. CASE Maintained /\ UNCHANGED history
  BY <1>2 DEF Maintained, RunMaintenance, InState
<1>3. CASE InsertPreview
  BY <1>3, NextRow DEF InsertPreview
<1>4. CASE ConfirmTask
  BY <1>4 DEF ConfirmTask, Refuse
<1>5. CASE CancelTask
  BY <1>5 DEF CancelTask, Refuse, EraseSecret
<1>6. CASE \E t \in Tasks : ClaimNext(t)
  BY <1>6 DEF ClaimNext
<1>7. CASE \E th \in Threads : FinishWaitingRollback(th)
  BY <1>7 DEF FinishWaitingRollback
<1>8. CASE WaitForRollbackConfirmation \/ FinishTask
  BY <1>8 DEF WaitForRollbackConfirmation, FinishTask, EraseSecret
<1> QED  BY <1>1, <1>2, <1>3, <1>4, <1>5, <1>6, <1>7, <1>8, TableCases

(* A task becomes waiting_rollback_confirmation only when it was the running *)
(* one, and a task that cannot close a window is claimed only when none waits. *)
LEMMA WindowStep ==
    ASSUME IInv, [Next]_vars
    PROVE  WindowBlocksQueue'
<1> USE DEF IInv, TypeOK, TableType, WindowBlocksQueue, InState
<1>1. CASE UNCHANGED table
  BY <1>1
<1>2. CASE Maintained /\ UNCHANGED history
  BY <1>2 DEF Maintained, RunMaintenance
<1>3. CASE InsertPreview
  BY <1>3, NextRow DEF InsertPreview
<1>4. CASE ConfirmTask
  BY <1>4 DEF ConfirmTask, Refuse
<1>5. CASE CancelTask
  <2>1. UNCHANGED action
    BY <1>5 DEF CancelTask, Refuse
  <2> QED  BY <1>5, <2>1, CancelEffect
<1>6. CASE \E t \in Tasks : ClaimNext(t)
  <2>1. PICK t \in Tasks : ClaimNext(t)
    BY <1>6
  <2>2. /\ UNCHANGED action /\ state' = [state EXCEPT ![t] = "running"]
        /\ BypassesWindow(action[t]) \/ InState("waiting_rollback_confirmation") = {}
    BY <2>1 DEF ClaimNext, FirstInLine, Claimable
  <2>3. \A u \in Tasks : state[u] # "running"
    BY <2>1 DEF ClaimNext, ReadyToClaim, WorkerInv, BusySteps
  <2>4. \A u \in Tasks : state'[u] = "running" => u = t
    BY <2>2, <2>3
  <2>5. \A u \in Tasks : state'[u] = "waiting_rollback_confirmation" =>
                            state[u] = "waiting_rollback_confirmation"
    BY <2>2
  <2>6. BypassesWindow(action[t])' <=> BypassesWindow(action[t])
    BY <2>2 DEF BypassesWindow, SupportsRollback
  <2> QED  BY <2>2, <2>4, <2>5, <2>6
<1>7. CASE \E th \in Threads : FinishWaitingRollback(th)
  <2>1. UNCHANGED action
    BY <1>7 DEF FinishWaitingRollback
  <2> QED  BY <1>7, <2>1, FinishEffect
<1>8. CASE WaitForRollbackConfirmation \/ FinishTask
  BY <1>8 DEF WaitForRollbackConfirmation, FinishTask, WorkerInv, BusySteps, EndStates, OneRunning
<1> QED  BY <1>1, <1>2, <1>3, <1>4, <1>5, <1>6, <1>7, <1>8, TableCases

(* What a reconciliation read stays one of the three outcomes. *)
LEMMA VerdictStep ==
    ASSUME IInv, [Next]_vars
    PROVE  VerdictInv'
<1> USE DEF IInv, TypeOK, ProcessType, VerdictInv
<1>1. CASE UNCHANGED <<reading, verdict>>
  BY <1>1
<1>2. ASSUME NEW th \in Threads, NEW t \in Tasks, ReconcileInspect(th, t)
      PROVE  VerdictInv'
  BY <1>2, OutcomeStateType DEF ReconcileInspect
<1>3. ASSUME NEW th \in Threads, FinishWaitingRollback(th)
      PROVE  VerdictInv'
  BY <1>3 DEF FinishWaitingRollback
<1>4. CASE Crash
  BY <1>4 DEF Crash
<1>5. UNCHANGED <<reading, verdict>> \/ Reconcile \/ Crash
  <2>1. CASE UNCHANGED vars
    BY <2>1
  <2>2. CASE Server
    BY <2>2 DEF Server, Prepare, InsertPreview, StartDecision, ConfirmTask, CancelTask,
                Refuse, StartGet, StartList, EndRequest
  <2>3. CASE Worker
    <3>1. CASE ExecuteChange \/ ExecuteApply \/ ExecuteClose
      BY <3>1 DEF ExecuteChange, ExecuteApply, ExecuteClose, Executing
    <3> QED
      BY <2>3, <3>1 DEF Worker, WorkerWake, NothingToClaim, ClaimNext,
         InspectBeforeExecution, RecoverExecution, WaitForRollbackConfirmation, FinishTask
  <2>4. CASE AgentProcess
    BY <2>4 DEF AgentProcess, Restart, ServeRequests, RecoverRunningTask
  <2>5. CASE Discarding \/ Environment
    BY <2>5 DEF Discarding, DiscardUpload, Environment, LoseAnswer, WithdrawUpload,
       AutomaticRollback, MeddleOpen, MeddleClose, MeddleHost, Meddle
  <2> QED  BY <2>1, <2>2, <2>3, <2>4, <2>5 DEF Next
<1>6. CASE Reconcile
  <2>1. CASE \E th \in Threads, t \in Tasks : ReconcileSkip(th, t)
    BY <1>1, <2>1 DEF ReconcileSkip
  <2> QED  BY <1>2, <1>3, <1>6, <2>1 DEF Reconcile
<1> QED  BY <1>1, <1>4, <1>5, <1>6

(* How often a task was executed changes only when the worker executes it. *)
LEMMA ExecsCases ==
    ASSUME [Next]_vars
    PROVE  \/ UNCHANGED execs
           \/ /\ wpc = "execute" /\ execs' = [execs EXCEPT ![wtask] = @ + 1]
              /\ UNCHANGED state
              /\ wpc' \in {"finish", "guard", "recover"}
              /\ wpc' = "finish" => wend' = "succeeded"
<1>1. CASE UNCHANGED table /\ UNCHANGED execs
  BY <1>1
<1>2. CASE Worker
  <2>1. CASE ExecuteChange
    BY <2>1 DEF ExecuteChange, Executing, ThenFinish, ThenRecover
  <2>2. CASE ExecuteApply
    BY <2>2 DEF ExecuteApply, Executing, AfterApply, ThenFinish, ThenGuard, ThenRecover
  <2>3. CASE ExecuteClose
    BY <2>3 DEF ExecuteClose, Executing, ThenFinish, ThenRecover
  <2> QED
    BY <1>2, <2>1, <2>2, <2>3 DEF Worker, WorkerWake, NothingToClaim, ClaimNext,
       InspectBeforeExecution, RecoverExecution, WaitForRollbackConfirmation, FinishTask
<1>3. CASE Server
  BY <1>3 DEF Server, Prepare, InsertPreview, StartDecision, ConfirmTask, CancelTask,
              Refuse, StartGet, StartList, EndRequest
<1>4. CASE Reconcile \/ AgentProcess \/ Discarding \/ Environment \/ UNCHANGED vars
  BY <1>4 DEF Reconcile, ReconcileInspect, ReconcileSkip, FinishWaitingRollback,
              AgentProcess, Crash, Restart, ServeRequests, RecoverRunningTask,
              Discarding, DiscardUpload, Environment, LoseAnswer, WithdrawUpload,
              AutomaticRollback, MeddleOpen, MeddleClose, MeddleHost, Meddle
<1> QED  BY <1>2, <1>3, <1>4 DEF Next

(* The worker executes only a row it has not executed, and no crash brings a *)
(* row back to a state from which it would be claimed again.                 *)
LEMMA OnceStep ==
    ASSUME IInv, [Next]_vars
    PROVE  OnceInv' /\ ExecutedAtMostOnce'
<1> USE DEF IInv, OnceInv, ExecutedAtMostOnce
<1>1. ExecutedAtMostOnce'
  <2>1. CASE execs' # execs
    <3>1. wtask \in Tasks /\ state[wtask] = "running" /\ execs[wtask] = 0
      BY <2>1, ExecsCases DEF WorkerInv, BusySteps
    <3>2. execs' = [execs EXCEPT ![wtask] = 1] /\ UNCHANGED state
      BY <2>1, <3>1, ExecsCases
    <3> QED  BY <3>1, <3>2 DEF NotStarted, TypeOK, HistoryType
  <2>2. CASE UNCHANGED execs
    <3> USE DEF TypeOK, TableType, NotStarted
    <3>1. CASE UNCHANGED table
      BY <2>2, <3>1
    <3>2. CASE Maintained /\ UNCHANGED history
      BY <2>2, <3>2 DEF Maintained, RunMaintenance, InState
    <3>3. CASE InsertPreview
      BY <2>2, <3>3, InsertEffect
    <3>4. CASE ConfirmTask
      BY <2>2, <3>4 DEF ConfirmTask, Refuse, Unconfirmed
    <3>5. CASE CancelTask
      BY <2>2, <3>5, CancelEffect
    <3>6. CASE \E t \in Tasks : ClaimNext(t)
      BY <2>2, <3>6 DEF ClaimNext
    <3>7. CASE \E th \in Threads : FinishWaitingRollback(th)
      BY <2>2, <3>7, FinishEffect
    <3>8. CASE WaitForRollbackConfirmation
      BY <2>2, <3>8 DEF WaitForRollbackConfirmation
    <3>9. CASE FinishTask
      BY <2>2, <3>9 DEF FinishTask, WorkerInv, BusySteps, EndStates
    <3> QED
      BY <3>1, <3>2, <3>3, <3>4, <3>5, <3>6, <3>7, <3>8, <3>9, TableCases
  <2> QED  BY <2>1, <2>2
<1>2. OnceInv'
  <2>1. CASE execs' # execs
    BY <2>1, ExecsCases
  <2>2. CASE UNCHANGED execs /\ UNCHANGED <<wpc, wtask, wend>>
    BY <2>2
  <2>3. CASE UNCHANGED execs /\ ~UNCHANGED <<wpc, wtask, wend>>
    <3>1. CASE \E t \in Tasks : ClaimNext(t)
      BY <2>3, <3>1 DEF ClaimNext, FirstInLine, Claimable, InState, NotStarted
    <3>2. CASE InspectBeforeExecution
      BY <2>3, <3>2 DEF InspectBeforeExecution, ThenFinish, ThenRecover
    <3>3. CASE RecoverExecution
      BY <2>3, <3>3, OutcomeStateType DEF RecoverExecution, ThenFinish, ThenGuard
    <3>4. CASE WaitForRollbackConfirmation \/ FinishTask \/ WorkerWake \/ NothingToClaim
      BY <3>4 DEF WaitForRollbackConfirmation, FinishTask, WorkerWake, NothingToClaim
    <3>5. CASE AgentProcess
      BY <3>5, <2>3 DEF AgentProcess, Crash, Restart, ServeRequests, RecoverRunningTask
    <3>6. CASE ExecuteChange \/ ExecuteApply \/ ExecuteClose
      BY <3>6 DEF ExecuteChange, ExecuteApply, ExecuteClose, Executing, ThenFinish,
                  ThenGuard, ThenRecover, AfterApply
    <3>7. Worker \/ AgentProcess
      <4>1. CASE Server
        BY <2>3, <4>1 DEF Server, Prepare, InsertPreview, StartDecision, ConfirmTask,
           CancelTask, Refuse, StartGet, StartList, EndRequest
      <4>2. CASE Reconcile \/ Discarding \/ Environment \/ UNCHANGED vars
        BY <2>3, <4>2 DEF Reconcile, ReconcileInspect, ReconcileSkip,
           FinishWaitingRollback, Discarding, DiscardUpload, Environment, LoseAnswer,
           WithdrawUpload, AutomaticRollback, MeddleOpen, MeddleClose, MeddleHost,
           Meddle
      <4> QED  BY <4>1, <4>2 DEF Next
    <3> QED  BY <3>1, <3>2, <3>3, <3>4, <3>5, <3>6, <3>7 DEF Worker
  <2> QED  BY <2>1, <2>2, <2>3
<1> QED  BY <1>1, <1>2

(* The empty table satisfies the invariant. *)
LEMMA InitInv == Init => IInv
<1> SUFFICES ASSUME Init PROVE IInv
  OBVIOUS
<1> USE DEF Init
<1>1. TableType
  <2>1. created \in 0..MaxTasks
    BY NoneCreatedYet
  <2> QED  BY <2>1, NoRequestType DEF TableType, States, Requests
<1>2. ProcessType
  BY NoRequestType DEF ProcessType, WorkerSteps, ServerSteps
<1>3. HostType
  BY DEF HostType, Windows, Outcomes
<1>4. HistoryType
  BY DEF HistoryType, Fates
<1>5. CreatedInv
  BY TasksArePositive DEF CreatedInv
<1>6. WorkerInv /\ VerdictInv /\ OnceInv
  BY DEF WorkerInv, VerdictInv, OnceInv, BusySteps
<1>7. OneRunning /\ ExecutedAtMostOnce /\ SecretsErased /\ WindowBlocksQueue
  <2>1. \A t \in Tasks : state[t] = "absent" /\ execs[t] = 0
    OBVIOUS
  <2>2. ExecutedAtMostOnce
    BY <2>1, ZeroAtMostOne DEF ExecutedAtMostOnce
  <2> QED  BY <2>1, <2>2 DEF OneRunning, SecretsErased, WindowBlocksQueue
<1> QED  BY <1>1, <1>2, <1>3, <1>4, <1>5, <1>6, <1>7 DEF IInv, TypeOK

(* The invariant is inductive. *)
LEMMA NextInv == IInv /\ [Next]_vars => IInv'
<1> SUFFICES ASSUME IInv, [Next]_vars PROVE IInv'
  OBVIOUS
<1>1. TypeOK'
  BY TypeStep DEF IInv
<1>2. CreatedInv' /\ WorkerInv' /\ VerdictInv'
  BY CreatedStep, WorkerStep, VerdictStep
<1>3. OneRunning' /\ SecretsErased' /\ WindowBlocksQueue'
  BY OneRunningStep, SecretsStep, WindowStep
<1>4. OnceInv' /\ ExecutedAtMostOnce'
  BY OnceStep
<1> QED  BY <1>1, <1>2, <1>3, <1>4 DEF IInv

(* The inductive invariant holds in every behaviour of the engine. *)
THEOREM Invariance == Spec => []IInv
BY InitInv, NextInv, PTL DEF Spec

(* Every variable keeps its type, in particular the columns of the table.   *)
THEOREM TypeCorrect == Spec => []TypeOK
BY Invariance, PTL DEF IInv

(* Whatever the two threads, a crash and the recovery do, process_one never *)
(* has two rows in "running".                                               *)
THEOREM SerialExecution == Spec => []OneRunning
BY Invariance, PTL DEF IInv

(* No confirmation, failure, crash or recovery executes a task twice, or    *)
(* executes a task that is reported as never started.                       *)
THEOREM NoReplay == Spec => []ExecutedAtMostOnce
BY Invariance, PTL DEF IInv

(* Sensitive parameters do not outlive the queue.                           *)
THEOREM SecretsDoNotRemain == Spec => []SecretsErased
BY Invariance, PTL DEF IInv

(* While a window waits for its confirmation only tasks that can close one  *)
(* run.                                                                     *)
THEOREM WindowGuardsQueue == Spec => []WindowBlocksQueue
BY Invariance, PTL DEF IInv

(* Every write of the state column starts from a state that is not terminal. *)
LEMMA FinalStep ==
    ASSUME IInv, [Next]_vars, NEW t \in Tasks, state[t] \in TerminalStates
    PROVE  state'[t] = state[t]
<1>0. TypeOK /\ TableType /\ CreatedInv /\ WorkerInv /\ VerdictInv
      /\ state \in [Tasks -> States]
  BY DEF IInv, TypeOK, TableType
<1> USE DEF TerminalStates
<1>1. CASE UNCHANGED table
  BY <1>1
<1>2. CASE Maintained /\ UNCHANGED history
  BY <1>2 DEF Maintained, RunMaintenance, InState
<1>3. CASE InsertPreview
  BY <1>0, <1>3, InsertEffect
<1>4. CASE ConfirmTask
  BY <1>0, <1>4 DEF ConfirmTask, Refuse, Unconfirmed
<1>5. CASE CancelTask
  BY <1>0, <1>5, CancelEffect
<1>6. CASE \E u \in Tasks : ClaimNext(u)
  BY <1>0, <1>6 DEF ClaimNext, FirstInLine, Claimable, InState
<1>7. CASE \E th \in Threads : FinishWaitingRollback(th)
  BY <1>0, <1>7, FinishEffect
<1>8. CASE WaitForRollbackConfirmation \/ FinishTask
  BY <1>0, <1>8 DEF WaitForRollbackConfirmation, FinishTask, WorkerInv, BusySteps
<1> QED  BY <1>1, <1>2, <1>3, <1>4, <1>5, <1>6, <1>7, <1>8, TableCases

(* A row that is over stays as it ended, although maintenance, decisions and *)
(* both reconciliations may still hold an older reading of it.               *)
THEOREM TerminalStatesAreFinal == Spec => TerminalIsFinal
<1>1. IInv /\ [Next]_vars =>
        [\A t \in Tasks : state[t] \in TerminalStates => state'[t] = state[t]]_vars
  BY FinalStep
<1> QED  BY <1>1, Invariance, PTL DEF Spec, TerminalIsFinal

(* Why an upload may be gone: a thread discards only uploads that are spent, *)
(* and a missing one is spent or was given up by the website.                *)
UploadInv ==
    /\ \A th \in Threads : \A u \in doomed[th] : Spent(u)
    /\ \A u \in Uploads \ staged : Spent(u) \/ u \in abandoned
    /\ \A t \in Tasks : CarriesUpload(action[t]) => upload[t] \in Uploads
    /\ spc = "insert" /\ CarriesUpload(request.action) => request.upload \in Uploads

(* A task that has started or is over stays so, and keeps its upload.       *)
LEMMA StartedStays ==
    ASSUME IInv, [Next]_vars, NEW t \in Tasks,
           state[t] \notin {"absent", "waiting_confirmation", "queued"}
    PROVE  /\ state'[t] \notin {"absent", "waiting_confirmation", "queued"}
           /\ upload'[t] = upload[t]
<1>0. TypeOK /\ TableType /\ CreatedInv /\ WorkerInv /\ VerdictInv
      /\ state \in [Tasks -> States] /\ upload \in [Tasks -> Uploads \cup {NoUpload}]
  BY DEF IInv, TypeOK, TableType
<1>1. CASE UNCHANGED table
  BY <1>1
<1>2. CASE Maintained /\ UNCHANGED history
  BY <1>2 DEF Maintained, RunMaintenance, InState
<1>3. CASE InsertPreview
  <2>1. PICK r \in Tasks : /\ r = created + 1 /\ state[r] = "absent"
                           /\ state' = [state EXCEPT ![r] = "waiting_confirmation"]
    BY <1>0, <1>3, InsertEffect
  <2>2. upload' = [upload EXCEPT ![r] = request.upload]
    BY <1>3, <2>1 DEF InsertPreview
  <2> QED  BY <1>0, <2>1, <2>2
<1>4. CASE ConfirmTask
  BY <1>0, <1>4 DEF ConfirmTask, Refuse, Unconfirmed
<1>5. CASE CancelTask
  <2>1. UNCHANGED upload
    BY <1>5 DEF CancelTask, Refuse
  <2> QED  BY <1>0, <1>5, <2>1, CancelEffect
<1>6. CASE \E u \in Tasks : ClaimNext(u)
  BY <1>0, <1>6 DEF ClaimNext, FirstInLine, Claimable, InState
<1>7. CASE \E th \in Threads : FinishWaitingRollback(th)
  <2>1. UNCHANGED upload
    BY <1>7 DEF FinishWaitingRollback
  <2> QED  BY <1>0, <1>7, <2>1, FinishEffect
<1>8. CASE WaitForRollbackConfirmation \/ FinishTask
  BY <1>0, <1>8 DEF WaitForRollbackConfirmation, FinishTask, WorkerInv, BusySteps, EndStates
<1> QED  BY <1>1, <1>2, <1>3, <1>4, <1>5, <1>6, <1>7, <1>8, TableCases

(* An upload that is spent stays spent.                                     *)
LEMMA SpentStays ==
    ASSUME IInv, [Next]_vars, NEW u, Spent(u)
    PROVE  Spent(u)'
BY StartedStays DEF Spent

(* The steps that touch the staged files.                                   *)
LEMMA UploadCases ==
    ASSUME [Next]_vars
    PROVE  \/ UNCHANGED <<staged, doomed>> /\ abandoned \subseteq abandoned'
           \/ Maintained /\ UNCHANGED <<staged, abandoned>>
           \/ CancelTask \/ FinishTask \/ ExecuteChange \/ Crash \/ Discarding
           \/ \E u \in Uploads : WithdrawUpload(u)
<1>1. CASE UNCHANGED vars
  BY <1>1
<1>2. CASE Server
  BY <1>2 DEF Server, Prepare, InsertPreview, ConfirmTask, Refuse, StartDecision, StartGet,
              StartList, EndRequest, Maintained, Threads
<1>3. CASE Reconcile
  BY <1>3 DEF Reconcile, ReconcileInspect, ReconcileSkip, FinishWaitingRollback
<1>4. CASE Worker
  <2>1. CASE ExecuteApply \/ ExecuteClose
    BY <2>1 DEF ExecuteApply, ExecuteClose, Executing
  <2>2. CASE WorkerWake
    BY <2>2 DEF WorkerWake, Maintained, Threads
  <2> QED
    BY <1>4, <2>1, <2>2 DEF Worker, NothingToClaim, ClaimNext, InspectBeforeExecution,
       RecoverExecution, WaitForRollbackConfirmation
<1>5. CASE AgentProcess
  BY <1>5 DEF AgentProcess, Restart, ServeRequests, RecoverRunningTask
<1>6. CASE Environment
  BY <1>6 DEF Environment, LoseAnswer, AutomaticRollback, MeddleOpen, MeddleClose,
              MeddleHost, Meddle
<1> QED  BY <1>1, <1>2, <1>3, <1>4, <1>5, <1>6 DEF Next

(* A clean-up of tasks that are over by now names spent uploads only.       *)
LEMMA CleanupSpends ==
    ASSUME TypeOK, NEW th \in Threads, NEW S \in SUBSET Tasks, Cleanup(th, S),
           UNCHANGED upload,
           \A t \in S : state'[t] \notin {"absent", "waiting_confirmation", "queued"}
    PROVE  \A h \in Threads : \A u \in doomed'[h] :
              Spent(u)' \/ u \in doomed[h]
<1>1. \A u \in {upload[t] : t \in S} : Spent(u)'
  BY DEF Spent
<1> QED  BY <1>1 DEF Cleanup, TypeOK, HostType

(* A thread that discards an upload, or an execution that takes one, acts   *)
(* for a task that is over or runs.                                         *)
LEMMA DiscardStep ==
    ASSUME IInv, UploadInv, [Next]_vars
    PROVE  /\ \A th \in Threads : \A u \in doomed'[th] : Spent(u)'
           /\ \A u \in Uploads \ staged' : Spent(u)' \/ u \in abandoned'
<1>0. /\ TypeOK /\ TableType /\ WorkerInv
      /\ state \in [Tasks -> States] /\ doomed \in [Threads -> SUBSET Uploads]
      /\ \A u \in Uploads : Spent(u) => Spent(u)'
  BY SpentStays DEF IInv, TypeOK, TableType, HostType
<1> USE DEF UploadInv
<1>1. CASE UNCHANGED <<staged, doomed>> /\ abandoned \subseteq abandoned'
  BY <1>0, <1>1
<1>2. CASE Maintained /\ UNCHANGED <<staged, abandoned>>
  <2>1. PICK th \in Threads, E \in SUBSET InState("waiting_confirmation") :
          /\ state' = [t \in Tasks |-> IF t \in E THEN "expired" ELSE state[t]]
          /\ Cleanup(th, E) /\ UNCHANGED upload
    BY <1>2 DEF Maintained, RunMaintenance
  <2>2. E \in SUBSET Tasks
    BY DEF InState
  <2>3. \A t \in E : state'[t] = "expired"
    BY <2>1, <2>2
  <2>4. \A h \in Threads : \A u \in doomed'[h] : Spent(u)' \/ u \in doomed[h]
    BY <1>0, <2>1, <2>2, <2>3, CleanupSpends
  <2> QED  BY <1>0, <1>2, <2>4
<1>3. CASE CancelTask
  <2>1. UNCHANGED <<upload, staged, abandoned>>
    BY <1>3 DEF CancelTask, Refuse
  <2>2. CASE UNCHANGED doomed
    BY <1>0, <2>1, <2>2
  <2>3. CASE ~UNCHANGED doomed
    <3>1. /\ state[request.task] \in {"waiting_confirmation", "queued"}
          /\ state' = [state EXCEPT ![request.task] = "cancelled"]
          /\ Cleanup("server", {request.task})
      BY <1>3, <2>3 DEF CancelTask, Refuse
    <3>2. request.task \in Tasks
      BY <1>3 DEF CancelTask, IInv, CreatedInv
    <3>3. \A t \in {request.task} : state'[t] = "cancelled"
      BY <1>0, <3>1, <3>2
    <3>4. \A h \in Threads : \A u \in doomed'[h] : Spent(u)' \/ u \in doomed[h]
      BY <1>0, <2>1, <3>1, <3>2, <3>3, CleanupSpends DEF Threads
    <3> QED  BY <1>0, <2>1, <3>4
  <2> QED  BY <2>2, <2>3
<1>4. CASE FinishTask
  <2>1. /\ wtask \in Tasks /\ wend \in EndStates
        /\ state' = [state EXCEPT ![wtask] = wend]
        /\ Cleanup("worker", {wtask}) /\ UNCHANGED <<upload, staged, abandoned>>
    BY <1>0, <1>4 DEF FinishTask, WorkerInv, BusySteps
  <2>2. \A t \in {wtask} : state'[t] \notin {"absent", "waiting_confirmation", "queued"}
    BY <1>0, <2>1 DEF EndStates
  <2>3. \A h \in Threads : \A u \in doomed'[h] : Spent(u)' \/ u \in doomed[h]
    BY <1>0, <2>1, <2>2, CleanupSpends DEF Threads
  <2> QED  BY <1>0, <2>1, <2>3
<1>5. CASE ExecuteChange
  <2>1. /\ wtask \in Tasks /\ state[wtask] = "running"
        /\ UNCHANGED <<doomed, abandoned>>
        /\ staged' \in {staged, staged \ OwnUpload(wtask)}
    BY <1>0, <1>5 DEF ExecuteChange, Executing, WorkerInv, BusySteps
  <2>2. \A u \in OwnUpload(wtask) : Spent(u)
    BY <2>1 DEF OwnUpload, Spent
  <2> QED  BY <1>0, <2>1, <2>2
<1>6. CASE Crash
  BY <1>0, <1>6 DEF Crash
<1>7. CASE Discarding
  <2>1. PICK th \in Threads, u \in Uploads : DiscardUpload(th, u)
    BY <1>7 DEF Discarding
  <2>2. /\ Spent(u) /\ staged' \in {staged, staged \ {u}} /\ UNCHANGED abandoned
        /\ doomed' = [doomed EXCEPT ![th] = @ \ {u}]
    BY <1>0, <2>1 DEF DiscardUpload
  <2> QED  BY <1>0, <2>2
<1>8. CASE \E u \in Uploads : WithdrawUpload(u)
  <2>1. PICK u \in Uploads : WithdrawUpload(u)
    BY <1>8
  <2> QED  BY <1>0, <2>1 DEF WithdrawUpload
<1> QED  BY <1>1, <1>2, <1>3, <1>4, <1>5, <1>6, <1>7, <1>8, UploadCases

(* Only prepare_task_action starts an insertion.                            *)
LEMMA PreparedOrNot ==
    ASSUME [Next]_vars
    PROVE  \/ spc' # "insert" \/ UNCHANGED <<spc, request>>
           \/ \E a \in Actors, act \in Actions : Prepare(a, act)
<1>1. CASE Server
  BY <1>1 DEF Server, InsertPreview, StartDecision, ConfirmTask, CancelTask, Refuse,
              StartGet, StartList, EndRequest, LookAt
<1>2. CASE Worker
  BY <1>2 DEF Worker, WorkerWake, NothingToClaim, ClaimNext, InspectBeforeExecution,
              ExecuteChange, ExecuteApply, ExecuteClose, Executing, RecoverExecution,
              WaitForRollbackConfirmation, FinishTask
<1>3. CASE Reconcile \/ AgentProcess \/ Discarding \/ Environment \/ UNCHANGED vars
  BY <1>3 DEF Reconcile, ReconcileInspect, ReconcileSkip, FinishWaitingRollback,
              AgentProcess, Crash, Restart, ServeRequests, RecoverRunningTask,
              Discarding, DiscardUpload, Environment, LoseAnswer, WithdrawUpload,
              AutomaticRollback, MeddleOpen, MeddleClose, MeddleHost, Meddle
<1> QED  BY <1>1, <1>2, <1>3 DEF Next

(* A task that needs an upload names one, from its preview on.              *)
LEMMA NamesUploadStep ==
    ASSUME IInv, UploadInv, [Next]_vars
    PROVE  /\ \A t \in Tasks : CarriesUpload(action'[t]) => upload'[t] \in Uploads
           /\ spc' = "insert" /\ CarriesUpload(request'.action) =>
                 request'.upload \in Uploads
<1>0. /\ TypeOK /\ TableType /\ action \in [Tasks -> AllActions]
      /\ upload \in [Tasks -> Uploads \cup {NoUpload}]
  BY DEF IInv, TypeOK, TableType
<1> USE DEF UploadInv
<1>1. \A t \in Tasks : CarriesUpload(action'[t]) => upload'[t] \in Uploads
  <2>1. CASE UNCHANGED <<action, upload>>
    BY <2>1
  <2>2. CASE InsertPreview
    BY <1>0, <2>2 DEF InsertPreview
  <2>3. UNCHANGED <<action, upload>> \/ InsertPreview
    BY TableCases DEF Maintained, RunMaintenance, ConfirmTask, Refuse, CancelTask, ClaimNext,
       FinishWaitingRollback, WaitForRollbackConfirmation, FinishTask
  <2> QED  BY <2>1, <2>2, <2>3
<1>2. spc' = "insert" /\ CarriesUpload(request'.action) => request'.upload \in Uploads
  <2>1. CASE UNCHANGED <<spc, request>>
    BY <2>1
  <2>2. CASE \E a \in Actors, act \in Actions : Prepare(a, act)
    <3>1. PICK a \in Actors, act \in Actions : Prepare(a, act)
      BY <2>2
    <3>2. PICK u \in NamedUploads(act) :
            request' = [task |-> NoTask, actor |-> a, action |-> act,
                        digest |-> Reported(act.family),
                        target |-> CurrentWindow(act.family), upload |-> u]
      BY <3>1 DEF Prepare
    <3>3. CarriesUpload(act) => u \in Uploads
      BY <1>0, <3>2 DEF NamedUploads, TypeOK, HostType
    <3> QED  BY <3>2, <3>3
  <2>3. CASE spc' # "insert"
    BY <2>3
  <2> QED  BY <2>1, <2>2, <2>3, PreparedOrNot
<1> QED  BY <1>1, <1>2

(* The upload of a task is staged until the task, or another that names it, *)
(* runs or is over -- or the website gives it up.                           *)
THEOREM UploadsSurvive == Spec => []UploadSurvives
<1>1. ASSUME Init
      PROVE  UploadInv
  <2>1. \A t \in Tasks : ~CarriesUpload(action[t])
    BY <1>1 DEF Init, CarriesUpload, NoRequest
  <2>2. spc # "insert" /\ Uploads \ staged = {} /\ \A th \in Threads : doomed[th] = {}
    BY <1>1 DEF Init
  <2> QED  BY <2>1, <2>2 DEF UploadInv
<1>2. IInv /\ UploadInv /\ [Next]_vars => UploadInv'
  BY DiscardStep, NamesUploadStep DEF UploadInv
<1>3. UploadInv => UploadSurvives
  BY DEF UploadInv, UploadSurvives
<1> QED  BY <1>1, <1>2, <1>3, Invariance, PTL DEF Spec

(* The rows queue_limit counts. *)
BusyRows == InState("queued") \cup InState("running")

(* The table is finite. *)
LEMMA TasksFinite == IsFiniteSet(Tasks)
BY EngineAssumption, FS_Interval DEF Tasks

(* Only confirm() adds to the queue, and it counts first. *)
LEMMA BusyStep ==
    ASSUME IInv, QueueBounded, [Next]_vars
    PROVE  QueueBounded'
<1>0. TypeOK /\ TableType /\ CreatedInv /\ WorkerInv /\ VerdictInv
      /\ state \in [Tasks -> States]
  BY DEF IInv, TypeOK, TableType
<1>1. IsFiniteSet(BusyRows) /\ IsFiniteSet(BusyRows')
  BY TasksFinite, FS_Subset DEF BusyRows, InState
<1>2. BusyRows' \subseteq BusyRows
      \/ \E t \in Tasks : BusyRows' = BusyRows \cup {t} /\ Busy < QueueLimit
  <2> USE DEF BusyRows, InState
  <2>1. CASE UNCHANGED table
    BY <2>1
  <2>2. CASE Maintained /\ UNCHANGED history
    BY <1>0, <2>2 DEF Maintained, RunMaintenance
  <2>3. CASE InsertPreview
    BY <1>0, <2>3, InsertEffect
  <2>4. CASE ConfirmTask
    BY <1>0, <2>4 DEF ConfirmTask, Refuse, Unconfirmed
  <2>5. CASE CancelTask
    BY <1>0, <2>5, CancelEffect
  <2>6. CASE \E u \in Tasks : ClaimNext(u)
    BY <1>0, <2>6 DEF ClaimNext, FirstInLine, Claimable
  <2>7. CASE \E th \in Threads : FinishWaitingRollback(th)
    BY <1>0, <2>7, FinishEffect
  <2>8. CASE WaitForRollbackConfirmation \/ FinishTask
    BY <1>0, <2>8 DEF WaitForRollbackConfirmation, FinishTask, WorkerInv, BusySteps, EndStates
  <2> QED  BY <2>1, <2>2, <2>3, <2>4, <2>5, <2>6, <2>7, <2>8, TableCases
<1>3. /\ Busy = Cardinality(BusyRows) /\ Cardinality(BusyRows) <= QueueLimit
      /\ Cardinality(BusyRows') <= QueueLimit => QueueBounded'
  BY DEF Busy, BusyRows, QueueBounded
<1>4. Cardinality(BusyRows) \in Nat /\ Cardinality(BusyRows') \in Nat /\ QueueLimit \in Nat
  BY <1>1, FS_CardinalityType, EngineAssumption
<1>5. CASE BusyRows' \subseteq BusyRows
  <2>1. Cardinality(BusyRows') <= Cardinality(BusyRows)
    BY <1>1, <1>5, FS_Subset
  <2> QED  BY <1>3, <1>4, <2>1
<1>6. ASSUME NEW t \in Tasks, BusyRows' = BusyRows \cup {t}, Busy < QueueLimit
      PROVE  QueueBounded'
  <2>1. Cardinality(BusyRows') \in {Cardinality(BusyRows), Cardinality(BusyRows) + 1}
    BY <1>1, <1>6, FS_AddElement
  <2> QED  BY <1>3, <1>4, <1>6, <2>1
<1> QED  BY <1>2, <1>5, <1>6

(* The queue never holds more confirmed and running tasks than queue_limit.  *)
THEOREM QueueStaysBounded == Spec => []QueueBounded
<1>1. Init => QueueBounded
  <2>1. Init => InState("queued") \cup InState("running") = {}
    BY DEF Init, InState
  <2> QED  BY <2>1, FS_EmptySet, EngineAssumption DEF QueueBounded
<1>2. IInv /\ QueueBounded /\ [Next]_vars => QueueBounded'
  BY BusyStep
<1> QED  BY <1>1, <1>2, Invariance, PTL DEF Spec
-----------------------------------------------------------------------------
(***************************************************************************)
(* The change-task engine implements TaskLifecycle, for any number of      *)
(* tasks, administrators, actions and crashes.  The refinement mapping is  *)
(* the one of ImplementsLifecycle; the inductive invariant tells that the  *)
(* worker acts on the row that is running, and acts on it once.            *)
(***************************************************************************)

(* The refinement mapping. *)
Phases == [t \in Tasks |-> Phase(state[t])]
Exempt == {t \in 1..created : BypassesWindow(action[t])}
Acted == {t \in Tasks : execs[t] > 0}

(* The phases tell the states apart that the abstract life distinguishes. *)
LEMMA PhaseOf ==
    ASSUME NEW s \in States
    PROVE  /\ Phase(s) = "absent" <=> s = "absent"
           /\ Phase(s) = "proposed" <=> s = "waiting_confirmation"
           /\ Phase(s) = "approved" <=> s = "queued"
           /\ Phase(s) = "running" <=> s = "running"
           /\ Phase(s) = "guarded" <=> s = "waiting_rollback_confirmation"
           /\ Phase(s) = "ended" <=> s \in TerminalStates
BY DEF Phase, States, ActiveStates, TerminalStates

(* The sets the abstract life speaks of are sets of rows. *)
LEMMA InPhase ==
    ASSUME state \in [Tasks -> States]
    PROVE  /\ Abstract!In("absent") = InState("absent")
           /\ Abstract!In("proposed") = InState("waiting_confirmation")
           /\ Abstract!In("approved") = InState("queued")
           /\ Abstract!In("running") = InState("running")
           /\ Abstract!In("guarded") = InState("waiting_rollback_confirmation")
BY PhaseOf DEF Abstract!In, InState

(* Writing one state is moving one task. *)
LEMMA MovesTo ==
    ASSUME state \in [Tasks -> States], NEW t \in Tasks, NEW s \in States,
           state' = [state EXCEPT ![t] = s]
    PROVE  Abstract!MoveTo(t, Phase(s))
BY DEF Abstract!MoveTo

(* Rows in the order they are inserted. *)
LEMMA ExemptRows ==
    ASSUME TableType
    PROVE  Exempt = {t \in Tasks : t <= created /\ BypassesWindow(action[t])}
<1>1. created \in 0..MaxTasks /\ MaxTasks \in Nat
  BY EngineAssumption DEF TableType
<1>2. 1..created = {t \in Tasks : t <= created}
  BY <1>1 DEF Tasks
<1> QED  BY <1>2 DEF Exempt

(* What the abstract life does not see. *)
LEMMA Stutter ==
    ASSUME UNCHANGED <<state, action, created, execs>>
    PROVE  UNCHANGED Abstract!vars
BY DEF Abstract!vars, BypassesWindow

(* Most steps change the phase only. *)
LEMMA SameRest ==
    ASSUME UNCHANGED <<action, created, execs>>
    PROVE  UNCHANGED <<Exempt, Acted>>
BY DEF Exempt, Acted, BypassesWindow

(* The same, after a step. *)
LEMMA ExemptRowsNext ==
    ASSUME TableType'
    PROVE  Exempt' = {t \in Tasks : t <= created' /\ BypassesWindow(action'[t])}
<1>1. created' \in 0..MaxTasks /\ MaxTasks \in Nat
  BY EngineAssumption DEF TableType
<1>2. 1..created' = {t \in Tasks : t <= created'}
  BY <1>1 DEF Tasks
<1> QED  BY <1>2 DEF Exempt, BypassesWindow

(* The next row is the least one that does not exist yet. *)
LEMMA NextIsLeast ==
    ASSUME NEW c \in Nat
    PROVE  \A u \in Tasks : /\ u <= c <=> ~(u > c)
                            /\ ~(c + 1 <= c)
                            /\ u <= c + 1 <=> u = c + 1 \/ u <= c
                            /\ u > c => c + 1 <= u
BY EngineAssumption DEF Tasks

(* Both modules count in the same way. *)
LEMMA SameCardinality == \A S : Abstract!Cardinality(S) = Cardinality(S)
BY DEF Abstract!Cardinality, Cardinality

(* A first execution counts. *)
LEMMA OneIsSomething == 0 + 1 > 0 /\ ~(0 > 0)
OBVIOUS

(* Nothing has happened in an empty table. *)
LEMMA ZeroIsNothing == 1..0 = {} /\ ~(0 > 0)
OBVIOUS

(* An empty table is an abstract life that has not begun. *)
LEMMA RefineInit == Init => Abstract!Init
<1> SUFFICES ASSUME Init PROVE Abstract!Init
  OBVIOUS
<1>1. \A t \in Tasks : Phase(state[t]) = "absent"
  BY DEF Init, Phase
<1>2. Acted = {}
  BY ZeroIsNothing DEF Init, Acted
<1>3. Exempt = {}
  BY ZeroIsNothing DEF Init, Exempt
<1> QED  BY <1>1, <1>2, <1>3 DEF Abstract!Init, Acted, Exempt

(* Every step of the engine is a step of the abstract life, or invisible.  *)
LEMMA RefineStep ==
    ASSUME IInv, [Next]_vars
    PROVE  Abstract!Next \/ UNCHANGED Abstract!vars
<1>0. /\ TypeOK /\ TableType /\ CreatedInv /\ WorkerInv /\ VerdictInv
      /\ state \in [Tasks -> States] /\ action \in [Tasks -> AllActions]
      /\ execs \in [Tasks -> Nat]
  BY DEF IInv, TypeOK, TableType, HistoryType
<1> USE DEF Abstract!Next
<1>1. CASE UNCHANGED table /\ UNCHANGED execs
  BY <1>1, Stutter
<1>2. CASE UNCHANGED table /\ execs' # execs
  <2>1. PICK t \in Tasks :
          /\ execs' = [execs EXCEPT ![t] = @ + 1]
          /\ state[t] = "running" /\ execs[t] = 0
    BY <1>0, <1>2, ExecsCases DEF WorkerInv, BusySteps, IInv, OnceInv
  <2>2. t \notin Acted /\ Acted' = Acted \cup {t}
    BY <1>0, <2>1, OneIsSomething DEF Acted
  <2>3. UNCHANGED <<Phases, Exempt>>
    BY <1>2 DEF Phases, Exempt, BypassesWindow
  <2>4. t \in Abstract!In("running")
    BY <1>0, <2>1, InPhase DEF InState
  <2>5. Abstract!Act(t)
    BY <2>2, <2>3, <2>4 DEF Abstract!Act, Acted, Phases, Exempt
  <2> QED  BY <2>5
<1>3. CASE Maintained /\ UNCHANGED history
  <2>1. PICK E \in SUBSET InState("waiting_confirmation") :
          /\ state' = [t \in Tasks |-> IF t \in E THEN "expired" ELSE state[t]]
          /\ UNCHANGED <<action, created, execs>>
    BY <1>3 DEF Maintained, RunMaintenance
  <2>2. E \subseteq Abstract!In("proposed") /\ E \in SUBSET Tasks
    BY <1>0, <2>1, InPhase DEF InState
  <2>3. Phases' = [t \in Tasks |-> IF t \in E THEN "ended" ELSE Phases[t]]
    BY <2>1 DEF Phases, Phase
  <2>4. Abstract!Withdraw(E)
    BY <2>1, <2>2, <2>3, SameRest DEF Abstract!Withdraw, Phases, Exempt, Acted
  <2> QED  BY <2>2, <2>4
<1>4. CASE InsertPreview
  <2>1. PICK t \in Tasks :
          /\ t = created + 1 /\ created' = t /\ state[t] = "absent"
          /\ state' = [state EXCEPT ![t] = "waiting_confirmation"]
    BY <1>0, <1>4, InsertEffect
  <2>2. /\ action' = [action EXCEPT ![t] = request.action]
        /\ UNCHANGED execs
    BY <1>4, <2>1 DEF InsertPreview
  <2>3. Abstract!MoveTo(t, "proposed")
    BY <1>0, <2>1, MovesTo DEF Phase, States, ActiveStates
  <2>4. \A u \in InState("absent") : t <= u
    BY <1>0, <2>1, CreatedType, NextIsLeast DEF CreatedInv, InState
  <2>5. Exempt' \in {Exempt, Exempt \cup {t}}
    <3>1. Exempt = {u \in Tasks : u <= created /\ BypassesWindow(action[u])}
      BY <1>0, ExemptRows
    <3>2. TableType'
      BY <1>0, TypeStep DEF IInv, TypeOK
    <3>3. Exempt' = {u \in Tasks : u <= created' /\ BypassesWindow(action'[u])}
      BY <3>2, ExemptRowsNext
    <3>4. \A u \in Tasks : u <= created' <=> u = t \/ u <= created
      BY <1>0, <2>1, CreatedType, NextIsLeast
    <3>5. ~(t <= created)
      BY <1>0, <2>1, CreatedType, NextIsLeast
    <3>6. \A u \in Tasks : u # t => action'[u] = action[u]
      BY <1>0, <2>2
    <3> QED  BY <3>1, <3>3, <3>4, <3>5, <3>6
  <2>6. Abstract!Propose(t)
    <3>1. t \in Abstract!In("absent") /\ \A u \in Abstract!In("absent") : t <= u
      BY <1>0, <2>1, <2>4, InPhase DEF InState
    <3> QED  BY <2>2, <2>3, <2>5, <3>1 DEF Abstract!Propose, Exempt, Acted
  <2> QED  BY <2>6
<1>5. CASE ConfirmTask
  <2>1. UNCHANGED <<action, created, execs>>
    BY <1>5 DEF ConfirmTask, Refuse
  <2>2. CASE UNCHANGED state
    BY <2>1, <2>2, Stutter
  <2>3. CASE ~UNCHANGED state
    <3>1. /\ state' = [state EXCEPT ![request.task] = "queued"]
          /\ Busy < QueueLimit /\ state[request.task] = "waiting_confirmation"
      BY <1>5, <2>3 DEF ConfirmTask, Refuse, Unconfirmed
    <3>2. request.task \in Tasks
      BY <1>0, <2>3, <3>1
    <3>3. Abstract!MoveTo(request.task, "approved")
      BY <1>0, <3>1, <3>2, MovesTo DEF Phase, States, ActiveStates
    <3>4. /\ request.task \in Abstract!In("proposed")
          /\ Abstract!Cardinality(Abstract!In("approved") \cup Abstract!In("running")) < QueueLimit
      BY <1>0, <3>1, <3>2, InPhase, SameCardinality DEF InState, Busy
    <3>5. Abstract!Approve(request.task)
      BY <2>1, <3>3, <3>4, SameRest DEF Abstract!Approve, Exempt, Acted
    <3> QED  BY <3>2, <3>5
  <2> QED  BY <2>2, <2>3
<1>6. CASE CancelTask
  <2>1. UNCHANGED <<action, created, execs>>
    BY <1>6 DEF CancelTask, Refuse
  <2>2. CASE UNCHANGED state
    BY <2>1, <2>2, Stutter
  <2>3. CASE ~UNCHANGED state
    <3>1. PICK t \in Tasks : /\ state[t] \in {"waiting_confirmation", "queued"}
                             /\ state' = [state EXCEPT ![t] = "cancelled"]
      BY <1>0, <1>6, <2>3, CancelEffect
    <3>2. Phases' = [u \in Tasks |-> IF u \in {t} THEN "ended" ELSE Phases[u]]
      BY <1>0, <3>1 DEF Phases, Phase
    <3>3. {t} \subseteq Abstract!In("proposed") \/ t \in Abstract!In("approved")
      BY <1>0, <3>1, InPhase DEF InState
    <3>4. Abstract!Withdraw({t})
      BY <2>1, <3>2, <3>3, SameRest DEF Abstract!Withdraw, Phases, Exempt, Acted
    <3> QED  BY <3>4
  <2> QED  BY <2>2, <2>3
<1>7. ASSUME NEW t \in Tasks, ClaimNext(t)
      PROVE  Abstract!Next
  <2>1. /\ FirstInLine(t) /\ state' = [state EXCEPT ![t] = "running"]
        /\ UNCHANGED <<action, created, execs>>
        /\ wpc = "reconcile" /\ agent = "up"
    BY <1>7 DEF ClaimNext, ReadyToClaim
  <2>2. Abstract!MoveTo(t, "running")
    BY <1>0, <2>1, MovesTo DEF Phase, States, ActiveStates
  <2>3. Abstract!In("running") = {}
    BY <1>0, <2>1, InPhase DEF WorkerInv, BusySteps, InState
  <2>4. \A u \in Tasks : Abstract!MayStart(u) <=> u \in Claimable
    <3>1. \A u \in Tasks : state[u] = "queued" => (u \in Exempt <=> BypassesWindow(action[u]))
      <4>1. \A u \in Tasks : state[u] = "queued" => u <= created
        BY <1>0, CreatedType, NextIsLeast DEF CreatedInv
      <4> QED  BY <1>0, <4>1, ExemptRows
    <3> QED  BY <1>0, <3>1, InPhase DEF Abstract!MayStart, Claimable, InState, Exempt
  <2>5. Abstract!Start(t)
    BY <2>1, <2>2, <2>3, <2>4, SameRest DEF Abstract!Start, FirstInLine, Exempt, Acted, Claimable
  <2> QED  BY <2>5
<1>8. CASE \E th \in Threads : FinishWaitingRollback(th)
  <2>1. UNCHANGED <<action, created, execs>>
    BY <1>8 DEF FinishWaitingRollback
  <2>2. CASE UNCHANGED state
    BY <2>1, <2>2, Stutter
  <2>3. CASE ~UNCHANGED state
    <3>1. PICK t \in Tasks, v \in {"confirmed", "rolled_back", "interrupted"} :
              /\ state[t] = "waiting_rollback_confirmation"
              /\ state' = [state EXCEPT ![t] = v]
      BY <1>0, <1>8, <2>3, FinishEffect
    <3>2. v \in States /\ Phase(v) = "ended"
      BY DEF Phase, States, TerminalStates
    <3>3. Abstract!MoveTo(t, "ended")
      BY <1>0, <3>1, <3>2, MovesTo
    <3>4. t \in Abstract!In("guarded")
      BY <1>0, <3>1, InPhase DEF InState
    <3>5. Abstract!Settle(t)
      BY <2>1, <3>3, <3>4, SameRest DEF Abstract!Settle, Exempt, Acted
    <3> QED  BY <3>5
  <2> QED  BY <2>2, <2>3
<1>9. CASE WaitForRollbackConfirmation \/ FinishTask
  <2>1. UNCHANGED <<action, created, execs>> /\ wpc \in BusySteps
    BY <1>9 DEF WaitForRollbackConfirmation, FinishTask, BusySteps
  <2>2. wtask \in Tasks /\ state[wtask] = "running"
    BY <1>0, <2>1 DEF WorkerInv
  <2>3. PICK v \in {"waiting_rollback_confirmation"} \cup EndStates :
            state' = [state EXCEPT ![wtask] = v]
    BY <1>0, <1>9 DEF WaitForRollbackConfirmation, FinishTask, WorkerInv
  <2>4. v \in States /\ Phase(v) \in {"guarded", "ended"}
    BY DEF Phase, States, ActiveStates, TerminalStates, EndStates
  <2>5. Abstract!MoveTo(wtask, Phase(v))
    BY <1>0, <2>2, <2>3, <2>4, MovesTo
  <2>6. wtask \in Abstract!In("running")
    BY <1>0, <2>2, InPhase DEF InState
  <2>7. Abstract!EndTurn(wtask)
    BY <2>1, <2>4, <2>5, <2>6, SameRest DEF Abstract!EndTurn, Exempt, Acted
  <2> QED  BY <2>2, <2>7
<1> QED
  BY <1>1, <1>2, <1>3, <1>4, <1>5, <1>6, <1>7, <1>8, <1>9, TableCases

(* The engine implements the abstract life of its tasks, whatever the two    *)
(* threads, the timers and the crashes of the agent do.                      *)
THEOREM Refinement == Spec => ImplementsLifecycle
<1>1. IInv /\ [Next]_vars => [Abstract!Next]_Abstract!vars
  BY RefineStep
<1> QED  BY <1>1, RefineInit, Invariance, PTL DEF Spec, ImplementsLifecycle, Abstract!Spec
-----------------------------------------------------------------------------
(* Rollback windows                                                        *)
(*                                                                         *)
(* The engine tells the truth about rollback windows: a task that waited   *)
(* for a window ends as that window ended, and a task that closes a window *)
(* closes the one it was previewed against.                                *)
(*                                                                         *)
(* A row only holds the number of a window and a thread only holds what an *)
(* inspection showed some steps ago, so the argument is about how windows  *)
(* and their fates move: every window has the number of the one task that  *)
(* opened it, and its fate, once it is closed, never changes.              *)

ClosedFates == Outcomes \ {""}

(* A window is that of the task whose number it has, and shows its fate.   *)
WindowInv ==
    \A f \in Families :
        window[f].id # NoTask =>
            /\ action[window[f].id].family = f
            /\ execs[window[f].id] # 0
            /\ window[f].state = "pending" => fate[window[f].id] = "open"
            /\ window[f].state # "pending" =>
                  /\ window[f].outcome \in ClosedFates
                  /\ fate[window[f].id] = window[f].outcome

(* A task that has not acted has no window. *)
FreshInv == \A t \in Tasks : execs[t] = 0 => fate[t] = "unopened"

Guarded == {"waiting_rollback_confirmation"} \cup TerminalStates

(* Only rows that wait or have waited know a window. *)
ExpectedInv ==
    /\ \A t \in Tasks : expected[t] # NoTask => state[t] \in Guarded
    /\ \A t \in InState("waiting_rollback_confirmation") : action[t].family \in Families
    /\ wpc = "guard" => action[wtask].family \in Families

(* The end s of a row is what became of the window w. *)
TrueEnd(s, w) ==
    \/ s = "confirmed" /\ fate[w] = "confirmed"
    \/ s = "rolled_back" /\ fate[w] \in {"rolled_back", "automatic_rollback"}

(* What a thread has read of a row that waits is still true. *)
ReadInv ==
    \A th \in Threads :
        reading[th] # NoTask =>
            /\ state[reading[th]] \in Guarded
            /\ expected[reading[th]] # NoTask =>
                  TrueEnd(verdict[th], expected[reading[th]])

EndInv ==
    \A t \in Tasks :
        expected[t] # NoTask /\ state[t] \in TerminalStates => TrueEnd(state[t], expected[t])

(* What a preview showed of a window is that window's number, and what an   *)
(* inspection confirmed stays so while the window is open.                  *)
PreviewInv ==
    /\ ReportsOutcome(request.action.family) => request.digest.mark = request.target
    /\ \A t \in Tasks : ReportsOutcome(action[t].family) => digest[t].mark = target[t]
    /\ LET f == action[wtask].family IN
       wpc = "execute" /\ ReportsOutcome(f) /\ window[f].state = "pending" =>
            window[f].id = target[wtask]

TruthInv ==
    /\ WindowInv /\ FreshInv /\ ExpectedInv /\ ReadInv /\ EndInv /\ PreviewInv

-----------------------------------------------------------------------------
(* How windows move.                                                       *)

(* Only preview() writes the action column. *)
LEMMA ActionStays ==
    ASSUME [Next]_vars, ~InsertPreview
    PROVE  UNCHANGED <<action, digest, target>>
<1>1. UNCHANGED <<action, digest>>
  BY TableCases DEF Maintained, RunMaintenance, ConfirmTask, CancelTask, Refuse, ClaimNext,
     FinishWaitingRollback, WaitForRollbackConfirmation, FinishTask
<1>2. UNCHANGED target
  <2>1. CASE Worker
    <3>1. CASE ExecuteChange \/ ExecuteApply \/ ExecuteClose
      BY <3>1 DEF ExecuteChange, ExecuteApply, ExecuteClose, Executing
    <3> QED
      BY <2>1, <3>1 DEF Worker, WorkerWake, NothingToClaim, ClaimNext,
         InspectBeforeExecution, RecoverExecution, WaitForRollbackConfirmation, FinishTask
  <2>2. CASE Server
    BY <2>2 DEF Server, Prepare, StartDecision, ConfirmTask, CancelTask,
                Refuse, StartGet, StartList, EndRequest
  <2>3. CASE Reconcile \/ AgentProcess \/ Discarding \/ Environment \/ UNCHANGED vars
    BY <2>3 DEF Reconcile, ReconcileInspect, ReconcileSkip, FinishWaitingRollback,
                AgentProcess, Crash, Restart, ServeRequests, RecoverRunningTask,
                Discarding, DiscardUpload, Environment, LoseAnswer, WithdrawUpload,
                AutomaticRollback, MeddleOpen, MeddleClose, MeddleHost, Meddle
  <2> QED  BY <2>1, <2>2, <2>3 DEF Next
<1> QED  BY <1>1, <1>2

(* The family and the count of a task that has acted. *)
LEMMA ActedTask ==
    ASSUME IInv, [Next]_vars, NEW t \in Tasks, execs[t] # 0
    PROVE  action'[t] = action[t] /\ execs'[t] # 0
<1>0. TypeOK /\ TableType /\ CreatedInv
  BY DEF IInv, TypeOK
<1>1. action'[t] = action[t]
  <2>1. CASE InsertPreview
    <3>1. PICK u \in Tasks : u = created + 1 /\ state[u] = "absent"
      BY <1>0, <2>1, InsertEffect
    <3>2. u # t
      BY <3>1 DEF IInv, ExecutedAtMostOnce, NotStarted
    <3> QED  BY <1>0, <2>1, <3>1, <3>2 DEF InsertPreview, TableType
  <2>2. CASE ~InsertPreview
    BY <2>2, ActionStays
  <2> QED  BY <2>1, <2>2
<1>2. execs'[t] # 0
  <2>1. execs \in [Tasks -> Nat]
    BY <1>0 DEF TypeOK, HistoryType
  <2>2. CASE UNCHANGED execs
    BY <2>2
  <2>3. CASE execs' = [execs EXCEPT ![wtask] = @ + 1]
    BY <2>1, <2>3
  <2> QED  BY <2>2, <2>3, ExecsCases
<1> QED  BY <1>1, <1>2

(* What the worker does to the window of the family it executes: it opens   *)
(* it, opens and closes it, or forgets the one before.                      *)
Applies(f) ==
    /\ wpc = "execute" /\ wtask \in Tasks /\ action[wtask].family = f
    /\ window[f].state = "idle"
    /\ execs[wtask] = 0 /\ execs' = [execs EXCEPT ![wtask] = @ + 1]
    /\ wpc' # "execute"
    /\ \/ /\ Open(f, wtask)
          /\ fate' = [fate EXCEPT ![wtask] = "open"]
       \/ /\ window' = [window EXCEPT ![f] =
                   [state |-> "idle", id |-> wtask, outcome |-> "rolled_back"]]
          /\ fate' = [fate EXCEPT ![wtask] = "rolled_back"]
       \/ /\ window' = [window EXCEPT ![f] =
                   [state |-> "idle", id |-> NoTask, outcome |-> ""]]
          /\ UNCHANGED fate

Closes(f) ==
    window[f].state = "pending" /\ \E how \in ClosedFates : Close(f, how)

(* A root shell opens a window of a family the engine never identifies. *)
OpensByHand(f) ==
    /\ ~ReportsOutcome(f) /\ window[f].state = "idle"
    /\ Open(f, NoTask) /\ UNCHANGED fate

(* Families of windows, and the operations that open and close them. *)
LEMMA WindowFamilies ==
    /\ \A f \in Families : f # Host
    /\ \A f \in CommandLineFamilies : f \in Families /\ ~ReportsOutcome(f)
    /\ \A a \in AllActions : SupportsRollback(a) \/ a.op = "apply" \/ a.op \in {"confirm", "rollback"}
          \/ ShowsWindow(a) => a.family \in Families
    /\ {"confirmed", "rolled_back", "automatic_rollback"} = ClosedFates
BY DEF Families, SecurityFamilies, CommandLineFamilies, ReportsOutcome, Host, AllActions,
       HostOps, WindowOps, SupportsRollback, ShowsWindow, ClosedFates, Outcomes

(* Nothing else moves a window or its fate. *)
LEMMA WindowMoves ==
    ASSUME IInv, [Next]_vars
    PROVE  \/ UNCHANGED <<window, fate>>
           \/ \E f \in Families : Applies(f) \/ Closes(f) \/ (UNCHANGED execs /\ OpensByHand(f))
<1>0. TypeOK /\ TableType /\ WorkerInv /\ OnceInv /\ action \in [Tasks -> AllActions]
  BY DEF IInv, TypeOK, TableType
<1>1. CASE ExecuteApply
  <2>1. wtask \in Tasks /\ execs[wtask] = 0
    BY <1>0, <1>1 DEF ExecuteApply, Executing, WorkerInv, BusySteps, OnceInv
  <2>2. action[wtask].family \in Families
    BY <1>0, <1>1, <2>1, WindowFamilies DEF ExecuteApply, Executing
  <2>3. wpc = "execute" /\ execs' = [execs EXCEPT ![wtask] = @ + 1] /\ wpc' # "execute"
    BY <1>1 DEF ExecuteApply, Executing, AfterApply, ThenFinish, ThenGuard, ThenRecover
  <2> QED
    BY <1>1, <2>1, <2>2, <2>3 DEF ExecuteApply, Applies
<1>2. CASE ExecuteClose
  <2>1. wtask \in Tasks
    BY <1>0, <1>2 DEF ExecuteClose, Executing, WorkerInv, BusySteps
  <2>2. action[wtask].family \in Families
    BY <1>0, <1>2, <2>1, WindowFamilies DEF ExecuteClose, Executing
  <2> QED
    BY <1>2, <2>2, WindowFamilies DEF ExecuteClose, Closes
<1>3. ASSUME NEW f \in Families, AutomaticRollback(f) \/ MeddleOpen(f) \/ MeddleClose(f)
      PROVE  Closes(f) \/ (UNCHANGED execs /\ OpensByHand(f))
  BY <1>3, WindowFamilies DEF AutomaticRollback, MeddleOpen, MeddleClose, Meddle, Closes, OpensByHand
<1>4. CASE UNCHANGED <<window, fate>>
  BY <1>4
<1>5. \/ UNCHANGED <<window, fate>> \/ ExecuteApply \/ ExecuteClose
      \/ \E f \in Families : AutomaticRollback(f) \/ MeddleOpen(f) \/ MeddleClose(f)
  <2>1. CASE UNCHANGED vars
    BY <2>1
  <2>2. CASE Server
    BY <2>2 DEF Server, Prepare, InsertPreview, StartDecision, ConfirmTask, CancelTask,
                Refuse, StartGet, StartList, EndRequest
  <2>3. CASE Worker
    BY <2>3 DEF Worker, WorkerWake, NothingToClaim, ClaimNext, ExecuteChange,
       InspectBeforeExecution, RecoverExecution, WaitForRollbackConfirmation, FinishTask
  <2>4. CASE Reconcile \/ AgentProcess
    BY <2>4 DEF Reconcile, ReconcileInspect, ReconcileSkip, FinishWaitingRollback,
                AgentProcess, Crash, Restart, ServeRequests, RecoverRunningTask
  <2>5. CASE Discarding \/ Environment
    BY <2>5 DEF Environment, MeddleHost, Discarding, DiscardUpload, LoseAnswer,
       WithdrawUpload
  <2> QED  BY <2>1, <2>2, <2>3, <2>4, <2>5 DEF Next
<1> QED  BY <1>1, <1>2, <1>3, <1>4, <1>5

(* A fate that is closed stays: no window has the number of a task that    *)
(* executes for the first time, and no closed window closes again.         *)
LEMMA FateStays ==
    ASSUME IInv, WindowInv, FreshInv, [Next]_vars, NEW t \in Tasks,
           fate[t] \in ClosedFates
    PROVE  fate'[t] = fate[t]
<1>0. HistoryType /\ HostType
  BY DEF IInv, TypeOK
<1>1. fate[t] # "unopened" /\ fate[t] # "open"
  BY DEF ClosedFates, Outcomes
<1>2. ASSUME NEW f \in Families, Applies(f)
      PROVE  fate'[t] = fate[t]
  BY <1>0, <1>1, <1>2 DEF Applies, FreshInv, HistoryType
<1>3. ASSUME NEW f \in Families, Closes(f)
      PROVE  fate'[t] = fate[t]
  <2>1. t # window[f].id
    BY <1>1, <1>3, TasksFact DEF Closes, WindowInv
  <2> QED  BY <1>3, <2>1 DEF Closes, Close
<1> QED  BY <1>2, <1>3, WindowMoves DEF OpensByHand

(* A task that has not executed has no window, whatever the next step is. *)
LEMMA FreshStep ==
    ASSUME IInv, WindowInv, FreshInv, [Next]_vars
    PROVE  FreshInv'
<1>0. HistoryType /\ HostType /\ execs \in [Tasks -> Nat] /\ fate \in [Tasks -> Fates]
  BY DEF IInv, TypeOK, HistoryType
<1>1. SUFFICES ASSUME NEW t \in Tasks, execs'[t] = 0
               PROVE  fate'[t] = "unopened"
  BY DEF FreshInv
<1>2. execs[t] = 0 /\ fate[t] = "unopened"
  BY <1>1, ActedTask DEF FreshInv
<1>3. ASSUME NEW f \in Families, Applies(f)
      PROVE  fate'[t] = fate[t]
  <2>1. CASE t = wtask
    <3>1. execs'[t] = execs[t] + 1
      BY <1>0, <1>3, <2>1 DEF Applies
    <3> QED  BY <1>1, <1>2, <3>1
  <2>2. CASE t # wtask
    BY <1>0, <1>3, <2>2 DEF Applies
  <2> QED  BY <2>1, <2>2
<1>4. ASSUME NEW f \in Families, Closes(f)
      PROVE  fate'[t] = fate[t]
  <2>1. t # window[f].id
    BY <1>2, TasksFact DEF WindowInv
  <2> QED  BY <1>4, <2>1 DEF Closes, Close
<1> QED  BY <1>2, <1>3, <1>4, WindowMoves DEF OpensByHand

(* Of one window. *)
Owned(f, t) == action[t].family = f /\ execs[t] # 0

Shown(w, t) ==
    /\ w.state = "pending" => fate[t] = "open"
    /\ w.state # "pending" => w.outcome \in ClosedFates /\ fate[t] = w.outcome

(* A numbered window stays the window of the task of that number, and the *)
(* fate of that task stays what the window shows.                         *)
LEMMA WindowTruthStep ==
    ASSUME IInv, WindowInv, FreshInv, [Next]_vars
    PROVE  WindowInv'
<1>0. /\ execs \in [Tasks -> Nat] /\ fate \in [Tasks -> Fates]
      /\ window \in [Families -> Windows]
  BY DEF IInv, TypeOK, HistoryType, HostType
<1>1. SUFFICES ASSUME NEW f \in Families, window'[f].id # NoTask
               PROVE  Owned(f, window[f].id)' /\ Shown(window[f], window[f].id)'
  BY DEF WindowInv, Owned, Shown
<1>2. ASSUME window[f].id # NoTask
      PROVE  \E t \in Tasks :
                /\ t = window[f].id
                /\ Owned(f, t) /\ Owned(f, t)' /\ Shown(window[f], t)
  <2>1. window[f].id \in Tasks
    BY <1>0, <1>2 DEF Windows
  <2>2. PICK t \in Tasks : t = window[f].id
    BY <2>1
  <2>3. Owned(f, t) /\ Shown(window[f], t)
    BY <1>2, <2>2 DEF WindowInv, Owned, Shown
  <2>4. Owned(f, t)'
    BY <2>3, ActedTask DEF Owned
  <2> QED  BY <2>2, <2>3, <2>4
<1>3. CASE UNCHANGED <<window, fate>>
  <2>1. PICK t \in Tasks : t = window[f].id /\ Owned(f, t)' /\ Shown(window[f], t)
    BY <1>1, <1>2, <1>3
  <2> QED  BY <1>3, <2>1 DEF Shown, Owned
<1>4. ASSUME NEW g \in Families, Applies(g)
      PROVE  Owned(f, window[f].id)' /\ Shown(window[f], window[f].id)'
  <2>1. CASE g # f
    <3>1. window'[f] = window[f]
      BY <1>0, <1>4, <2>1 DEF Applies, Open
    <3>2. PICK t \in Tasks : /\ t = window[f].id
                             /\ Owned(f, t) /\ Owned(f, t)' /\ Shown(window[f], t)
      BY <1>1, <1>2, <3>1
    <3>3. fate'[t] = fate[t]
      BY <1>0, <1>4, <3>2 DEF Applies, Owned
    <3> QED  BY <3>1, <3>2, <3>3 DEF Shown, Owned
  <2>2. CASE g = f
    <3>1. PICK t \in Tasks : t = wtask
      BY <1>4 DEF Applies
    <3>2. execs[t] = 0 /\ execs' = [execs EXCEPT ![t] = @ + 1] /\ action[t].family = f
      BY <1>4, <2>2, <3>1 DEF Applies
    <3>3. execs'[t] # 0
      BY <1>0, <3>2
    <3>4. action'[t] = action[t]
      <4>1. ~InsertPreview
        BY <1>4 DEF Applies, InsertPreview
      <4> QED  BY <4>1, ActionStays
    <3>5. Owned(f, t)'
      BY <3>2, <3>3, <3>4 DEF Owned
    <3>6. CASE Open(f, t) /\ fate' = [fate EXCEPT ![t] = "open"]
      <4>1. window'[f].state = "pending" /\ window'[f].id = t
        BY <1>0, <3>6 DEF Open
      <4>2. fate'[t] = "open"
        BY <1>0, <3>6
      <4>3. Shown(window[f], t)'
        BY <4>1, <4>2 DEF Shown
      <4> QED  BY <3>5, <4>1, <4>3 DEF Shown, Owned
    <3>7. CASE /\ window' = [window EXCEPT ![f] =
                     [state |-> "idle", id |-> t, outcome |-> "rolled_back"]]
               /\ fate' = [fate EXCEPT ![t] = "rolled_back"]
      <4>1. window'[f] = [state |-> "idle", id |-> t, outcome |-> "rolled_back"]
        BY <1>0, <3>7
      <4>2. fate'[t] = "rolled_back"
        BY <1>0, <3>7
      <4> QED  BY <3>5, <4>1, <4>2 DEF Shown, Owned, ClosedFates, Outcomes
    <3>8. CASE window' = [window EXCEPT ![f] =
                     [state |-> "idle", id |-> NoTask, outcome |-> ""]]
      BY <1>0, <1>1, <3>8
    <3> QED  BY <1>4, <2>2, <3>1, <3>6, <3>7, <3>8 DEF Applies
  <2> QED  BY <2>1, <2>2
<1>5. ASSUME NEW g \in Families, Closes(g)
      PROVE  Owned(f, window[f].id)' /\ Shown(window[f], window[f].id)'
  <2>1. window'[f].id = window[f].id
    BY <1>0, <1>5 DEF Closes, Close, Windows
  <2>2. PICK how \in ClosedFates : Close(g, how)
    BY <1>5 DEF Closes
  <2>3. PICK t \in Tasks : /\ t = window[f].id
                           /\ Owned(f, t) /\ Owned(f, t)' /\ Shown(window[f], t)
    BY <1>1, <1>2, <2>1
  <2>4. CASE g # f
    <3>1. window'[f] = window[f]
      BY <1>0, <2>2, <2>4 DEF Close
    <3>2. t # window[g].id
      BY <2>3, <2>4, TasksFact DEF WindowInv, Owned
    <3>3. fate'[t] = fate[t]
      BY <2>2, <3>2 DEF Close
    <3> QED  BY <2>3, <3>1, <3>3 DEF Shown, Owned
  <2>5. CASE g = f
    <3>1. window'[f].state = "idle" /\ window'[f].outcome = how
      BY <1>0, <2>2, <2>5 DEF Close, Windows
    <3>2. fate'[t] = how
      BY <2>2, <2>3, <2>5 DEF Close
    <3> QED  BY <2>1, <2>3, <3>1, <3>2 DEF Shown, Owned
  <2> QED  BY <2>4, <2>5
<1>6. ASSUME NEW g \in Families, OpensByHand(g)
      PROVE  Owned(f, window[f].id)' /\ Shown(window[f], window[f].id)'
  <2>1. g # f
    BY <1>0, <1>1, <1>6 DEF OpensByHand, Open
  <2>2. window'[f] = window[f] /\ UNCHANGED fate
    BY <1>0, <1>6, <2>1 DEF OpensByHand, Open
  <2>3. PICK t \in Tasks : t = window[f].id /\ Owned(f, t)' /\ Shown(window[f], t)
    BY <1>1, <1>2, <2>2
  <2> QED  BY <2>2, <2>3 DEF Shown, Owned
<1> QED  BY <1>3, <1>4, <1>5, <1>6, WindowMoves

-----------------------------------------------------------------------------
(* How the rows that wait, and what the threads know of them, move.        *)

(* The worker is about to write a row as waiting. *)
LEMMA GuardCases ==
    ASSUME [Next]_vars, wpc' = "guard"
    PROVE  \/ UNCHANGED <<wpc, wtask>>
           \/ ExecuteApply \/ RecoverExecution
           \/ \E t \in Tasks : RecoverRunningTask(t)
<1>1. CASE Worker
  BY <1>1 DEF Worker, WorkerWake, NothingToClaim, ClaimNext, InspectBeforeExecution,
     ExecuteChange, ExecuteClose, ThenFinish, ThenRecover, WaitForRollbackConfirmation,
     FinishTask
<1>2. CASE Server
  BY <1>2 DEF Server, Prepare, InsertPreview, StartDecision, ConfirmTask, CancelTask,
              Refuse, StartGet, StartList, EndRequest
<1>3. CASE Reconcile \/ AgentProcess \/ Discarding \/ Environment \/ UNCHANGED vars
  BY <1>3 DEF Reconcile, ReconcileInspect, ReconcileSkip, FinishWaitingRollback,
              AgentProcess, Crash, Restart, ServeRequests,
              Discarding, DiscardUpload, Environment, LoseAnswer, WithdrawUpload,
              AutomaticRollback, MeddleOpen, MeddleClose, MeddleHost, Meddle
<1> QED  BY <1>1, <1>2, <1>3 DEF Next

(* A row the worker holds keeps its action and what its preview showed. *)
LEMMA HeldRow ==
    ASSUME IInv, [Next]_vars, wpc \in BusySteps
    PROVE  /\ wtask \in Tasks
           /\ action'[wtask] = action[wtask] /\ target'[wtask] = target[wtask]
<1>0. TypeOK /\ TableType /\ CreatedInv /\ target \in [Tasks -> Tasks \cup {NoTask}]
  BY DEF IInv, TypeOK, HistoryType
<1>1. wtask \in Tasks /\ state[wtask] = "running"
  BY DEF IInv, WorkerInv
<1>2. CASE InsertPreview
  <2>1. PICK u \in Tasks : u = created + 1 /\ state[u] = "absent"
    BY <1>0, <1>2, InsertEffect
  <2>2. u # wtask
    BY <1>1, <2>1
  <2> QED  BY <1>0, <1>1, <1>2, <2>1, <2>2 DEF InsertPreview, TableType
<1>3. CASE ~InsertPreview
  BY <1>1, <1>3, ActionStays
<1> QED  BY <1>1, <1>2, <1>3

(* A row that waits, or has waited, goes on or ends, and keeps its window. *)
LEMMA GuardedStays ==
    ASSUME IInv, [Next]_vars, NEW t \in Tasks, state[t] \in Guarded
    PROVE  state'[t] \in Guarded /\ expected'[t] = expected[t]
<1>0. /\ TypeOK /\ TableType /\ CreatedInv /\ WorkerInv /\ VerdictInv
      /\ state \in [Tasks -> States] /\ expected \in [Tasks -> Tasks \cup {NoTask}]
  BY DEF IInv, TypeOK, TableType
<1> USE DEF TerminalStates, Guarded
<1>1. CASE UNCHANGED table
  BY <1>1
<1>2. CASE Maintained /\ UNCHANGED history
  BY <1>2 DEF Maintained, RunMaintenance, InState
<1>3. CASE InsertPreview
  BY <1>0, <1>3, InsertEffect DEF InsertPreview
<1>4. CASE ConfirmTask
  BY <1>0, <1>4 DEF ConfirmTask, Refuse, Unconfirmed
<1>5. CASE CancelTask
  BY <1>0, <1>5, CancelEffect DEF CancelTask, Refuse
<1>6. CASE \E u \in Tasks : ClaimNext(u)
  BY <1>0, <1>6 DEF ClaimNext, FirstInLine, Claimable, InState
<1>7. CASE \E th \in Threads : FinishWaitingRollback(th)
  <2>1. UNCHANGED expected
    BY <1>7 DEF FinishWaitingRollback
  <2> QED  BY <1>0, <1>7, <2>1, FinishEffect
<1>8. CASE WaitForRollbackConfirmation \/ FinishTask
  BY <1>0, <1>8 DEF WaitForRollbackConfirmation, FinishTask, WorkerInv, BusySteps
<1> QED  BY <1>1, <1>2, <1>3, <1>4, <1>5, <1>6, <1>7, <1>8, TableCases

(* A row becomes one that waits only from the worker's hands. *)
LEMMA WaitCases ==
    ASSUME IInv, [Next]_vars, NEW t \in Tasks,
           state[t] # "waiting_rollback_confirmation" \/ expected'[t] # expected[t],
           state'[t] = "waiting_rollback_confirmation" \/ expected'[t] # expected[t]
    PROVE  /\ wpc = "guard" /\ t = wtask
           /\ state'[t] = "waiting_rollback_confirmation"
<1>0. /\ TypeOK /\ TableType /\ CreatedInv /\ WorkerInv /\ VerdictInv
      /\ state \in [Tasks -> States] /\ expected \in [Tasks -> Tasks \cup {NoTask}]
  BY DEF IInv, TypeOK, TableType
<1>1. CASE UNCHANGED table
  BY <1>1
<1>2. CASE Maintained /\ UNCHANGED history
  BY <1>2 DEF Maintained, RunMaintenance, InState
<1>3. CASE InsertPreview
  BY <1>0, <1>3, InsertEffect DEF InsertPreview
<1>4. CASE ConfirmTask
  BY <1>0, <1>4 DEF ConfirmTask, Refuse, Unconfirmed
<1>5. CASE CancelTask
  BY <1>0, <1>5, CancelEffect DEF CancelTask, Refuse
<1>6. CASE \E u \in Tasks : ClaimNext(u)
  BY <1>0, <1>6 DEF ClaimNext
<1>7. CASE \E th \in Threads : FinishWaitingRollback(th)
  <2>1. UNCHANGED expected
    BY <1>7 DEF FinishWaitingRollback
  <2> QED  BY <1>0, <1>7, <2>1, FinishEffect
<1>8. CASE WaitForRollbackConfirmation
  BY <1>0, <1>8 DEF WaitForRollbackConfirmation, WorkerInv, BusySteps
<1>9. CASE FinishTask
  BY <1>0, <1>9 DEF FinishTask, WorkerInv, BusySteps, EndStates
<1> QED  BY <1>1, <1>2, <1>3, <1>4, <1>5, <1>6, <1>7, <1>8, <1>9, TableCases

(* Only tasks of a family with a window are written as waiting. *)
LEMMA ExpectedStep ==
    ASSUME IInv, ExpectedInv, [Next]_vars
    PROVE  ExpectedInv'
<1>0. TypeOK /\ TableType /\ WorkerInv /\ action \in [Tasks -> AllActions]
  BY DEF IInv, TypeOK, TableType
<1>1. ASSUME NEW t \in Tasks, expected'[t] # NoTask
      PROVE  state'[t] \in Guarded
  <2>1. CASE expected'[t] # expected[t]
    BY <2>1, WaitCases DEF Guarded
  <2>2. CASE expected'[t] = expected[t]
    BY <1>1, <2>2, GuardedStays DEF ExpectedInv
  <2> QED  BY <2>1, <2>2
<1>2. ASSUME NEW t \in Tasks, state'[t] = "waiting_rollback_confirmation"
      PROVE  action'[t].family \in Families
  <2>1. CASE state[t] = "waiting_rollback_confirmation"
    <3>1. action[t].family \in Families
      BY <2>1 DEF ExpectedInv, InState
    <3>2. action'[t] = action[t]
      <4>1. CASE InsertPreview
        <5>1. PICK u \in Tasks : u = created + 1 /\ state[u] = "absent"
          BY <1>0, <4>1, InsertEffect DEF IInv
        <5>2. u # t
          BY <2>1, <5>1
        <5> QED  BY <1>0, <4>1, <5>1, <5>2 DEF InsertPreview, TableType
      <4> QED  BY <4>1, ActionStays
    <3> QED  BY <3>1, <3>2
  <2>2. CASE state[t] # "waiting_rollback_confirmation"
    <3>1. wpc = "guard" /\ t = wtask
      BY <1>2, <2>2, WaitCases
    <3> QED  BY <3>1, HeldRow DEF ExpectedInv, BusySteps
  <2> QED  BY <2>1, <2>2
<1>3. ASSUME wpc' = "guard"
      PROVE  action'[wtask'].family \in Families
  <2>1. CASE UNCHANGED <<wpc, wtask>>
    BY <1>3, <2>1, HeldRow DEF ExpectedInv, BusySteps
  <2>2. CASE ExecuteApply
    <3>1. wpc = "execute" /\ wtask' = wtask /\ action[wtask].op = "apply"
      BY <2>2 DEF ExecuteApply, Executing, AfterApply, ThenFinish, ThenGuard, ThenRecover
    <3>2. wtask \in Tasks /\ action'[wtask] = action[wtask]
      BY <3>1, HeldRow DEF BusySteps
    <3> QED  BY <1>0, <3>1, <3>2, WindowFamilies
  <2>3. CASE RecoverExecution
    <3>1. wpc = "recover" /\ wtask' = wtask /\ SupportsRollback(action[wtask])
      BY <1>3, <2>3 DEF RecoverExecution, ThenFinish, ThenGuard
    <3>2. wtask \in Tasks /\ action'[wtask] = action[wtask]
      BY <3>1, HeldRow DEF BusySteps
    <3> QED  BY <1>0, <3>1, <3>2, WindowFamilies
  <2>4. CASE \E t \in Tasks : RecoverRunningTask(t)
    <3>1. PICK t \in Tasks : wtask' = t /\ ShowsWindow(action[t]) /\ UNCHANGED table
      BY <1>3, <2>4 DEF RecoverRunningTask
    <3> QED  BY <1>0, <3>1, WindowFamilies
  <2> QED  BY <1>3, <2>1, <2>2, <2>3, <2>4, GuardCases
<1> QED  BY <1>1, <1>2, <1>3 DEF ExpectedInv, InState

(* What a thread knows of a row changes only when it reads or writes one. *)
LEMMA ReadingCases ==
    ASSUME [Next]_vars
    PROVE  \/ UNCHANGED <<reading, verdict>>
           \/ \E th \in Threads, t \in Tasks : ReconcileInspect(th, t)
           \/ \E th \in Threads : FinishWaitingRollback(th)
           \/ Crash
<1>1. CASE Server
  BY <1>1 DEF Server, Prepare, InsertPreview, StartDecision, ConfirmTask, CancelTask,
              Refuse, StartGet, StartList, EndRequest
<1>2. CASE Worker
  <2>1. CASE ExecuteChange \/ ExecuteApply \/ ExecuteClose
    BY <2>1 DEF ExecuteChange, ExecuteApply, ExecuteClose, Executing
  <2> QED
    BY <1>2, <2>1 DEF Worker, WorkerWake, NothingToClaim, ClaimNext,
       InspectBeforeExecution, RecoverExecution, WaitForRollbackConfirmation, FinishTask
<1>3. CASE Reconcile
  BY <1>3 DEF Reconcile, ReconcileSkip
<1>4. CASE AgentProcess \/ Discarding \/ Environment \/ UNCHANGED vars
  BY <1>4 DEF AgentProcess, Restart, ServeRequests, RecoverRunningTask,
              Discarding, DiscardUpload, Environment, LoseAnswer, WithdrawUpload,
              AutomaticRollback, MeddleOpen, MeddleClose, MeddleHost, Meddle
<1> QED  BY <1>1, <1>2, <1>3, <1>4 DEF Next

(* An end that is true stays true. *)
LEMMA TrueEndStays ==
    ASSUME IInv, WindowInv, FreshInv, [Next]_vars,
           NEW s, NEW w \in Tasks, TrueEnd(s, w)
    PROVE  TrueEnd(s, w)'
<1>1. fate[w] \in ClosedFates
  BY DEF TrueEnd, ClosedFates, Outcomes
<1>2. fate'[w] = fate[w]
  BY <1>1, FateStays
<1> QED  BY <1>2 DEF TrueEnd

(* What inspect_task_action shows of a closed window with the number of the *)
(* row is how that window ended.                                            *)
LEMMA ReadStep ==
    ASSUME IInv, WindowInv, FreshInv, ExpectedInv, ReadInv, [Next]_vars
    PROVE  ReadInv'
<1>0. /\ expected \in [Tasks -> Tasks \cup {NoTask}] /\ action \in [Tasks -> AllActions]
      /\ reading \in [Threads -> Tasks \cup {NoTask}]
      /\ verdict \in [Threads -> TerminalStates \cup {""}]
      /\ window \in [Families -> Windows]
  BY DEF IInv, TypeOK, TableType, ProcessType, HostType
<1> DEFINE Known(th, t) ==
        /\ state[t] \in Guarded
        /\ expected[t] # NoTask => TrueEnd(verdict[th], expected[t])
<1>1. ASSUME NEW th \in Threads, reading[th] # NoTask, UNCHANGED <<reading[th], verdict[th]>>
      PROVE  Known(th, reading[th])'
  <2>1. PICK t \in Tasks : t = reading[th]
    BY <1>0, <1>1
  <2>2. state'[t] \in Guarded /\ expected'[t] = expected[t]
    BY <1>1, <2>1, GuardedStays DEF ReadInv
  <2>3. expected[t] # NoTask => TrueEnd(verdict[th], expected[t])'
    <3>1. SUFFICES ASSUME expected[t] # NoTask
                   PROVE  TrueEnd(verdict[th], expected[t])'
      OBVIOUS
    <3>2. PICK w \in Tasks : w = expected[t]
      BY <1>0, <3>1
    <3>3. TrueEnd(verdict[th], w)
      BY <1>1, <2>1, <3>1, <3>2 DEF ReadInv
    <3>4. TrueEnd(verdict[th], w)'
      BY <3>3, TrueEndStays, <1>1 DEF TrueEnd
    <3> QED  BY <2>2, <3>2, <3>4
  <2> QED  BY <1>1, <2>1, <2>2, <2>3
<1>2. ASSUME NEW th \in Threads, NEW t \in Tasks, ReconcileInspect(th, t)
      PROVE  ReadInv'
  <2>1. /\ state[t] = "waiting_rollback_confirmation"
        /\ UNCHANGED <<table, fate>>
        /\ reading' = [reading EXCEPT ![th] = t]
        /\ verdict' = [verdict EXCEPT ![th] = OutcomeState(action[t].family)]
    BY <1>2 DEF ReconcileInspect, SettledElsewhere
  <2>2. ASSUME expected[t] # NoTask
        PROVE  TrueEnd(OutcomeState(action[t].family), expected[t])
    <3>1. PICK f \in Families : f = action[t].family
      BY <2>1 DEF ExpectedInv, InState
    <3>2. Reported(f).mark = expected[t] /\ Reported(f).state # "pending"
      BY <1>2, <2>2, <3>1 DEF ReconcileInspect, SettledElsewhere
    <3>3. ReportsOutcome(f)
      BY <2>2, <3>2, WindowFamilies DEF Reported, NoTask
    <3>4. /\ Reported(f).mark = window[f].id /\ Reported(f).state = window[f].state
          /\ Reported(f).outcome = window[f].outcome
      BY <3>3, WindowFamilies DEF Reported
    <3>5. window[f].id = expected[t] /\ window[f].state # "pending"
      BY <3>2, <3>4
    <3>6. window[f].outcome \in ClosedFates /\ fate[expected[t]] = window[f].outcome
      BY <2>2, <3>5 DEF WindowInv
    <3>7. fate[expected[t]] \in {"confirmed", "rolled_back", "automatic_rollback"}
      BY <3>6, WindowFamilies
    <3>8. OutcomeState(f) = IF fate[expected[t]] = "confirmed"
                            THEN "confirmed" ELSE "rolled_back"
      BY <3>4, <3>6, <3>7 DEF OutcomeState
    <3> QED  BY <3>1, <3>7, <3>8 DEF TrueEnd
  <2>3. ASSUME NEW u \in Threads, reading'[u] # NoTask
        PROVE  Known(u, reading[u])'
    <3>1. CASE u = th
      <4>1. reading'[u] = t /\ verdict'[u] = OutcomeState(action[t].family)
        BY <1>0, <2>1, <3>1
      <4> QED  BY <2>1, <2>2, <4>1 DEF TrueEnd, Guarded
    <3>2. CASE u # th
      <4>1. UNCHANGED <<reading[u], verdict[u]>>
        BY <1>0, <2>1, <3>2
      <4> QED  BY <1>1, <2>3, <4>1
    <3> QED  BY <3>1, <3>2
  <2> QED  BY <2>3 DEF ReadInv
<1>3. ASSUME NEW th \in Threads, FinishWaitingRollback(th)
      PROVE  ReadInv'
  <2>1. ASSUME NEW u \in Threads, reading'[u] # NoTask
        PROVE  Known(u, reading[u])'
    <3>1. reading[u] # NoTask /\ UNCHANGED <<reading[u], verdict[u]>>
      BY <1>0, <1>3, <2>1 DEF FinishWaitingRollback
    <3> QED  BY <1>1, <3>1
  <2> QED  BY <2>1 DEF ReadInv
<1>4. CASE Crash
  BY <1>4 DEF Crash, ReadInv
<1>5. CASE UNCHANGED <<reading, verdict>>
  BY <1>1, <1>5 DEF ReadInv
<1> QED  BY <1>2, <1>3, <1>4, <1>5, ReadingCases

(* Only a reconciliation ends a row that waits. *)
LEMMA EndCases ==
    ASSUME IInv, [Next]_vars, NEW t \in Tasks,
           state[t] = "waiting_rollback_confirmation", state'[t] # state[t]
    PROVE  \E th \in Threads : /\ reading[th] = t /\ state'[t] = verdict[th]
                               /\ UNCHANGED <<expected, fate>>
<1>0. /\ TypeOK /\ TableType /\ CreatedInv /\ WorkerInv /\ VerdictInv
      /\ state \in [Tasks -> States]
  BY DEF IInv, TypeOK, TableType
<1>1. CASE UNCHANGED table
  BY <1>1
<1>2. CASE Maintained /\ UNCHANGED history
  BY <1>2 DEF Maintained, RunMaintenance, InState
<1>3. CASE InsertPreview
  BY <1>0, <1>3, InsertEffect
<1>4. CASE ConfirmTask
  BY <1>0, <1>4 DEF ConfirmTask, Refuse, Unconfirmed
<1>5. CASE CancelTask
  BY <1>0, <1>5, CancelEffect
<1>6. CASE \E u \in Tasks : ClaimNext(u)
  BY <1>0, <1>6 DEF ClaimNext, FirstInLine, Claimable, InState
<1>7. CASE \E th \in Threads : FinishWaitingRollback(th)
  BY <1>0, <1>7 DEF FinishWaitingRollback
<1>8. CASE WaitForRollbackConfirmation \/ FinishTask
  BY <1>0, <1>8 DEF WaitForRollbackConfirmation, FinishTask, WorkerInv, BusySteps
<1> QED  BY <1>1, <1>2, <1>3, <1>4, <1>5, <1>6, <1>7, <1>8, TableCases

(* A row that waited ends as a thread read it, and the reading is true. *)
LEMMA EndStep ==
    ASSUME IInv, WindowInv, FreshInv, ExpectedInv, ReadInv, EndInv, [Next]_vars
    PROVE  EndInv'
<1>0. expected \in [Tasks -> Tasks \cup {NoTask}]
  BY DEF IInv, TypeOK, TableType
<1>1. SUFFICES ASSUME NEW t \in Tasks, expected'[t] # NoTask, state'[t] \in TerminalStates
               PROVE  TrueEnd(state[t], expected[t])'
  BY DEF EndInv
<1>2. expected'[t] = expected[t]
  BY <1>1, WaitCases DEF TerminalStates
<1>3. PICK w \in Tasks : w = expected[t]
  BY <1>0, <1>1, <1>2
<1>4. CASE state[t] \in TerminalStates
  <2>1. state'[t] = state[t]
    BY <1>4, FinalStep
  <2>2. TrueEnd(state[t], w)
    BY <1>1, <1>2, <1>3, <1>4 DEF EndInv
  <2>3. fate[w] \in ClosedFates
    BY <2>2 DEF TrueEnd, ClosedFates, Outcomes
  <2>4. fate'[w] = fate[w]
    BY <2>3, FateStays
  <2> QED  BY <1>2, <1>3, <2>1, <2>2, <2>4 DEF TrueEnd
<1>5. CASE state[t] \notin TerminalStates
  <2>1. state[t] = "waiting_rollback_confirmation"
    BY <1>1, <1>2, <1>5 DEF ExpectedInv, Guarded
  <2>2. PICK th \in Threads : /\ reading[th] = t /\ state'[t] = verdict[th]
                              /\ UNCHANGED <<expected, fate>>
    BY <1>1, <1>5, <2>1, EndCases
  <2>3. TrueEnd(verdict[th], w)
    BY <1>1, <1>2, <1>3, <2>2, TasksFact DEF ReadInv
  <2> QED  BY <1>3, <2>2, <2>3 DEF TrueEnd
<1> QED  BY <1>4, <1>5

-----------------------------------------------------------------------------
(* Which window a task closes.                                             *)

(* A request shows a window only after prepare_task_action read it. *)
LEMMA RequestCases ==
    ASSUME [Next]_vars
    PROVE  \/ UNCHANGED request
           \/ request'.action.family = Host
           \/ \E f : /\ request'.action.family = f
                     /\ request'.digest = Reported(f) /\ request'.target = CurrentWindow(f)
<1>0. /\ NoRequest.action.family = Host
      /\ \A t : [NoRequest EXCEPT !.task = t].action.family = Host
      /\ \A t, a : [NoRequest EXCEPT !.task = t, !.actor = a].action.family = Host
      /\ \A t, u : [NoRequest EXCEPT !.task = t, !.upload = u].action.family = Host
  BY DEF NoRequest
<1>1. CASE Server
  <2>1. ASSUME NEW a \in Actors, NEW act \in Actions, Prepare(a, act)
        PROVE  /\ request'.action.family = act.family
               /\ request'.digest = Reported(act.family)
               /\ request'.target = CurrentWindow(act.family)
    BY <2>1 DEF Prepare
  <2>2. CASE InsertPreview
    BY <1>0, <2>2, Zenon DEF InsertPreview
  <2>3. ASSUME NEW t \in Tasks, NEW a \in Actors, NEW d \in {"confirm", "cancel"},
               StartDecision(t, a, d)
        PROVE  request'.action.family = Host
    BY <1>0, <2>3, Zenon DEF StartDecision
  <2>4. CASE ConfirmTask \/ CancelTask
    BY <1>0, <2>4, Zenon DEF ConfirmTask, CancelTask, Refuse
  <2>5. CASE (\E t \in Tasks : StartGet(t)) \/ StartList \/ EndRequest
    BY <1>0, <2>5 DEF StartGet, StartList, EndRequest
  <2> QED
    BY <1>1, <2>1, <2>2, <2>3, <2>4, <2>5 DEF Server
<1>2. CASE Worker
  <2>1. CASE ExecuteChange \/ ExecuteApply \/ ExecuteClose
    BY <2>1 DEF ExecuteChange, ExecuteApply, ExecuteClose, Executing
  <2> QED
    BY <1>2, <2>1 DEF Worker, WorkerWake, NothingToClaim, ClaimNext,
       InspectBeforeExecution, RecoverExecution, WaitForRollbackConfirmation, FinishTask
<1>3. CASE Reconcile \/ AgentProcess \/ Discarding \/ Environment \/ UNCHANGED vars
  BY <1>0, <1>3 DEF Reconcile, ReconcileInspect, ReconcileSkip, FinishWaitingRollback,
              AgentProcess, Crash, Restart, ServeRequests, RecoverRunningTask,
              Discarding, DiscardUpload, Environment, LoseAnswer, WithdrawUpload,
              AutomaticRollback, MeddleOpen, MeddleClose, MeddleHost, Meddle
<1> QED  BY <1>1, <1>2, <1>3 DEF Next

(* The worker goes on to execute only after the inspection of its row. *)
LEMMA ExecuteCases ==
    ASSUME [Next]_vars, wpc' = "execute"
    PROVE  UNCHANGED <<wpc, wtask>> \/ InspectBeforeExecution
<1>1. CASE Worker
  <2>1. CASE ExecuteChange \/ ExecuteApply \/ ExecuteClose
    BY <2>1 DEF ExecuteChange, ExecuteApply, ExecuteClose, AfterApply, ThenFinish,
       ThenGuard, ThenRecover
  <2> QED
    BY <1>1, <2>1 DEF Worker, WorkerWake, NothingToClaim, ClaimNext, RecoverExecution,
       ThenFinish, ThenGuard, WaitForRollbackConfirmation, FinishTask
<1>2. CASE Server
  BY <1>2 DEF Server, Prepare, InsertPreview, StartDecision, ConfirmTask, CancelTask,
              Refuse, StartGet, StartList, EndRequest
<1>3. CASE Reconcile \/ AgentProcess \/ Discarding \/ Environment \/ UNCHANGED vars
  BY <1>3 DEF Reconcile, ReconcileInspect, ReconcileSkip, FinishWaitingRollback,
              AgentProcess, Crash, Restart, ServeRequests, RecoverRunningTask,
              Discarding, DiscardUpload, Environment, LoseAnswer, WithdrawUpload,
              AutomaticRollback, MeddleOpen, MeddleClose, MeddleHost, Meddle
<1> QED  BY <1>1, <1>2, <1>3 DEF Next

(* What the preview, the row and the inspection before the execution say of *)
(* a window that names itself is its number, and nothing but a task of the  *)
(* engine opens another one.                                                *)
LEMMA PreviewStep ==
    ASSUME IInv, PreviewInv, [Next]_vars
    PROVE  PreviewInv'
<1>0. /\ TypeOK /\ TableType /\ CreatedInv /\ window \in [Families -> Windows]
      /\ action \in [Tasks -> AllActions] /\ digest \in [Tasks -> Digests]
      /\ target \in [Tasks -> Tasks \cup {NoTask}]
  BY DEF IInv, TypeOK, TableType, HostType, HistoryType
<1>1. ASSUME NEW f, ReportsOutcome(f)
      PROVE  /\ f \in Families /\ f # Host
             /\ Reported(f).mark = window[f].id /\ CurrentWindow(f) = window[f].id
  BY <1>1 DEF ReportsOutcome, Reported, CurrentWindow, Host, Families, SecurityFamilies
<1>2. ASSUME ReportsOutcome(request'.action.family)
      PROVE  request'.digest.mark = request'.target
  BY <1>1, <1>2, RequestCases DEF PreviewInv
<1>3. ASSUME NEW t \in Tasks, ReportsOutcome(action'[t].family)
      PROVE  digest'[t].mark = target'[t]
  <2>1. CASE InsertPreview
    <3>1. PICK u \in Tasks : u = created + 1 /\ state[u] = "absent"
      BY <1>0, <2>1, InsertEffect
    <3>2. CASE t = u
      <4>1. /\ action'[t] = request.action /\ digest'[t] = request.digest
            /\ target'[t] = request.target
        BY <1>0, <2>1, <3>1, <3>2 DEF InsertPreview
      <4> QED  BY <1>3, <4>1 DEF PreviewInv
    <3>3. CASE t # u
      BY <1>0, <1>3, <2>1, <3>1, <3>3 DEF InsertPreview, PreviewInv
    <3> QED  BY <3>2, <3>3
  <2>2. CASE ~InsertPreview
    BY <1>3, <2>2, ActionStays DEF PreviewInv
  <2> QED  BY <2>1, <2>2
<1>4. ASSUME NEW f, f = action'[wtask'].family, wpc' = "execute", ReportsOutcome(f),
             window'[f].state = "pending"
      PROVE  window'[f].id = target'[wtask']
  <2>1. CASE InspectBeforeExecution
    <3>1. wtask' = wtask /\ Reported(action[wtask].family) = digest[wtask]
          /\ UNCHANGED <<table, window, target>>
      BY <1>4, <2>1 DEF InspectBeforeExecution, ThenFinish, ThenRecover
    <3>2. wtask \in Tasks
      BY <2>1 DEF InspectBeforeExecution, IInv, WorkerInv, BusySteps
    <3>3. f = action[wtask].family /\ Reported(f) = digest[wtask]
      BY <1>4, <3>1
    <3>4. digest[wtask].mark = target[wtask]
      BY <1>4, <3>2, <3>3 DEF PreviewInv
    <3> QED  BY <1>1, <1>4, <3>1, <3>3, <3>4
  <2>2. CASE UNCHANGED <<wpc, wtask>>
    <3>1. wpc = "execute" /\ wtask' = wtask
      BY <1>4, <2>2
    <3>2. f = action[wtask].family /\ target'[wtask'] = target[wtask]
      BY <1>4, <3>1, HeldRow DEF BusySteps
    <3>3. window'[f] = window[f]
      <4>1. ASSUME NEW g \in Families, Closes(g)
            PROVE  window'[f] = window[f]
        <5>1. g # f
          BY <1>0, <1>1, <1>4, <4>1 DEF Closes, Close, Windows
        <5> QED  BY <1>0, <1>1, <1>4, <4>1, <5>1 DEF Closes, Close
      <4>2. ASSUME NEW g \in Families, OpensByHand(g)
            PROVE  window'[f] = window[f]
        BY <1>0, <1>1, <1>4, <4>2 DEF OpensByHand, Open
      <4> QED  BY <1>4, <4>1, <4>2, WindowMoves DEF Applies
    <3> QED  BY <1>4, <3>1, <3>2, <3>3 DEF PreviewInv
  <2> QED  BY <1>4, <2>1, <2>2, ExecuteCases
<1> QED  BY <1>2, <1>3, <1>4 DEF PreviewInv

(* Nothing has happened yet. *)
LEMMA InitTruth == Init => TruthInv
<1> SUFFICES ASSUME Init PROVE TruthInv
  OBVIOUS
<1>1. ~ReportsOutcome(Host) /\ NoRequest.action.family = Host
  BY DEF ReportsOutcome, Host, NoRequest
<1>2. WindowInv /\ FreshInv
  BY DEF Init, WindowInv, FreshInv
<1>3. ExpectedInv /\ ReadInv /\ EndInv
  BY DEF Init, ExpectedInv, ReadInv, EndInv, InState
<1>4. PreviewInv
  BY <1>1 DEF Init, PreviewInv
<1> QED  BY <1>2, <1>3, <1>4 DEF TruthInv

(* TruthInv is an invariant, next to the one of the engine. *)
LEMMA TruthInvariance == Spec => []TruthInv
<1>1. IInv /\ TruthInv /\ [Next]_vars => TruthInv'
  BY WindowTruthStep, FreshStep, ExpectedStep, ReadStep, EndStep, PreviewStep DEF TruthInv
<1> QED  BY <1>1, InitTruth, Invariance, PTL DEF Spec

(* The end of a task that waited for the window whose number its row holds   *)
(* is how that window ended: no thread settles a row by another window, by a *)
(* window that is still open, or by an outcome that was overtaken.           *)
THEOREM GuardedOutcomes == Spec => []GuardedOutcomeIsTrue
<1>1. IInv /\ TruthInv => GuardedOutcomeIsTrue
  <2> SUFFICES ASSUME IInv, TruthInv PROVE GuardedOutcomeIsTrue
    OBVIOUS
  <2>1. EndInv
    BY DEF TruthInv
  <2> QED  BY <2>1 DEF EndInv, TrueEnd, GuardedOutcomeIsTrue
<1> QED  BY <1>1, Invariance, TruthInvariance, PTL

(* A task is executed by one of three steps. *)
LEMMA ExecutingCases ==
    ASSUME [Next]_vars, execs' # execs
    PROVE  ExecuteChange \/ ExecuteApply \/ ExecuteClose
<1>1. CASE Worker
  BY <1>1 DEF Worker, WorkerWake, NothingToClaim, ClaimNext, InspectBeforeExecution,
     RecoverExecution, WaitForRollbackConfirmation, FinishTask
<1>2. CASE Server
  BY <1>2 DEF Server, Prepare, InsertPreview, StartDecision, ConfirmTask, CancelTask,
              Refuse, StartGet, StartList, EndRequest
<1>3. CASE Reconcile \/ AgentProcess \/ Discarding \/ Environment \/ UNCHANGED vars
  BY <1>3 DEF Reconcile, ReconcileInspect, ReconcileSkip, FinishWaitingRollback,
              AgentProcess, Crash, Restart, ServeRequests, RecoverRunningTask,
              Discarding, DiscardUpload, Environment, LoseAnswer, WithdrawUpload,
              AutomaticRollback, MeddleOpen, MeddleClose, MeddleHost, Meddle
<1> QED  BY <1>1, <1>2, <1>3 DEF Next

(* The worker closes a window only as a task that names it asks. *)
LEMMA CloseStep ==
    ASSUME IInv, TruthInv, [Next]_vars, NEW t \in Tasks,
           ClosedByWorker(t), ReportsOutcome(action[wtask].family)
    PROVE  target[wtask] = t
<1>0. /\ WorkerInv /\ OnceInv /\ action \in [Tasks -> AllActions]
      /\ fate \in [Tasks -> Fates]
  BY DEF IInv, TypeOK, TableType, HistoryType
<1>1. wpc = "execute" /\ execs' # execs /\ fate[t] = "open" /\ fate'[t] # "open"
  BY DEF ClosedByWorker
<1>2. wtask \in Tasks /\ fate[wtask] = "unopened"
  BY <1>0, <1>1 DEF WorkerInv, BusySteps, OnceInv, TruthInv, FreshInv
<1>3. t # wtask
  BY <1>1, <1>2
<1>4. PICK f \in Families : Applies(f) \/ Closes(f)
  BY <1>1, WindowMoves
<1>5. ~Applies(f)
  BY <1>0, <1>1, <1>3 DEF Applies
<1>6. ExecuteClose
  <2>1. ExecuteChange \/ ExecuteApply \/ ExecuteClose
    BY <1>1, ExecutingCases
  <2>2. CASE ExecuteChange
    BY <1>1, <2>2 DEF ExecuteChange
  <2>3. CASE ExecuteApply
    BY <1>0, <1>1, <1>3, <2>3 DEF ExecuteApply
  <2> QED  BY <2>1, <2>2, <2>3
<1>7. /\ window[action[wtask].family].state = "pending"
      /\ t = window[action[wtask].family].id
  BY <1>1, <1>6 DEF ExecuteClose, Close
<1> QED  BY <1>1, <1>7 DEF TruthInv, PreviewInv

(* No confirmation or rollback closes a window that opened after its         *)
(* preview, whoever opened or closed windows between the preview, the        *)
(* inspection and the execution.                                             *)
THEOREM PreviewedWindows == Spec => ClosesPreviewedWindow
<1>1. IInv /\ TruthInv /\ [Next]_vars =>
        [\A t \in Tasks :
            ClosedByWorker(t) /\ ReportsOutcome(action[wtask].family) =>
                target[wtask] = t]_vars
  BY CloseStep
<1> QED  BY <1>1, Invariance, TruthInvariance, PTL DEF Spec, ClosesPreviewedWindow
=============================================================================
