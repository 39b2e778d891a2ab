----------------------- MODULE PublicEndpointProofs ------------------------
(***************************************************************************)
(* The public endpoint transaction is safe for any number of windows,      *)
(* killed scripts, reboots, failed steps and moves of the host's address.  *)
(*                                                                         *)
(* The properties are not inductive: that a change is guarded rests on     *)
(* what the script that holds the lock has already done, and that a change *)
(* never ends half restored on what the recheck has seen.                  *)
(***************************************************************************)
EXTENDS PublicEndpointTransaction, TLAPS

Published == Names \cup Addresses

(* What a set of artifacts may hold. *)
Proper(f) ==
    /\ f \in [Artifacts -> Contents]
    /\ f["fact"] \in Names \cup {NoName}
    /\ \A a \in Artifacts \ {"fact"} : f[a] \in Published \cup {Missing}

OpeningSteps == {"clear", "backup", "open"}

RewriteSteps == {"certify", "withdraw", "publish", "readdress", "refile"}

RestoreSteps == {"fact", "file_config", "certificate", "payload", "clash_config"}

(* The steps that are taken inside an open window only. *)
PendingSteps ==
    {"arm", "discard", "set", "audit", "reaudit", "displace", "restart",
     "recheck", "commit"}
      \cup RewriteSteps \cup RestoreSteps

(* Backups, and what a script carries, are addresses where they are used. *)
ContentInv ==
    /\ Proper(live)
    /\ dir.phase # "none" \/ dir.intact => Proper(dir.backup)
    /\ script.step \in RewriteSteps \cup {"reaudit"} => Proper(script.saved)
    /\ script.step \in RewriteSteps => script.address \in Published
    /\ script.step \in OpeningSteps \cup {"arm", "set"} =>
          script.address \in Names \cup {NoName}

(* What the script that holds the lock knows of the transaction. *)
LockInv ==
    /\ script.step \in OpeningSteps \cup {"stop"} => dir.phase = "none"
    /\ script.step = "open" => dir.intact
    /\ script.step \in PendingSteps => dir.phase = "pending"
    /\ script.step \in {"outcome", "remove"} => dir.phase # "none"
    /\ script.step \in OpeningSteps \cup {"arm", "set"} => script.op = "apply"
    /\ script.op = "automatic" => script.mode = "strict"

UsedWindows == MaxWindows - bounds.windows

(* Windows are numbered as they are opened; a window whose change has begun *)
(* has its own timer, unless a reboot has forgotten it.                     *)
TimerInv ==
    /\ bounds.windows <= MaxWindows
    /\ dir.id <= UsedWindows /\ changed <= UsedWindows /\ rebooted <= UsedWindows
    /\ script.step \in OpeningSteps => changed < UsedWindows /\ rebooted < UsedWindows
    /\ script.step \in {"arm", "set"} => rebooted # dir.id
    /\ script.step \in {"arm", "set", "discard"} => changed # dir.id
    /\ script.step = "set" => unit.state # "none" /\ unit.id = dir.id
    /\ OpenChange => IF rebooted = dir.id THEN unit.state = "none"
                     ELSE unit.state # "none" /\ unit.id = dir.id

(* Only an expired window is ended by the timer, a status or a late         *)
(* confirmation.                                                            *)
ExpiryInv ==
    /\ unit.state = "started" /\ (OpenChange \/ script.step = "set") => dir.expired
    /\ OpenChange /\ script.op \in {"automatic", "status"} => dir.expired
    /\ OpenChange /\ script.op = "confirm" => script.step = "commit" \/ dir.expired

RestoredState ==
    \/ live = dir.backup
    \/ /\ live["fact"] = dir.backup["fact"]
       /\ \E c \in Published : \A a \in Artifacts \ {"fact"} : live[a] = c

(* What is recorded as undone is restored. *)
RestoredInv ==
    script.step \in {"outcome", "remove"} /\ dir.phase = "pending" => RestoredState

IInv ==
    /\ TypeOK /\ ContentInv /\ LockInv /\ TimerInv /\ ExpiryInv /\ RestoredInv
-----------------------------------------------------------------------------
(* Types.                                                                  *)

(* The steps, and how a reconciliation and a restore go on. *)
LEMMA StepNames ==
    /\ Steps = {"", "restore", "outcome", "remove", "stop"}
                  \cup OpeningSteps \cup PendingSteps
    /\ DOMAIN Rewritten = RewriteSteps /\ DOMAIN AfterRestoring = RestoreSteps
    /\ \A s \in RewriteSteps :
          /\ AfterRewriting[s] \in RewriteSteps \cup {"reaudit"}
          /\ Rewritten[s] \in Publication \cup {"payload"}
    /\ \A s \in RestoreSteps :
          AfterRestoring[s] \in RestoreSteps \cup {"displace", "restart"}
BY DEF Steps, OpeningSteps, PendingSteps, RewriteSteps, RestoreSteps, Rewritten,
       AfterRewriting, AfterRestoring, Publication

(* A script that has ended has its type. *)
LEMMA IdleType == Idle \in Scripts
BY StepNames DEF Scripts, Idle, Ops, Modes, Contents

(* A script that goes on keeps its type. *)
LEMMA GoType ==
    ASSUME script \in Scripts, NEW s \in Steps, Go(s)
    PROVE  script' \in Scripts
BY DEF Go, Scripts

(* So does one that turns to a restore, *)
LEMMA RestoreType ==
    ASSUME script \in Scripts, Restore("strict")
    PROVE  script' \in Scripts
BY StepNames DEF Restore, Scripts, Modes

(* one that begins to reconcile, *)
LEMMA ReconcileType ==
    ASSUME script \in Scripts, NEW f \in [Artifacts -> Contents], NEW x \in Contents,
           script' = [script EXCEPT !.step = "certify", !.saved = f, !.address = x]
    PROVE  script' \in Scripts
BY StepNames DEF Scripts, PendingSteps, RewriteSteps

(* and one that starts. *)
LEMMA StartType ==
    ASSUME NEW o \in Ops, NEW s \in Steps, NEW m \in Modes, Start(o, s, m)
    PROVE  script' \in Scripts
BY IdleType DEF Start, Scripts

(* Opening, deciding and taking apart a transaction keeps its type. *)
LEMMA DirTypes ==
    /\ NoDir \in Dirs
    /\ \A f \in [Artifacts -> Contents] :
          [NoDir EXCEPT !.backup = f, !.intact = TRUE] \in Dirs
    /\ \A d \in Dirs, n \in 0..MaxWindows, s \in Sessions \cup {""} :
          [d EXCEPT !.phase = "pending", !.id = n, !.session = s] \in Dirs
    /\ \A d \in Dirs :
          /\ [d EXCEPT !.displaced = TRUE] \in Dirs
          /\ [d EXCEPT !.phase = "confirmed"] \in Dirs
          /\ [d EXCEPT !.intact = FALSE] \in Dirs
          /\ [d EXCEPT !.expired = TRUE] \in Dirs
<1>1. NoDir \in Dirs
  BY EndpointAssumption DEF Dirs, NoDir, Phases, Contents
<1> QED  BY <1>1 DEF Dirs, Phases

(* Bounds only go down. *)
LEMMA SpendTypes ==
    ASSUME bounds \in Bounds,
           NEW what \in {"windows", "crashes", "faults", "moves", "renewals"},
           Spend(what)
    PROVE  /\ bounds' \in Bounds
           /\ \A w \in {"windows", "crashes", "faults", "moves", "renewals"} :
                 bounds'[w] = IF w = what THEN bounds[w] - 1 ELSE bounds[w]
           /\ bounds[what] > 0
BY DEF Bounds, Spend

(* The steps end the script, go on, or turn to a restore. *)
LEMMA StepCases ==
    ASSUME TypeOK, Step
    PROVE  \/ script' \in {script, Idle}
           \/ \E s \in Steps : Go(s)
           \/ Restore("strict")
           \/ Audit
<1>1. {"backup", "open", "set", "arm", "discard", "audit", "fact", "displace", "payload",
       "restart", "recheck", "outcome", "remove", "stop"} \subseteq Steps
  BY StepNames DEF OpeningSteps, PendingSteps, RestoreSteps
<1>2. /\ \A s \in DOMAIN Rewritten : AfterRewriting[s] \in Steps
      /\ \A s \in DOMAIN AfterRestoring : AfterRestoring[s] \in Steps
  BY StepNames DEF PendingSteps
<1>3. CASE Clear \/ BackUp \/ OpenWindow \/ Arm
  BY <1>1, <1>3 DEF Clear, BackUp, OpenWindow, Arm, Fail, AfterOpening, AfterRefusal
<1>4. CASE SetFact \/ Displace \/ RestartServices
  BY <1>1, <1>4 DEF SetFact, Displace, RestartServices, Fail
<1>5. CASE Rewrite \/ RestoreArtifact
  BY <1>2, <1>5 DEF Rewrite, RestoreArtifact, ReconcileFailed
<1>6. CASE Reaudit \/ Recheck \/ StartRestore
  BY <1>1, <1>6
     DEF Reaudit, Recheck, StartRestore, Reconciled, ReconcileFailed, Succeed, Finished, Fail
<1>7. CASE Commit \/ WriteOutcome \/ Remove \/ StopTimer
  BY <1>1, <1>7 DEF Commit, WriteOutcome, Remove, StopTimer, Fail, Succeed, Finished
<1> QED  BY <1>3, <1>4, <1>5, <1>6, <1>7 DEF Step

(* Where the script may be after a step. *)
LEMMA ScriptStep ==
    ASSUME TypeOK, [Next]_vars
    PROVE  script' \in Scripts
<1>0. script \in Scripts
  BY DEF TypeOK
<1>1. CASE Step
  <2>1. CASE Audit
    <3>1. live \in [Artifacts -> Contents] /\ PublicAddress \in Contents
      BY DEF PublicAddress, Contents, Artifacts, TypeOK
    <3>2. "recheck" \in Steps
      BY StepNames DEF PendingSteps
    <3> QED
      BY <1>0, <2>1, <3>1, <3>2, IdleType, GoType, ReconcileType
         DEF Audit, Reconciled, Succeed
  <2> QED  BY <1>0, <1>1, <2>1, StepCases, IdleType, GoType, RestoreType
<1>2. ASSUME NEW s \in Sessions, NEW name \in Names \cup {NoName}, StartApply(s, name)
      PROVE  script' \in Scripts
  <2>1. "apply" \in Ops /\ "clear" \in Steps /\ name \in Contents
    BY StepNames DEF Ops, OpeningSteps, Contents
  <2> QED  BY <1>2, <2>1, IdleType DEF StartApply, Scripts
<1>3. CASE StartRollback \/ StartStatus \/ StartAutomatic \/ \E s \in Sessions : StartConfirm(s)
  <2>1. /\ {"rollback", "status", "automatic", "confirm"} \subseteq Ops
        /\ {"restore", "commit"} \subseteq Steps
        /\ {"forward", "strict", "lenient"} \subseteq Modes
    BY StepNames DEF Ops, PendingSteps, Modes
  <2> QED
    BY <1>3, <2>1, StartType DEF StartRollback, StartStatus, StartAutomatic, StartConfirm
<1>4. CASE script' \in {script, Idle}
  BY <1>0, <1>4, IdleType
<1> QED
  BY <1>1, <1>2, <1>3, <1>4
     DEF Next, Request, Environment, ReadStatus, vars, Expire, TimerElapses, Kill, Reboot,
         Renew, AddressChanges

(* How far the transaction directory may be after a step. *)
LEMMA DirStep ==
    ASSUME IInv, [Next]_vars
    PROVE  dir' \in Dirs
<1> USE DEF TypeOK, IInv
<1>1. CASE BackUp \/ Clear
  BY <1>1, DirTypes DEF BackUp, Clear
<1>2. CASE OpenWindow
  <2>1. MaxWindows - bounds.windows \in 0..MaxWindows
    BY EndpointAssumption DEF TimerInv, Bounds
  <2>2. script.session \in Sessions \cup {""}
    BY DEF Scripts
  <2> QED  BY <1>2, <2>1, <2>2, DirTypes DEF OpenWindow
<1>3. CASE Displace \/ Commit \/ Remove \/ Expire
  BY <1>3, DirTypes DEF Displace, Commit, Remove, Expire
<1>4. CASE UNCHANGED dir
  BY <1>4
<1> QED
  BY <1>1, <1>2, <1>3, <1>4
     DEF Next, Request, Step, Environment, ReadStatus, vars, StartConfirm, StartApply, Start,
         StartRollback, StartAutomatic, StartStatus, Arm, SetFact, Audit, Rewrite, Reaudit,
         StartRestore, RestoreArtifact, RestartServices, Recheck, WriteOutcome, StopTimer,
         TimerElapses, Kill, Reboot, Renew, AddressChanges

(* The units, the outcome, the host's address and the histories. *)
LEMMA OtherTypes ==
    ASSUME IInv, [Next]_vars
    PROVE  /\ unit' \in Units /\ outcome' \in Outcomes /\ address' \in Addresses
           /\ changed' \in 0..MaxWindows /\ rebooted' \in 0..MaxWindows
<1> USE DEF TypeOK, IInv
<1>1. dir.id \in 0..MaxWindows
  BY DEF Dirs
<1>2. [state |-> "none", id |-> 0] \in Units /\ NoOutcome \in Outcomes
  <2>1. 0 \in 0..MaxWindows
    BY EndpointAssumption
  <2> QED  BY <2>1 DEF Units, Outcomes, NoOutcome
<1>3. outcome' \in Outcomes
  <2>1. CASE Clear \/ WriteOutcome
    <3>1. How \in {"confirmed", "rolled_back", "automatic_rollback"}
      BY DEF How
    <3>2. [id |-> dir.id, how |-> How] \in Outcomes
      BY <1>1, <3>1 DEF Outcomes
    <3> QED  BY <1>2, <2>1, <3>2 DEF Clear, WriteOutcome
  <2>2. CASE UNCHANGED outcome
    BY <2>2
  <2> QED
    BY <2>1, <2>2
       DEF Next, Request, Step, Environment, ReadStatus, vars, StartConfirm, StartApply,
           Start, StartRollback, StartAutomatic, StartStatus, BackUp, OpenWindow, Arm, SetFact,
           Audit, Rewrite, Reaudit, StartRestore, RestoreArtifact, Displace, RestartServices,
           Recheck, Commit, Remove, StopTimer, Expire, TimerElapses, Kill, Reboot, Renew,
           AddressChanges
<1>4. unit' \in Units
  <2>1. CASE Arm \/ TimerElapses
    BY <1>1, <2>1 DEF Arm, TimerElapses, Units
  <2>2. CASE unit' \in {unit, [state |-> "none", id |-> 0]}
    BY <1>2, <2>2
  <2> QED
    BY <2>1, <2>2
       DEF Next, Request, Step, Environment, ReadStatus, vars, StartConfirm, StartApply,
           Start, StartRollback, StartAutomatic, StartStatus, Clear, BackUp, OpenWindow,
           SetFact, Audit, Rewrite, Reaudit, StartRestore, RestoreArtifact, Displace,
           RestartServices, Recheck, Commit, WriteOutcome, Remove, StopTimer, Expire, Kill,
           Reboot, Renew, AddressChanges, Fail, Succeed, Reconciled, ReconcileFailed, Finished
<1>5. /\ address' \in Addresses
      /\ changed' \in {changed, dir.id} /\ rebooted' \in {rebooted, dir.id}
  BY DEF Next, Request, Step, Environment, ReadStatus, vars, StartConfirm, StartApply,
         Start, StartRollback, StartAutomatic, StartStatus, Clear, BackUp, OpenWindow, Arm,
         SetFact, Audit, Rewrite, Reaudit, StartRestore, RestoreArtifact, Displace,
         RestartServices, Recheck, Commit, WriteOutcome, Remove, StopTimer, Expire,
         TimerElapses, Kill, Reboot, Renew, AddressChanges
<1> QED  BY <1>1, <1>3, <1>4, <1>5

(* A step spends at most one bound, and only an apply one of the windows. *)
LEMMA BoundsStep ==
    ASSUME IInv, [Next]_vars
    PROVE  /\ bounds' \in Bounds
           /\ bounds'.windows <= bounds.windows
           /\ bounds'.windows = bounds.windows
                \/ \E s \in Sessions, name \in Names \cup {NoName} : StartApply(s, name)
<1> USE DEF TypeOK, IInv
<1>1. bounds.windows \in Nat
  BY DEF Bounds
<1>2. ASSUME NEW s \in Sessions, NEW name \in Names \cup {NoName}, StartApply(s, name)
      PROVE  bounds' \in Bounds /\ bounds'.windows <= bounds.windows
  BY <1>1, <1>2, SpendTypes DEF StartApply
<1>3. ASSUME NEW what \in {"crashes", "faults", "moves", "renewals"}, Spend(what)
      PROVE  bounds' \in Bounds /\ bounds'.windows = bounds.windows
  BY <1>3, SpendTypes
<1>4. CASE UNCHANGED bounds
  BY <1>1, <1>4
<1> QED
  BY <1>1, <1>2, <1>3, <1>4
     DEF Next, Request, Step, Environment, ReadStatus, vars, StartConfirm,
         Start, StartRollback, StartAutomatic, StartStatus, Clear, BackUp, OpenWindow, Arm,
         SetFact, Audit, Rewrite, Reaudit, StartRestore, RestoreArtifact, Displace,
         RestartServices, Recheck, Commit, WriteOutcome, Remove, StopTimer, Expire,
         TimerElapses, Kill, Reboot, Renew, AddressChanges, Fault

-----------------------------------------------------------------------------
(* The invariant.                                                          *)

(* The address everything is published under is one. *)
LEMMA PublicAddressIsPublished ==
    ASSUME TypeOK, Proper(live)
    PROVE  PublicAddress \in Published /\ PublicAddress # NoName
BY EndpointAssumption DEF TypeOK, Proper, PublicAddress, Published

(* A proper state stays so where one artifact gets a proper content. *)
LEMMA ProperExcept ==
    ASSUME NEW f, Proper(f), NEW a \in Artifacts, NEW c \in Contents,
           a = "fact" => c \in Names \cup {NoName},
           a # "fact" => c \in Published \cup {Missing}
    PROVE  Proper([f EXCEPT ![a] = c])
BY DEF Proper, Artifacts, Publication

(* What is copied, rewritten or restored is proper. *)
LEMMA LiveStep ==
    ASSUME IInv, [Next]_vars
    PROVE  Proper(live')
<1> USE DEF IInv
<1>0. Proper(live)
  BY DEF ContentInv
<1>1. /\ Published \cup {Missing} \subseteq Contents
      /\ Names \cup {NoName} \subseteq Contents
      /\ "fact" \in Artifacts /\ "payload" \in Artifacts /\ "payload" # "fact"
      /\ \A s \in RestoreSteps : s \in Artifacts
      /\ \A s \in Publication \cup {"payload"} : s \in Artifacts /\ s # "fact"
  BY DEF Published, Contents, Artifacts, Publication, RestoreSteps
<1>2. CASE SetFact
  <2>1. script.address \in Names \cup {NoName}
    BY <1>2 DEF ContentInv, SetFact, At
  <2> QED  BY <1>0, <1>1, <1>2, <2>1, ProperExcept DEF SetFact
<1>3. ASSUME Proper(script.saved), ReconcileFailed
      PROVE  Proper(live')
  <2>1. live["fact"] \in Names \cup {NoName}
    BY <1>0 DEF Proper
  <2> QED  BY <1>1, <1>3, <2>1, ProperExcept DEF ReconcileFailed
<1>4. CASE Rewrite
  <2>1. /\ script.step \in RewriteSteps /\ script.address \in Published
        /\ Proper(script.saved)
        /\ Rewritten[script.step] \in Publication \cup {"payload"}
    BY <1>4, StepNames DEF ContentInv, Rewrite
  <2>2. CASE ReconcileFailed
    BY <1>3, <2>1, <2>2
  <2>3. CASE live' = [live EXCEPT ![Rewritten[script.step]] =
                         IF script.step = "withdraw" THEN Missing ELSE script.address]
    BY <1>0, <1>1, <2>1, <2>3, ProperExcept
  <2> QED  BY <1>4, <2>2, <2>3 DEF Rewrite
<1>5. CASE Reaudit
  BY <1>0, <1>3, <1>5 DEF Reaudit, ContentInv, At
<1>6. CASE RestoreArtifact
  <2>1. script.step \in RestoreSteps /\ Proper(dir.backup)
    BY <1>6, StepNames DEF RestoreArtifact, ContentInv, LockInv, PendingSteps
  <2>2. /\ dir.backup[script.step] \in Contents
        /\ script.step = "fact" => dir.backup[script.step] \in Names \cup {NoName}
        /\ script.step # "fact" => dir.backup[script.step] \in Published \cup {Missing}
    BY <1>1, <2>1 DEF Proper
  <2> QED  BY <1>0, <1>1, <1>6, <2>1, <2>2, ProperExcept DEF RestoreArtifact
<1>7. CASE Displace
  BY <1>0, <1>1, <1>7, ProperExcept DEF Displace
<1>8. CASE Renew
  BY <1>0, <1>1, <1>8, PublicAddressIsPublished DEF Renew, Renewed, Proper
<1>9. CASE UNCHANGED live
  BY <1>0, <1>9
<1> QED
  BY <1>2, <1>4, <1>5, <1>6, <1>7, <1>8, <1>9
     DEF Next, Request, Step, Environment, ReadStatus, vars, StartConfirm, StartApply, Start,
         StartRollback, StartAutomatic, StartStatus, Clear, BackUp, OpenWindow, Arm, Audit,
         StartRestore, RestartServices, Recheck, Commit, WriteOutcome, Remove, StopTimer,
         Expire, TimerElapses, Kill, Reboot, AddressChanges

(* Every variable keeps its type. *)
LEMMA TypeStep ==
    ASSUME IInv, [Next]_vars
    PROVE  TypeOK'
<1>1. live' \in [Artifacts -> Contents] /\ \A a \in Artifacts \ {"fact"} : live'[a] # NoName
  BY LiveStep, EndpointAssumption DEF Proper, Published, NoName, Missing
<1>2. TypeOK
  BY DEF IInv
<1> QED  BY <1>1, <1>2, DirStep, ScriptStep, OtherTypes, BoundsStep DEF TypeOK

(* A script that has ended holds no lock. *)
LEMMA IdleFields == Idle.step = "" /\ Idle.op = "none"
BY DEF Idle

(* A directory that was just made is no window yet. *)
LEMMA FreshDir ==
    /\ NoDir.phase = "none" /\ NoDir.id = 0
    /\ \A f \in [Artifacts -> Contents] :
          /\ [NoDir EXCEPT !.backup = f, !.intact = TRUE].phase = "none"
          /\ [NoDir EXCEPT !.backup = f, !.intact = TRUE].id = 0
<1>1. NoDir.phase = "none" /\ NoDir.id = 0
  BY DEF NoDir
<1>2. ASSUME NEW f \in [Artifacts -> Contents]
      PROVE  /\ [NoDir EXCEPT !.backup = f, !.intact = TRUE].phase = "none"
             /\ [NoDir EXCEPT !.backup = f, !.intact = TRUE].id = 0
  <2>1. NoDir \in Dirs
    BY DirTypes
  <2> QED  BY <1>1, <2>1 DEF Dirs
<1> QED  BY <1>1, <1>2

(* Only the script that holds the lock changes the phase, the number and    *)
(* the backups of the transaction.                                          *)
LEMMA DirFields ==
    ASSUME IInv, [Next]_vars
    PROVE  \/ UNCHANGED <<dir.phase, dir.id, dir.backup>>
           \/ Clear \/ BackUp \/ OpenWindow \/ Commit
           \/ Remove /\ dir' = NoDir
<1>1. dir \in Dirs
  BY DEF IInv, TypeOK
<1>2. CASE Displace \/ Expire
  BY <1>1, <1>2 DEF Displace, Expire, Dirs
<1>3. CASE Remove
  BY <1>1, <1>3 DEF Remove, Dirs
<1>4. CASE UNCHANGED dir
  BY <1>4
<1> QED
  BY <1>2, <1>3, <1>4
     DEF Next, Request, Step, Environment, ReadStatus, vars, StartConfirm, StartApply, Start,
         StartRollback, StartAutomatic, StartStatus, Arm, SetFact, Audit, Rewrite, Reaudit,
         StartRestore, RestoreArtifact, RestartServices, Recheck, WriteOutcome, StopTimer,
         TimerElapses, Kill, Reboot, Renew, AddressChanges

(* What the script that holds the lock knows stays true while it goes on. *)
LEMMA LockStep ==
    ASSUME IInv, [Next]_vars
    PROVE  LockInv'
<1> USE DEF IInv, LockInv, OpeningSteps, PendingSteps, RewriteSteps, RestoreSteps
<1>0. script \in Scripts /\ dir \in Dirs
  BY DEF TypeOK
<1>1. CASE Clear
  BY <1>0, <1>1, IdleFields DEF Go, Restore, Scripts, Clear, At, NoDir, Dirs
<1>2. CASE BackUp
  BY <1>0, <1>2, IdleFields DEF Go, Restore, Scripts, BackUp, At, Fail, NoDir, Dirs
<1>3. CASE OpenWindow
  BY <1>0, <1>3, IdleFields DEF Go, Restore, Scripts, OpenWindow, At, Dirs, AfterOpening
<1>4. CASE Arm
  BY <1>0, <1>4, IdleFields DEF Go, Restore, Scripts, Arm, At, AfterRefusal
<1>5. CASE SetFact
  BY <1>0, <1>5, IdleFields DEF Go, Restore, Scripts, SetFact, At
<1>6. CASE Displace
  BY <1>0, <1>6, IdleFields DEF Go, Restore, Scripts, Displace, At, Fail, Dirs
<1>7. CASE RestartServices
  BY <1>0, <1>7, IdleFields DEF Go, Restore, Scripts, RestartServices, At, Fail
<1>8. CASE Recheck
  BY <1>0, <1>8, IdleFields DEF Go, Restore, Scripts, Recheck, At, Fail
<1>9. CASE Commit
  BY <1>0, <1>9, IdleFields DEF Go, Restore, Scripts, Commit, At, Dirs
<1>10. CASE Reaudit
  BY <1>0, <1>10, IdleFields DEF Go, Restore, Scripts, Reaudit, At, Reconciled, ReconcileFailed, Succeed
<1>11. CASE StartRestore
  BY <1>0, <1>11, IdleFields DEF Go, Restore, Scripts, StartRestore, At, Finished, Succeed, Fail, MayRestore
<1>12. CASE WriteOutcome
  BY <1>0, <1>12, IdleFields DEF Go, Restore, Scripts, WriteOutcome, At, Fail
<1>13. CASE Remove
  <2>1. CASE dir' = [dir EXCEPT !.intact = FALSE] /\ UNCHANGED script
    <3>1. dir'.phase = dir.phase
      BY <1>0, <2>1 DEF Dirs
    <3> QED  BY <1>13, <2>1, <3>1 DEF Remove, At
  <2>2. CASE dir' = NoDir
    BY <1>0, <1>13, <2>2, IdleFields
       DEF Remove, At, Finished, Succeed, Fail, Go, Scripts, NoDir
  <2> QED  BY <1>13, <2>1, <2>2 DEF Remove
<1>14. CASE StopTimer
  BY <1>0, <1>14, IdleFields DEF Go, Restore, Scripts, StopTimer, At
<1>15. CASE StartRollback
  BY <1>0, <1>15, IdleFields DEF Go, Start, Scripts, Idle, StartRollback
<1>16. CASE StartStatus
  BY <1>0, <1>16, IdleFields DEF Go, Start, Scripts, Idle, StartStatus, Undecided
<1>17. CASE StartAutomatic
  BY <1>0, <1>17, IdleFields DEF Go, Start, Scripts, Idle, StartAutomatic
<1>18. CASE (\E s \in Sessions : StartConfirm(s))
  BY <1>0, <1>18, IdleFields DEF Go, Start, Scripts, Idle, StartConfirm, Undecided
<1>21. CASE Audit
  <2>1. CASE script' = [script EXCEPT !.step = "certify", !.saved = live,
                                      !.address = PublicAddress]
    <3>1. /\ script'.step = "certify" /\ script'.op = script.op
          /\ script'.mode = script.mode
      BY <1>0, <2>1 DEF Scripts
    <3> QED  BY <1>21, <3>1 DEF Audit, At
  <2>2. CASE Reconciled
    BY <1>0, <1>21, <2>2, IdleFields DEF Go, Restore, Scripts, Audit, At, Reconciled, Succeed
  <2> QED  BY <1>21, <2>1, <2>2 DEF Audit
<1>22. CASE Rewrite
  <2>1. /\ script.step \in RewriteSteps
        /\ AfterRewriting[script.step] \in RewriteSteps \cup {"reaudit"}
    BY <1>22, StepNames DEF Rewrite
  <2>2. CASE Go(AfterRewriting[script.step])
    BY <1>0, <1>22, <2>1, <2>2 DEF Go, Scripts, Rewrite
  <2>3. CASE ReconcileFailed
    BY <1>0, <1>22, <2>1, <2>3, IdleFields DEF Restore, Scripts, Rewrite, ReconcileFailed
  <2> QED  BY <1>22, <2>2, <2>3 DEF Rewrite
<1>23. CASE RestoreArtifact
  BY <1>0, <1>23, IdleFields, StepNames DEF Go, Restore, Scripts, RestoreArtifact
<1>24. ASSUME NEW s \in Sessions, NEW name \in Names \cup {NoName}, StartApply(s, name)
      PROVE  LockInv'
  BY <1>24 DEF StartApply, Idle
<1>25. CASE UNCHANGED <<script, dir.phase, dir.intact>>
  BY <1>25
<1>26. CASE script' = Idle
  BY <1>0, <1>26, IdleFields
<1>27. CASE Expire
  BY <1>0, <1>27 DEF Expire, Dirs
<1> QED
  BY <1>1, <1>2, <1>3, <1>4, <1>5, <1>6, <1>7, <1>8, <1>9, <1>10, <1>11, <1>12, <1>13, <1>14, <1>15, <1>16, <1>17, <1>18, <1>21, <1>22, <1>23, <1>24, <1>25, <1>26, <1>27
     DEF Next, Request, Step, Environment, ReadStatus, vars, TimerElapses, Kill, Reboot,
         Renew, AddressChanges

(* Backups stay proper. *)
LEMMA BackupStep ==
    ASSUME IInv, [Next]_vars, dir'.phase # "none" \/ dir'.intact
    PROVE  Proper(dir'.backup)
<1> USE DEF IInv, ContentInv
<1>0. script \in Scripts /\ dir \in Dirs
  BY DEF TypeOK
<1>1. CASE Clear
  BY <1>1 DEF Clear, NoDir
<1>2. CASE BackUp
  <2>1. dir' = NoDir \/ dir'.backup = live
    BY <1>2 DEF BackUp, NoDir
  <2>2. NoDir.phase = "none" /\ ~NoDir.intact
    BY DEF NoDir
  <2> QED  BY <2>1, <2>2
<1>3. CASE OpenWindow
  BY <1>0, <1>3 DEF OpenWindow, At, Dirs, LockInv
<1>4. CASE Commit
  BY <1>0, <1>4 DEF Commit, At, Dirs, LockInv, PendingSteps
<1>5. CASE Remove
  <2>1. dir' = NoDir \/ (dir'.backup = dir.backup /\ dir.intact)
    BY <1>0, <1>5 DEF Remove, Dirs
  <2>2. NoDir.phase = "none" /\ ~NoDir.intact
    BY DEF NoDir
  <2> QED  BY <2>1, <2>2
<1>6. CASE Displace \/ Expire
  BY <1>0, <1>6 DEF Displace, Expire, Dirs
<1>7. CASE UNCHANGED dir
  BY <1>7
<1> QED
  BY <1>1, <1>2, <1>3, <1>4, <1>5, <1>6, <1>7
     DEF Next, Request, Step, Environment, ReadStatus, vars, StartConfirm, StartApply, Start,
         StartRollback, StartAutomatic, StartStatus, Arm, SetFact, Audit, Rewrite, Reaudit,
         StartRestore, RestoreArtifact, RestartServices, Recheck, WriteOutcome, StopTimer,
         TimerElapses, Kill, Reboot, Renew, AddressChanges

(* What a script carries stays proper. *)
LEMMA CarriedStep ==
    ASSUME IInv, [Next]_vars
    PROVE  /\ script'.step \in RewriteSteps \cup {"reaudit"} => Proper(script'.saved)
           /\ script'.step \in RewriteSteps => script'.address \in Published
           /\ script'.step \in OpeningSteps \cup {"arm", "set"} =>
                 script'.address \in Names \cup {NoName}
<1> DEFINE Carried ==
      /\ script.step \in RewriteSteps \cup {"reaudit"} => Proper(script.saved)
      /\ script.step \in RewriteSteps => script.address \in Published
      /\ script.step \in OpeningSteps \cup {"arm", "set"} =>
            script.address \in Names \cup {NoName}
<1>0. script \in Scripts /\ Carried
  BY DEF TypeOK, IInv, ContentInv
<1> SUFFICES Carried'
  OBVIOUS
<1> USE DEF OpeningSteps, RewriteSteps
<1>1. CASE Clear \/ BackUp \/ OpenWindow \/ Arm
  BY <1>0, <1>1, IdleFields
     DEF Clear, BackUp, OpenWindow, Arm, At, Go, Scripts, Fail, AfterOpening, AfterRefusal
<1>2. CASE Audit
  <2>1. CASE script' = [script EXCEPT !.step = "certify", !.saved = live,
                                      !.address = PublicAddress]
    BY <1>0, <2>1, PublicAddressIsPublished DEF Scripts, IInv, ContentInv
  <2>2. CASE Reconciled
    BY <1>0, <1>2, <2>2, IdleFields DEF Reconciled, Succeed, Go, Scripts
  <2> QED  BY <1>2, <2>1, <2>2 DEF Audit
<1>3. CASE Rewrite
  <2>1. /\ script.step \in RewriteSteps
        /\ AfterRewriting[script.step] \in RewriteSteps \cup {"reaudit"}
    BY <1>3, StepNames DEF Rewrite
  <2>2. CASE Go(AfterRewriting[script.step])
    BY <1>0, <2>1, <2>2 DEF Go, Scripts
  <2>3. CASE ReconcileFailed
    BY <1>0, <2>3, IdleFields DEF Restore, Scripts, ReconcileFailed
  <2> QED  BY <1>3, <2>2, <2>3 DEF Rewrite
<1>4. CASE SetFact \/ Displace \/ RestartServices \/ Recheck \/ Commit
  BY <1>0, <1>4, IdleFields
     DEF SetFact, Displace, RestartServices, Recheck, Commit, Go, Restore, Scripts, Fail
<1>5. CASE Reaudit
  BY <1>0, <1>5, IdleFields
     DEF Reaudit, Reconciled, ReconcileFailed, Succeed, Go, Restore, Scripts
<1>6. CASE StartRestore \/ WriteOutcome
  BY <1>0, <1>6, IdleFields
     DEF StartRestore, WriteOutcome, Finished, Succeed, Fail, Go, Scripts
<1>7. CASE Remove \/ StopTimer
  BY <1>0, <1>7, IdleFields
     DEF Remove, StopTimer, Finished, Succeed, Fail, Go, Scripts
<1>8. CASE RestoreArtifact
  <2>1. AfterRestoring[script.step] \in RestoreSteps \cup {"displace", "restart"}
    BY <1>8, StepNames DEF RestoreArtifact
  <2> QED  BY <1>0, <1>8, <2>1 DEF RestoreArtifact, Go, Scripts, RestoreSteps
<1>9. ASSUME NEW s \in Sessions, NEW name \in Names \cup {NoName}, StartApply(s, name)
      PROVE  Carried'
  BY <1>9 DEF StartApply, Idle
<1>10. CASE StartRollback \/ StartStatus \/ StartAutomatic \/ \E s \in Sessions : StartConfirm(s)
  BY <1>10 DEF StartRollback, StartStatus, StartAutomatic, StartConfirm, Start, Idle
<1>11. CASE script' \in {script, Idle}
  BY <1>0, <1>11, IdleFields
<1> QED
  BY <1>1, <1>2, <1>3, <1>4, <1>5, <1>6, <1>7, <1>8, <1>9, <1>10, <1>11
     DEF Next, Request, Step, Environment, ReadStatus, vars, Expire, TimerElapses, Kill,
         Reboot, Renew, AddressChanges

(* Everything written into an artifact is proper. *)
LEMMA ContentStep ==
    ASSUME IInv, [Next]_vars
    PROVE  ContentInv'
BY LiveStep, BackupStep, CarriedStep DEF ContentInv

(* The reconciliation, the restore and the end of a script. *)
Later ==
    \/ Audit \/ Rewrite \/ Reaudit
    \/ StartRestore \/ RestoreArtifact \/ Displace \/ RestartServices \/ Recheck
    \/ Commit \/ WriteOutcome \/ StopTimer

(* The later steps do not lead back to the first ones, and change neither *)
(* the transaction's number nor the histories.                            *)
LEMMA LaterStep ==
    ASSUME TypeOK, Later
    PROVE  /\ script'.step \notin OpeningSteps \cup {"arm", "set", "discard"}
           /\ script'.op \in {script.op, "none"}
           /\ script'.step \in {"", "outcome", "remove", "commit"} \/ script'.step # script.step
           /\ script'.step = "outcome" => StartRestore \/ Recheck \/ Commit
           /\ script'.step = "remove" => WriteOutcome
<1> USE DEF OpeningSteps
<1>0. script \in Scripts
  BY DEF TypeOK
<1>1. CASE Audit
  <2>1. CASE script' = [script EXCEPT !.step = "certify", !.saved = live,
                                      !.address = PublicAddress]
    BY <1>0, <1>1, <2>1 DEF Scripts, Audit, At
  <2>2. CASE Reconciled
    BY <1>0, <1>1, <2>2, IdleFields DEF Reconciled, Succeed, Go, Scripts, Audit, At
  <2> QED  BY <1>1, <2>1, <2>2 DEF Audit
<1>2. CASE Rewrite
  <2>1. AfterRewriting[script.step] \in RewriteSteps \cup {"reaudit"}
        /\ AfterRewriting[script.step] # script.step
    BY <1>2, StepNames DEF Rewrite, AfterRewriting, Rewritten
  <2>2. CASE Go(AfterRewriting[script.step])
    BY <1>0, <2>1, <2>2 DEF Go, Scripts, RewriteSteps
  <2>3. CASE ReconcileFailed
    BY <1>0, <1>2, <2>3, IdleFields DEF Restore, Scripts, ReconcileFailed, Rewrite, Rewritten
  <2> QED  BY <1>2, <2>2, <2>3 DEF Rewrite
<1>3. CASE RestoreArtifact
  <2>1. AfterRestoring[script.step] \in RestoreSteps \cup {"displace", "restart"}
        /\ AfterRestoring[script.step] # script.step
    BY <1>3, StepNames DEF RestoreArtifact, AfterRestoring
  <2> QED  BY <1>0, <1>3, <2>1 DEF RestoreArtifact, Go, Scripts, RestoreSteps
<1>4. CASE Reaudit
  BY <1>0, <1>4, IdleFields
     DEF Reaudit, At, Reconciled, ReconcileFailed, Succeed, Go, Restore, Scripts
<1>5. CASE StartRestore
  BY <1>0, <1>5, IdleFields DEF StartRestore, At, Finished, Succeed, Fail, Go, Scripts
<1>6. CASE Displace \/ RestartServices \/ Recheck
  BY <1>0, <1>6, IdleFields DEF Displace, RestartServices, Recheck, At, Go, Scripts, Fail
<1>7. CASE Commit \/ WriteOutcome \/ StopTimer
  BY <1>0, <1>7, IdleFields DEF Commit, WriteOutcome, StopTimer, At, Go, Scripts, Fail
<1> QED  BY <1>1, <1>2, <1>3, <1>4, <1>5, <1>6, <1>7 DEF Later

(* Numbers of windows are naturals. *)
LEMMA WindowNumbers ==
    ASSUME TypeOK
    PROVE  /\ dir.id \in Nat /\ changed \in Nat /\ rebooted \in Nat
           /\ bounds.windows \in Nat /\ MaxWindows \in Nat
<1>1. dir.id \in 0..MaxWindows /\ bounds.windows \in Nat
  BY DEF TypeOK, Dirs, Bounds
<1>2. changed \in 0..MaxWindows /\ rebooted \in 0..MaxWindows
  BY DEF TypeOK
<1> QED  BY <1>1, <1>2, EndpointAssumption

(* The later steps leave a timer that guards a change alone. *)
LEMMA LaterTimer ==
    ASSUME IInv, Later, OpenChange
    PROVE  UNCHANGED unit
<1> USE DEF IInv, OpenChange, LockInv
<1>1. CASE StartRestore
  BY <1>1 DEF StartRestore, Fail, MayRestore
<1>2. CASE Audit \/ Reaudit
  BY <1>2 DEF Audit, Reaudit, Reconciled, ReconcileFailed, Succeed
<1>3. CASE Rewrite \/ RestoreArtifact \/ Displace \/ RestartServices
  BY <1>3 DEF Rewrite, RestoreArtifact, Displace, RestartServices, ReconcileFailed, Fail
<1>4. CASE Recheck \/ Commit \/ WriteOutcome
  BY <1>4 DEF Recheck, Commit, WriteOutcome, Fail
<1>5. CASE StopTimer
  BY <1>5 DEF StopTimer, At
<1> QED  BY <1>1, <1>2, <1>3, <1>4, <1>5 DEF Later

(* A change stays guarded while scripts go on. *)
LEMMA TimerStep ==
    ASSUME IInv, [Next]_vars
    PROVE  TimerInv'
<1> USE DEF IInv, TimerInv, UsedWindows, OpenChange, OpeningSteps
<1>0. /\ script \in Scripts /\ dir \in Dirs /\ unit \in Units
      /\ dir.id \in Nat /\ changed \in Nat /\ rebooted \in Nat
      /\ bounds.windows \in Nat /\ MaxWindows \in Nat
  BY WindowNumbers DEF TypeOK
<1>1. ASSUME NEW s \in Sessions, NEW name \in Names \cup {NoName}, StartApply(s, name)
      PROVE  TimerInv'
  <2>1. bounds'.windows = bounds.windows - 1 /\ bounds.windows > 0
    BY <1>0, <1>1, SpendTypes DEF StartApply, TypeOK
  <2>2. script'.step = "clear"
    BY <1>1 DEF StartApply, Idle
  <2> QED  BY <1>0, <1>1, <2>1, <2>2 DEF StartApply
<1>2. CASE ~\E s \in Sessions, name \in Names \cup {NoName} : StartApply(s, name)
  <2>0. bounds'.windows = bounds.windows
    BY <1>2, BoundsStep
  <2>1. CASE Clear
    <3>1. script'.step = "backup" /\ dir'.phase = "none" /\ dir'.id = 0
      BY <1>0, <2>1 DEF Clear, Go, Scripts, NoDir
    <3> QED  BY <1>0, <2>0, <2>1, <3>1 DEF Clear, At
  <2>2. CASE BackUp
    <3>1. script'.step \in {"open", ""} /\ dir'.phase = "none" /\ dir'.id = 0
      <4>1. dir' \in {NoDir, [NoDir EXCEPT !.backup = live, !.intact = TRUE]}
        BY <2>2 DEF BackUp
      <4>2. dir'.phase = "none" /\ dir'.id = 0
        BY <4>1, FreshDir DEF TypeOK
      <4> QED  BY <1>0, <2>2, <4>2, IdleFields DEF BackUp, Go, Scripts, Fail
    <3>2. script.step = "backup" /\ UNCHANGED <<changed, rebooted>>
      BY <2>2 DEF BackUp, At
    <3>3. changed < UsedWindows /\ rebooted < UsedWindows /\ 0 <= UsedWindows
      BY <1>0, <3>2
    <3> QED  BY <1>0, <2>0, <3>1, <3>2, <3>3
  <2>3. CASE OpenWindow
    <3>1. script'.step = "arm" /\ dir'.id = MaxWindows - bounds.windows
      BY <1>0, <2>3 DEF OpenWindow, Go, Scripts, Dirs, AfterOpening
    <3> QED  BY <1>0, <2>0, <2>3, <3>1 DEF OpenWindow, At
  <2>4. CASE Arm
    <3>1. script'.step \in {"set", "discard"}
      BY <1>0, <2>4 DEF Arm, Go, Scripts, AfterRefusal
    <3>2. script'.step = "set" => unit'.state # "none" /\ unit'.id = dir.id
      <4>1. CASE Go("discard")
        BY <1>0, <4>1 DEF Go, Scripts
      <4>2. CASE unit' = [state |-> "armed", id |-> dir.id]
        BY <4>2
      <4> QED  BY <2>4, <4>1, <4>2 DEF Arm, AfterRefusal
    <3> QED  BY <1>0, <2>0, <2>4, <3>1, <3>2 DEF Arm, At
  <2>5. CASE SetFact
    <3>1. script'.step \in {"audit", "restore"}
      BY <1>0, <2>5 DEF SetFact, Go, Scripts, Restore
    <3> QED  BY <1>0, <2>0, <2>5, <3>1 DEF SetFact, At
  <2>6. CASE Later
    <3>1. script'.step \notin OpeningSteps \cup {"arm", "set", "discard"}
      BY <2>6, LaterStep
    <3>2. /\ UNCHANGED <<changed, rebooted>>
          /\ dir'.id = dir.id /\ (dir'.phase = "pending" => dir.phase = "pending")
      BY <1>0, <2>6
         DEF Later, Audit, Rewrite, Reaudit, StartRestore, RestoreArtifact, Displace,
             RestartServices, Recheck, Commit, WriteOutcome, StopTimer, Dirs
    <3>3. OpenChange => UNCHANGED unit
      BY <2>6, LaterTimer
    <3> QED  BY <1>0, <2>0, <3>1, <3>2, <3>3
  <2>7. CASE Remove
    <3>1. CASE dir' = [dir EXCEPT !.intact = FALSE] /\ UNCHANGED <<script, unit>>
      <4>1. dir'.id = dir.id /\ dir'.phase = dir.phase
        BY <1>0, <3>1 DEF Dirs
      <4> QED  BY <1>0, <2>0, <2>7, <3>1, <4>1 DEF Remove
    <3>2. CASE dir' = NoDir /\ IF script.step = "remove" THEN Finished ELSE Fail
      <4>1. dir'.id = 0 /\ dir'.phase = "none"
        BY <3>2 DEF NoDir
      <4>2. script'.step \notin OpeningSteps \cup {"arm", "set", "discard"}
        BY <1>0, <2>7, <3>2, IdleFields DEF Remove, Finished, Succeed, Fail, Go, Scripts
      <4> QED  BY <1>0, <2>0, <2>7, <4>1, <4>2 DEF Remove
    <3> QED  BY <2>7, <3>1, <3>2 DEF Remove
  <2>8. CASE Expire \/ TimerElapses
    <3>1. /\ dir'.id = dir.id /\ dir'.phase = dir.phase
          /\ unit'.id = unit.id /\ (unit'.state = "none" <=> unit.state = "none")
      BY <1>0, <2>8 DEF Expire, TimerElapses, Dirs, Units
    <3> QED  BY <1>0, <2>0, <2>8, <3>1 DEF Expire, TimerElapses
  <2>9. CASE Reboot
    BY <1>0, <2>0, <2>9, IdleFields DEF Reboot
  <2>10. CASE StartRollback \/ StartStatus \/ StartAutomatic \/ \E s \in Sessions : StartConfirm(s)
    <3>1. script'.step \in {"restore", "commit"} /\ UNCHANGED <<dir, unit, changed, rebooted>>
      BY <2>10 DEF StartRollback, StartStatus, StartAutomatic, StartConfirm, Start, Idle
    <3> QED  BY <1>0, <2>0, <3>1
  <2>11. CASE UNCHANGED <<dir, unit, changed, rebooted>> /\ script' \in {script, Idle}
    BY <1>0, <2>0, <2>11, IdleFields
  <2> QED
    BY <1>2, <2>1, <2>2, <2>3, <2>4, <2>5, <2>6, <2>7, <2>8, <2>9, <2>10, <2>11
       DEF Next, Request, Step, Environment, ReadStatus, vars, Kill, Renew, AddressChanges,
           Later
<1> QED  BY <1>1, <1>2

(* Only an expired window is ended by the timer, a status or a late          *)
(* confirmation.                                                            *)
LEMMA ExpiryStep ==
    ASSUME IInv, [Next]_vars
    PROVE  ExpiryInv'
<1> USE DEF IInv, ExpiryInv, OpenChange
<1>0. script \in Scripts /\ dir \in Dirs /\ unit \in Units
  BY DEF TypeOK
<1>1. ASSUME NEW s \in Sessions, NEW name \in Names \cup {NoName}, StartApply(s, name)
      PROVE  ExpiryInv'
  BY <1>1 DEF StartApply, Idle
<1>2. CASE Clear
  BY <1>0, <1>2 DEF Clear, NoDir, Go, Scripts
<1>3. CASE BackUp
  <2>1. dir' \in {NoDir, [NoDir EXCEPT !.backup = live, !.intact = TRUE]}
    BY <1>3 DEF BackUp
  <2>2. dir'.phase = "none"
    BY <2>1, FreshDir DEF TypeOK
  <2>3. script'.step # "set"
    BY <1>0, <1>3, IdleFields DEF BackUp, Go, Scripts, Fail
  <2> QED  BY <2>2, <2>3
<1>4. CASE OpenWindow
  <2>1. script'.step = "arm" /\ script'.op = "apply"
    BY <1>0, <1>4 DEF OpenWindow, At, Go, Scripts, AfterOpening, LockInv, OpeningSteps
  <2>2. changed' # dir'.id
    <3>1. dir'.id = UsedWindows /\ changed < UsedWindows /\ UNCHANGED changed
      BY <1>0, <1>4 DEF OpenWindow, At, Dirs, TimerInv, OpeningSteps, UsedWindows
    <3> QED  BY <3>1, WindowNumbers DEF UsedWindows
  <2> QED  BY <2>1, <2>2
<1>5. CASE Arm
  <2>1. /\ script.step = "arm" /\ UNCHANGED <<dir, changed>> /\ changed # dir.id
        /\ script'.step = "set" => unit'.state = "armed"
    <3>1. CASE Go("discard")
      BY <1>0, <1>5, <3>1 DEF Arm, At, Go, Scripts, TimerInv
    <3>2. CASE unit' = [state |-> "armed", id |-> dir.id]
      BY <1>5, <3>2 DEF Arm, At, TimerInv
    <3> QED  BY <1>5, <3>1, <3>2 DEF Arm, AfterRefusal
  <2> QED  BY <2>1
<1>6. CASE SetFact
  <2>1. /\ script.step = "set" /\ script.op = "apply" /\ script'.op = "apply"
        /\ UNCHANGED <<dir, unit>>
    BY <1>0, <1>6 DEF SetFact, At, Go, Restore, Scripts, LockInv
  <2> QED  BY <2>1
<1>7. CASE Later
  <2>1. /\ script'.step # "set" /\ script'.op \in {script.op, "none"}
        /\ script'.step \in {"", "outcome", "remove", "commit"} \/ script'.step # script.step
    BY <1>7, LaterStep
  <2>2. /\ UNCHANGED changed /\ dir'.id = dir.id /\ dir'.expired = dir.expired
        /\ (dir'.phase = "pending" => dir.phase = "pending")
        /\ script.step = "commit" => dir'.phase # "pending"
    BY <1>0, <1>7
       DEF Later, Audit, Rewrite, Reaudit, StartRestore, RestoreArtifact, Displace,
           RestartServices, Recheck, Commit, WriteOutcome, StopTimer, Dirs, At, Rewritten,
           AfterRestoring
  <2>3. OpenChange => UNCHANGED unit
    BY <1>7, LaterTimer
  <2> QED  BY <2>1, <2>2, <2>3
<1>8. CASE Remove
  <2>1. CASE dir' = [dir EXCEPT !.intact = FALSE] /\ UNCHANGED <<script, unit>>
    <3>1. dir'.id = dir.id /\ dir'.phase = dir.phase /\ dir'.expired = dir.expired
      BY <1>0, <2>1 DEF Dirs
    <3> QED  BY <1>8, <2>1, <3>1 DEF Remove
  <2>2. CASE dir' = NoDir /\ IF script.step = "remove" THEN Finished ELSE Fail
    <3>1. dir'.phase = "none"
      BY <2>2 DEF NoDir
    <3>2. script'.step # "set"
      BY <1>0, <2>2, IdleFields DEF Finished, Succeed, Fail, Go, Scripts
    <3> QED  BY <3>1, <3>2
  <2> QED  BY <1>8, <2>1, <2>2 DEF Remove
<1>9. CASE Expire
  BY <1>0, <1>9 DEF Expire, Dirs
<1>10. CASE TimerElapses
  <2>1. OpenChange \/ script.step = "set" =>
           dir.phase = "pending" /\ unit.id = dir.id
    BY <1>10 DEF TimerElapses, TimerInv, LockInv, PendingSteps
  <2> QED  BY <1>10, <2>1 DEF TimerElapses, Undecided
<1>11. CASE Reboot
  BY <1>11, IdleFields DEF Reboot
<1>12. CASE StartAutomatic
  BY <1>12 DEF StartAutomatic, Start, Idle
<1>13. CASE StartRollback
  BY <1>13 DEF StartRollback, Start, Idle
<1>14. CASE StartStatus
  BY <1>14 DEF StartStatus, Start, Idle, Undecided
<1>15. ASSUME NEW s \in Sessions, StartConfirm(s)
       PROVE  ExpiryInv'
  BY <1>15 DEF StartConfirm, Start, Idle, Undecided
<1>16. CASE UNCHANGED <<dir, unit, changed>> /\ script' \in {script, Idle}
  BY <1>16, IdleFields
<1> QED
  BY <1>1, <1>2, <1>3, <1>4, <1>5, <1>6, <1>7, <1>8, <1>9, <1>10, <1>11, <1>12, <1>13,
     <1>14, <1>15, <1>16
     DEF Next, Request, Step, Environment, ReadStatus, vars, Kill, Renew, AddressChanges,
         Later

(* Renewal puts everything but the endpoint under one address. *)
LEMMA RenewalRestores ==
    ASSUME IInv, Renew, RestoredState
    PROVE  live'["fact"] = dir.backup["fact"]
           /\ \E c \in Published : \A a \in Artifacts \ {"fact"} : live'[a] = c
<1>1. live["fact"] = dir.backup["fact"]
  BY DEF RestoredState
<1>2. /\ live'["fact"] = live["fact"]
      /\ \A a \in Artifacts \ {"fact"} : live'[a] = PublicAddress
  BY DEF Renew, Renewed, Artifacts
<1>3. PublicAddress \in Published
  BY PublicAddressIsPublished DEF IInv, ContentInv
<1> QED  BY <1>1, <1>2, <1>3

(* What is recorded as undone is restored. *)
LEMMA RestoredStep ==
    ASSUME IInv, [Next]_vars
    PROVE  RestoredInv'
<1> USE DEF IInv, RestoredInv
<1>0. script \in Scripts /\ dir \in Dirs
  BY DEF TypeOK
<1>1. CASE Recheck
  BY <1>0, <1>1, IdleFields DEF Recheck, Verified, RestoredState, Fail
<1>2. CASE Commit
  BY <1>0, <1>2 DEF Commit, Dirs
<1>3. CASE WriteOutcome
  BY <1>0, <1>3 DEF WriteOutcome, At, RestoredState
<1>4. CASE Remove
  <2>1. CASE dir' = [dir EXCEPT !.intact = FALSE] /\ UNCHANGED script
    <3>1. /\ dir'.phase = dir.phase /\ dir'.backup = dir.backup
          /\ UNCHANGED <<live, script>>
      BY <1>0, <1>4, <2>1 DEF Dirs, Remove
    <3> QED  BY <3>1 DEF RestoredState
  <2>2. CASE dir' = NoDir
    BY <2>2, FreshDir
  <2> QED  BY <1>4, <2>1, <2>2 DEF Remove
<1>5. CASE StartRestore
  <2>1. script'.step \in {"outcome", "remove"} => dir.phase = "confirmed"
    BY <1>0, <1>5, IdleFields
       DEF StartRestore, At, Go, Scripts, Finished, Succeed, Fail
  <2> QED  BY <1>5, <2>1 DEF StartRestore
<1>6. CASE Renew
  <2>1. UNCHANGED <<dir, script>>
    BY <1>6 DEF Renew
  <2> QED  BY <1>6, <2>1, RenewalRestores DEF RestoredState
<1>7. CASE Expire
  <2>1. /\ dir'.phase = dir.phase /\ dir'.backup = dir.backup
        /\ UNCHANGED <<live, script>>
    BY <1>0, <1>7 DEF Dirs, Expire
  <2> QED  BY <2>1 DEF RestoredState
<1>8. CASE UNCHANGED <<dir, live>> /\ script' \in {script, Idle}
  BY <1>8, IdleFields DEF RestoredState
<1>9. CASE Clear \/ BackUp \/ OpenWindow \/ Arm \/ SetFact
  BY <1>0, <1>9, IdleFields
     DEF Clear, BackUp, OpenWindow, Arm, SetFact, Go, Restore, Scripts, Fail, AfterOpening,
         AfterRefusal
<1>10. CASE Later /\ ~(Recheck \/ Commit \/ WriteOutcome \/ StartRestore)
  BY <1>10, LaterStep
<1>11. ASSUME NEW s \in Sessions, NEW name \in Names \cup {NoName}, StartApply(s, name)
       PROVE  RestoredInv'
  BY <1>11 DEF StartApply, Idle
<1>12. CASE StartRollback \/ StartStatus \/ StartAutomatic \/ \E s \in Sessions : StartConfirm(s)
  BY <1>12 DEF StartRollback, StartStatus, StartAutomatic, StartConfirm, Start, Idle
<1> QED
  BY <1>1, <1>2, <1>3, <1>4, <1>5, <1>6, <1>7, <1>8, <1>9, <1>10, <1>11, <1>12
     DEF Next, Request, Step, Environment, ReadStatus, vars, TimerElapses, Kill, Reboot,
         AddressChanges, Later

-----------------------------------------------------------------------------
(* Theorems.                                                               *)

(* A host without a window, just installed, satisfies the invariant. *)
LEMMA InitInv == Init => IInv
<1> SUFFICES ASSUME Init PROVE IInv
  OBVIOUS
<1>1. Proper(live)
  BY EndpointAssumption
     DEF Init, Proper, Published, Contents, Artifacts, Publication
<1>2. TypeOK
  <2>1. live \in [Artifacts -> Contents] /\ \A a \in Artifacts \ {"fact"} : live[a] # NoName
    BY <1>1, EndpointAssumption DEF Proper, Published, NoName, Missing
  <2>2. 0 \in 0..MaxWindows
    BY EndpointAssumption
  <2>3. bounds \in Bounds
    BY EndpointAssumption DEF Init, Bounds
  <2>4. unit \in Units /\ outcome \in Outcomes
    BY <2>2 DEF Init, Units, Outcomes, NoOutcome
  <2> QED
    BY <2>1, <2>2, <2>3, <2>4, IdleType, DirTypes, EndpointAssumption DEF Init, TypeOK
<1>3. /\ script.step = "" /\ script.op = "none"
      /\ dir.phase = "none" /\ dir.id = 0 /\ ~dir.intact
  BY IdleFields, FreshDir DEF Init, NoDir
<1>4. bounds.windows = MaxWindows /\ MaxWindows \in Nat /\ changed = 0 /\ rebooted = 0
  BY EndpointAssumption DEF Init
<1>5. ContentInv /\ LockInv
  BY <1>1, <1>3
     DEF ContentInv, LockInv, OpeningSteps, PendingSteps, RewriteSteps, RestoreSteps
<1>6. UsedWindows = 0 /\ bounds.windows <= MaxWindows
  BY <1>4 DEF UsedWindows
<1>7. TimerInv
  <2>1. dir.id <= UsedWindows /\ changed <= UsedWindows /\ rebooted <= UsedWindows
    <3>1. UsedWindows \in Nat
      BY <1>4 DEF UsedWindows
    <3>2. dir.id = 0 /\ changed = 0 /\ rebooted = 0
      BY <1>3, <1>4
    <3>3. \A n \in Nat : 0 <= n
      OBVIOUS
    <3> QED  BY <3>1, <3>2, <3>3
  <2>2. script.step \notin OpeningSteps \cup {"arm", "set", "discard"} /\ ~OpenChange
    BY <1>3 DEF OpeningSteps, OpenChange
  <2> QED  BY <1>6, <2>1, <2>2 DEF TimerInv
<1>8. ExpiryInv /\ RestoredInv
  BY <1>3 DEF ExpiryInv, RestoredInv, OpenChange
<1> QED  BY <1>2, <1>5, <1>7, <1>8 DEF IInv

(* Every step keeps it. *)
LEMMA NextInv == IInv /\ [Next]_vars => IInv'
BY TypeStep, ContentStep, LockStep, TimerStep, ExpiryStep, RestoredStep DEF IInv

(* The inductive invariant holds in every behaviour of the scripts. *)
THEOREM Invariance == Spec => []IInv
BY InitInv, NextInv, PTL DEF Spec

(* Every variable of the transaction keeps its type. *)
THEOREM TypeCorrect == Spec => []TypeOK
BY Invariance, PTL DEF IInv

(* No change is live without its own timer, whatever is killed or refused.  *)
THEOREM ChangesAreGuarded == Spec => []ChangeIsGuarded
<1>1. IInv => ChangeIsGuarded
  BY DEF IInv, TimerInv, ChangeIsGuarded
<1> QED  BY <1>1, Invariance, PTL

(* The one step that closes a window undoes it: rm -rf of the transaction.  *)
LEMMA ClosingStep ==
    ASSUME IInv, [Next]_vars, OpenChange, dir'.phase = "none"
    PROVE  Remove /\ script.step = "remove"
<1> USE DEF IInv, OpenChange
<1>1. ~Clear /\ ~BackUp /\ ~OpenWindow
  BY DEF Clear, BackUp, OpenWindow, At, LockInv, OpeningSteps
<1>2. ~Commit
  BY DEF Commit, TypeOK, Dirs
<1>3. Remove => script.step = "remove"
  BY DEF Remove, At, TimerInv
<1> QED  BY <1>1, <1>2, <1>3, DirFields

(* No change is undone early: it lasts for its window unless its own script *)
(* failed or an administrator asked for it.                                 *)
THEOREM NoChangeEndsEarly == Spec => NoEarlyRollback
<1>1. ASSUME IInv, [Next]_vars, OpenChange, ~dir.expired, dir'.phase = "none"
      PROVE  script.op \in {"apply", "rollback"}
  <2>1. script.step = "remove" /\ script.op # "none"
    BY <1>1, ClosingStep DEF Remove, At
  <2>2. script.op \in Ops
    BY <1>1 DEF IInv, TypeOK, Scripts
  <2> QED  BY <1>1, <2>1, <2>2 DEF IInv, ExpiryInv, Ops
<1>2. IInv /\ [Next]_vars =>
        [OpenChange /\ ~dir.expired /\ dir'.phase = "none" =>
            script.op \in {"apply", "rollback"}]_vars
  BY <1>1
<1> QED  BY <1>2, Invariance, PTL DEF Spec, NoEarlyRollback

(* An undone change is undone completely, or everything was renewed under   *)
(* the endpoint of before.                                                  *)
THEOREM ChangesEndWhole == Spec => NeverHalfRestored
<1>1. ASSUME IInv, [Next]_vars, OpenChange, dir'.phase = "none"
      PROVE  RestoredState
  BY <1>1, ClosingStep DEF IInv, RestoredInv, OpenChange
<1>2. IInv /\ [Next]_vars =>
        [OpenChange /\ dir'.phase = "none" =>
            \/ live = dir.backup
            \/ /\ live["fact"] = dir.backup["fact"]
               /\ \E c \in Names \cup Addresses :
                     \A a \in Artifacts \ {"fact"} : live[a] = c]_vars
  BY <1>1 DEF RestoredState, Published
<1> QED  BY <1>2, Invariance, PTL DEF Spec, NeverHalfRestored

(* A confirmed change is final. *)
THEOREM ConfirmationIsFinal == Spec => ConfirmedStays
<1>1. ASSUME IInv, [Next]_vars, dir.phase = "confirmed"
      PROVE  live' \in {live, Renewed}
  <2>1. ~SetFact /\ ~Rewrite /\ ~Reaudit /\ ~RestoreArtifact /\ ~Displace
    BY <1>1, StepNames
       DEF IInv, LockInv, PendingSteps, SetFact, Rewrite, Reaudit, RestoreArtifact, Displace, At
  <2>2. Renew \/ UNCHANGED live
    BY <1>1, <2>1
       DEF Next, Request, Step, Environment, ReadStatus, vars, StartConfirm, StartApply, Start,
           StartRollback, StartAutomatic, StartStatus, Clear, BackUp, OpenWindow, Arm, Audit,
           StartRestore, RestartServices, Recheck, Commit, WriteOutcome, Remove, StopTimer,
           Expire, TimerElapses, Kill, Reboot, AddressChanges
  <2> QED  BY <2>2 DEF Renew
<1>2. IInv /\ [Next]_vars =>
        [dir.phase = "confirmed" => live' \in {live, Renewed}]_vars
  BY <1>1
<1> QED  BY <1>2, Invariance, PTL DEF Spec, ConfirmedStays
-----------------------------------------------------------------------------
(***************************************************************************)
(* The public endpoint transaction implements GuardedWindow: at most one   *)
(* window is open and how it ended is never lost or revised, whatever is   *)
(* killed and however often an end is repeated, provided the outcome file  *)
(* can be written.                                                         *)
(***************************************************************************)

(* Without it a window that ended leaves no outcome (OutcomePersistedFirst). *)
OutcomeIsWritten == "outcome" \notin Faults

(* The outcome of the window before is forgotten before a window opens, and *)
(* that of a window is written before its directory goes.                   *)
OutcomeInv ==
    /\ script.step \in {"backup", "open", "arm", "set", "discard"} =>
          outcome = NoOutcome
    /\ script.step = "remove" =>
          /\ outcome.id = dir.id
          /\ IF dir.phase = "confirmed" THEN outcome.how = "confirmed"
             ELSE outcome.how \in {"rolled_back", "automatic_rollback"}

(* The starts of a script. *)
Starting ==
    \/ StartRollback \/ StartStatus \/ StartAutomatic
    \/ \E s \in Sessions :
          \/ StartConfirm(s)
          \/ \E name \in Names \cup {NoName} : StartApply(s, name)

(* What an outcome means survives every step. *)
LEMMA OutcomeStep ==
    ASSUME OutcomeIsWritten, IInv, OutcomeInv, [Next]_vars
    PROVE  OutcomeInv'
<1> USE DEF OutcomeInv
<1>0. script \in Scripts /\ dir \in Dirs
  BY DEF IInv, TypeOK
<1>1. CASE Clear
  BY <1>0, <1>1 DEF Clear, Go, Scripts
<1>2. CASE BackUp
  BY <1>0, <1>2, IdleFields DEF BackUp, At, Go, Scripts, Fail
<1>3. CASE OpenWindow
  BY <1>0, <1>3 DEF OpenWindow, At, Go, Scripts, AfterOpening
<1>4. CASE Arm
  BY <1>0, <1>4 DEF Arm, At, Go, Scripts, AfterRefusal
<1>5. CASE SetFact
  BY <1>0, <1>5 DEF SetFact, Go, Scripts, Restore
<1>6. CASE WriteOutcome
  <2>1. outcome' = [id |-> dir.id, how |-> How] /\ UNCHANGED dir /\ script'.step = "remove"
    BY <1>0, <1>6 DEF WriteOutcome, Fault, OutcomeIsWritten, Go, Scripts
  <2>2. IF dir.phase = "confirmed" THEN How = "confirmed"
        ELSE How \in {"rolled_back", "automatic_rollback"}
    BY DEF How
  <2> QED  BY <2>1, <2>2
<1>7. CASE Later /\ ~WriteOutcome
  BY <1>7, LaterStep DEF IInv, OpeningSteps
<1>8. CASE Remove
  <2>1. CASE dir' = [dir EXCEPT !.intact = FALSE] /\ UNCHANGED script
    <3>1. dir'.id = dir.id /\ dir'.phase = dir.phase /\ UNCHANGED <<outcome, script>>
      BY <1>0, <1>8, <2>1 DEF Dirs, Remove
    <3> QED  BY <3>1
  <2>2. CASE dir' = NoDir /\ IF script.step = "remove" THEN Finished ELSE Fail
    BY <1>0, <2>2, IdleFields DEF Finished, Succeed, Fail, Go, Scripts
  <2> QED  BY <1>8, <2>1, <2>2 DEF Remove
<1>9. CASE Expire
  BY <1>0, <1>9 DEF Expire, Dirs
<1>10. CASE Starting
  <2>1. script'.step \in {"restore", "commit", "clear"}
    BY <1>10
       DEF Starting, StartRollback, StartStatus, StartAutomatic, StartConfirm, StartApply,
           Start, Idle
  <2> QED  BY <2>1
<1>11. CASE UNCHANGED <<dir, outcome>> /\ script' \in {script, Idle}
  BY <1>11, IdleFields
<1> QED
  BY <1>1, <1>2, <1>3, <1>4, <1>5, <1>6, <1>7, <1>8, <1>9, <1>10, <1>11
     DEF Next, Request, Step, Environment, ReadStatus, vars, TimerElapses, Kill, Reboot,
         Renew, AddressChanges, Later, Starting

-----------------------------------------------------------------------------
(* What leaves the directory, the outcome and the histories alone shows     *)
(* nothing.                                                                 *)
LEMMA ShowsNothing ==
    ASSUME UNCHANGED <<dir.phase, dir.id, outcome, changed>>
    PROVE  UNCHANGED Abstract!vars
BY DEF Abstract!vars, OpenChange

(* The host's first state shows no window. *)
LEMMA RefineInit == Init => Abstract!Init
<1> SUFFICES ASSUME Init PROVE Abstract!Init
  OBVIOUS
<1>1. dir.phase = "none" /\ outcome.id = 0 /\ outcome.how = ""
  BY FreshDir DEF Init, NoOutcome
<1> QED  BY <1>1 DEF Abstract!Init, OpenChange

(* Every step is a step of the window, or shows nothing. *)
LEMMA RefineStep ==
    ASSUME IInv, OutcomeInv, [Next]_vars
    PROVE  [Abstract!Next]_Abstract!vars
<1>0. /\ script \in Scripts /\ dir \in Dirs
      /\ dir.id \in Nat /\ changed \in Nat /\ bounds.windows \in Nat /\ MaxWindows \in Nat
  BY WindowNumbers DEF IInv, TypeOK
<1>1. CASE Clear
  <2>1. dir.phase = "none" /\ dir'.phase = "none" /\ outcome' = NoOutcome
    BY <1>1, FreshDir DEF Clear, At, IInv, LockInv, OpeningSteps
  <2> QED  BY <2>1 DEF Abstract!Next, Abstract!Forget, OpenChange, NoOutcome
<1>2. CASE BackUp
  <2>1. dir' \in {NoDir, [NoDir EXCEPT !.backup = live, !.intact = TRUE]}
    BY <1>2 DEF BackUp
  <2>2. dir'.phase = "none"
    BY <2>1, FreshDir DEF IInv, TypeOK
  <2>3. dir.phase = "none" /\ UNCHANGED outcome
    BY <1>2 DEF BackUp, At, IInv, LockInv, OpeningSteps
  <2> QED  BY <2>2, <2>3 DEF Abstract!vars, OpenChange
<1>3. CASE OpenWindow
  <2>1. /\ dir.phase = "none" /\ outcome = NoOutcome
        /\ UNCHANGED <<outcome, changed>> /\ changed < UsedWindows
    BY <1>3 DEF OpenWindow, At, IInv, LockInv, TimerInv, OpeningSteps, OutcomeInv
  <2>2. dir'.phase = "pending" /\ dir'.id = UsedWindows
    BY <1>0, <1>3 DEF OpenWindow, Dirs, UsedWindows
  <2>3. UsedWindows \in Nat \ {0} /\ changed # UsedWindows
    BY <1>0, <2>1 DEF UsedWindows
  <2> QED
    BY <2>1, <2>2, <2>3 DEF Abstract!Next, Abstract!Open, OpenChange, NoOutcome
<1>4. CASE SetFact
  <2>1. dir.phase = "pending" /\ changed' = dir.id /\ UNCHANGED <<dir, outcome>>
    BY <1>4 DEF SetFact, At, IInv, LockInv, PendingSteps
  <2> QED  BY <2>1 DEF Abstract!Next, Abstract!Change, OpenChange
<1>5. CASE Commit
  <2>1. /\ dir.phase = "pending" /\ dir'.phase = "confirmed" /\ dir'.id = dir.id
        /\ UNCHANGED <<outcome, changed>>
    BY <1>0, <1>5 DEF Commit, At, IInv, LockInv, PendingSteps, Dirs
  <2> QED  BY <2>1 DEF Abstract!Next, Abstract!Close, OpenChange
<1>6. CASE WriteOutcome
  <2>1. dir.phase \in {"confirmed", "pending"} /\ UNCHANGED <<dir, changed>>
    BY <1>0, <1>6 DEF WriteOutcome, At, IInv, LockInv, Dirs, Phases
  <2> QED  BY <2>1 DEF Abstract!vars, OpenChange
<1>7. CASE Remove
  <2>1. CASE dir' = [dir EXCEPT !.intact = FALSE] /\ UNCHANGED script
    <3>1. dir'.id = dir.id /\ dir'.phase = dir.phase /\ UNCHANGED <<outcome, changed>>
      BY <1>0, <1>7, <2>1 DEF Dirs, Remove
    <3> QED  BY <3>1, ShowsNothing
  <2>2. CASE dir' = NoDir
    <3>0. dir'.phase = "none" /\ UNCHANGED <<outcome, changed>>
      BY <1>7, <2>2, FreshDir DEF Remove
    <3>1. CASE script.step = "discard"
      <4>1. dir.phase = "pending" /\ outcome = NoOutcome /\ ~OpenChange
        BY <3>1 DEF IInv, LockInv, TimerInv, PendingSteps, OutcomeInv, OpenChange
      <4> QED
        BY <3>0, <4>1 DEF Abstract!Next, Abstract!Withdraw, OpenChange, NoOutcome
    <3>2. CASE script.step = "remove" /\ dir.phase = "confirmed"
      <4>1. outcome.id = dir.id /\ outcome.how = "confirmed"
        BY <3>2 DEF OutcomeInv
      <4> QED  BY <3>0, <3>2, <4>1 DEF Abstract!vars, OpenChange
    <3>3. CASE script.step = "remove" /\ dir.phase = "pending"
      <4>1. outcome.id = dir.id /\ outcome.how \in {"rolled_back", "automatic_rollback"}
        BY <3>3 DEF OutcomeInv
      <4> QED
        BY <3>0, <3>3, <4>1 DEF Abstract!Next, Abstract!Close, OpenChange
    <3>4. script.step = "remove" => dir.phase \in {"confirmed", "pending"}
      BY <1>0 DEF IInv, LockInv, Dirs, Phases
    <3> QED  BY <1>7, <3>1, <3>2, <3>3, <3>4 DEF Remove, At
  <2> QED  BY <1>7, <2>1, <2>2 DEF Remove
<1>8. CASE Expire \/ Displace
  <2>1. UNCHANGED <<dir.phase, dir.id, outcome, changed>>
    BY <1>0, <1>8 DEF Expire, Displace, Dirs
  <2> QED  BY <2>1, ShowsNothing
<1>9. CASE UNCHANGED <<dir, outcome, changed>>
  BY <1>9, ShowsNothing
<1> QED
  BY <1>1, <1>2, <1>3, <1>4, <1>5, <1>6, <1>7, <1>8, <1>9
     DEF Next, Request, Step, Environment, ReadStatus, vars, StartConfirm, StartApply, Start,
         StartRollback, StartAutomatic, StartStatus, Arm, Audit, Rewrite, Reaudit,
         StartRestore, RestoreArtifact, RestartServices, Recheck, StopTimer, TimerElapses,
         Kill, Reboot, Renew, AddressChanges

(* What the status shows is a guarded window, for any number of windows,     *)
(* killed scripts and failed steps but a failing write of the outcome.       *)
THEOREM Refinement ==
    ASSUME OutcomeIsWritten
    PROVE  Spec => ImplementsGuardedWindow
<1>1. Init => OutcomeInv
  BY IdleFields DEF Init, OutcomeInv
<1>2. IInv /\ OutcomeInv /\ [Next]_vars => OutcomeInv'
  BY OutcomeStep
<1>3. IInv /\ OutcomeInv /\ [Next]_vars => [Abstract!Next]_Abstract!vars
  BY RefineStep
<1> QED
  BY <1>1, <1>2, <1>3, RefineInit, Invariance, PTL
     DEF Spec, ImplementsGuardedWindow, Abstract!Spec
=============================================================================
