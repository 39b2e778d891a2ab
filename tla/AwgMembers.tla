----------------------------- MODULE AwgMembers -----------------------------
(***************************************************************************)
(* AmneziaWG nodes: registration, the first handshake of an enrolled node  *)
(* (lib/awg_enrollment.py), the access policy (lib/awg_access.py) and the  *)
(* commands of amneziawg-setup.sh that change them.  Every command runs    *)
(* under the change lock of the manager as a list of durable steps: write  *)
(* the node list, stage a policy, commit it, update the interface, load    *)
(* the rules.  It may fail or be killed between two of them.               *)
(***************************************************************************)
EXTENDS Integers, Sequences

CONSTANTS
    AwgNames,           \* node names
    MaxAwgKeys,         \* registrations, each with a key of its own: bounds
    EnrolmentTTL,       \* ENROLLMENT_TTL_SECONDS, in ticks
    MaxAwgTime,         \* the last tick of the clock: bounds the model
    MaxAwgChanges,      \* policy and state commands of an admin: bounds
    MaxAwgTroubles      \* failed steps and kills: bounds the model

ASSUME AwgAssumption ==
    /\ {MaxAwgKeys, MaxAwgChanges, MaxAwgTroubles} \subseteq Nat
    /\ {EnrolmentTTL, MaxAwgTime} \subseteq Nat \ {0}

VARIABLES
    awgClock,       \* time of day
    members,        \* the key of every listed node, enabled or not; 0: none
    disabled,       \* the nodes of the disabled list
    access,         \* the active policy
    staged,         \* the pending policy file
    peers,          \* the keys the interface has loaded
    reach,          \* who reaches whom by the rules that are loaded
    enrolments,     \* items of enrollments.json
    lastHandshake,  \* of every key on the interface; 0: none
    awgScript,      \* the command that holds the lock
    awgBounds,      \* how much of the bounds is used up
    awgHistory      \* history: keys enrolled, opened by an admin, whose registration or removal
                    \* was killed, and that made a handshake

awgVars == <<awgClock, members, disabled, access, staged, peers, reach, enrolments,
             lastHandshake, awgScript, awgBounds, awgHistory>>

(* The last key is that of the node that is there at the start.            *)
AwgKeys == 1..MaxAwgKeys + 1

NoItem == [key |-> 0, created |-> 0]

NoStaged == [mode |-> <<>>, allow |-> {}]

OpenPolicy == [mode |-> [n \in AwgNames |-> "unset"], allow |-> {}]

AwgIdle == [op |-> "none", name |-> "", key |-> 0, grant |-> "", steps |-> <<>>,
            todo |-> {}, saved |-> <<>>]

Enabled == {n \in AwgNames : members[n] # 0} \ disabled

(* A restricted node reaches what its permissions name; others everything. *)
ReachBy(policy, on) ==
    {p \in on \X (on \cup {"vps"}) :
        /\ p[1] # p[2]
        /\ \/ policy.mode[p[1]] # "restricted"
           \/ \E a \in policy.allow : a.from = p[1] /\ a.to = p[2]}

(* pending_policy: a pending file left behind is taken over.               *)
Candidate == IF staged = NoStaged THEN access ELSE staged

FaultForgetClient(policy, n) ==
    [mode |-> [policy.mode EXCEPT ![n] = "unset"],
     allow |-> {a \in policy.allow : a.from # n}]

Forget(policy, n) ==
    [mode |-> [policy.mode EXCEPT ![n] = "unset"],
     allow |-> {a \in policy.allow : a.from # n /\ a.to # n}]

SetMode(policy, n, mode) == [policy EXCEPT !.mode[n] = mode]

SpendAwg(what) ==
    /\ awgBounds[what] > 0
    /\ awgBounds' = [awgBounds EXCEPT ![what] = @ - 1]

NextAwg(step) == awgScript.steps # <<>> /\ Head(awgScript.steps) = step

AwgDone == awgScript' = [awgScript EXCEPT !.steps = Tail(@)]

(* The steps of every command, in the order of the script.                 *)
RemovalSteps == <<"record", "link", "load", "stage", "commit", "load">>

FaultConfirmSteps == <<"stage", "commit", "link", "load">>

ConfirmSteps == <<"stage", "commit", "link", "load", "complete">>

AwgStepsOf(op) ==
    CASE op = "import" -> <<"record", "stage", "commit", "link", "load">>
      [] op = "enroll" -> <<"record", "stage", "commit", "link", "load", "start">>
      [] op = "remove" -> RemovalSteps
      [] op = "expire" -> RemovalSteps \o <<"complete">>
      [] op = "confirm" -> ConfirmSteps
      [] op \in {"enable", "disable"} -> <<"record", "link", "load">>
      [] OTHER -> <<"stage", "load", "commit">>

AwgCommand(op, n, key, to, todo) ==
    [op |-> op, name |-> n, key |-> key, grant |-> to, steps |-> AwgStepsOf(op),
     todo |-> todo, saved |-> [members |-> members, disabled |-> disabled,
                               access |-> access]]
-----------------------------------------------------------------------------
(* Commands of an administrator.  The website registers with "import".     *)

RegisterNode ==
    /\ awgScript = AwgIdle
    /\ awgClock + EnrolmentTTL < MaxAwgTime
    /\ SpendAwg("keys")
    /\ \E n \in AwgNames, op \in {"import", "enroll"} :
          /\ members[n] = 0
          /\ awgScript' = AwgCommand(op, n, awgBounds.keys, "", {})
    /\ UNCHANGED <<awgClock, members, disabled, access, staged, peers, reach,
                   enrolments, lastHandshake, awgHistory>>

ChangeNode ==
    /\ awgScript = AwgIdle
    /\ SpendAwg("changes")
    /\ \E n \in AwgNames :
          \/ /\ members[n] # 0
             /\ awgScript' = AwgCommand("remove", n, 0, "", {})
             /\ UNCHANGED awgHistory
          \/ /\ members[n] # 0
             /\ \E op \in {IF n \in disabled THEN "enable" ELSE "disable"} :
                   awgScript' = AwgCommand(op, n, 0, "", {})
             /\ UNCHANGED awgHistory
          \/ /\ n \in Enabled
             /\ \E mode \in {"restricted", "unrestricted"} :
                   /\ awgScript' = AwgCommand("mode", n, 0, mode, {})
                   /\ awgHistory' = IF mode = "restricted" THEN awgHistory
                                    ELSE [awgHistory EXCEPT !.opened = @ \cup {members[n]}]
          \/ /\ n \in Enabled
             /\ \E to \in (Enabled \cup {"vps"}) \ {n}, op \in {"allow", "deny"} :
                   /\ (\E a \in Candidate.allow : a.from = n /\ a.to = to) <=> op = "deny"
                   /\ awgScript' = AwgCommand(op, n, 0, to, {})
             /\ UNCHANGED awgHistory
    /\ UNCHANGED <<awgClock, members, disabled, access, staged, peers, reach,
                   enrolments, lastHandshake>>
-----------------------------------------------------------------------------
(* The enrolment timer: read the handshakes, then the clock, then act.     *)

Pending == {n \in AwgNames : enrolments[n] # NoItem}

BeginReconcile ==
    /\ awgScript = AwgIdle
    /\ Pending # {}
    /\ awgScript' = [AwgIdle EXCEPT !.op = "plan", !.saved = lastHandshake]
    /\ UNCHANGED <<awgClock, members, disabled, access, staged, peers, reach,
                   enrolments, lastHandshake, awgBounds, awgHistory>>

FaultConfirmExpired(n, seen) ==
    awgClock >= enrolments[n].created + EnrolmentTTL

ConfirmItem(n, seen) == seen[enrolments[n].key] >= enrolments[n].created

ExpireItem(n, seen) ==
    /\ ~ConfirmItem(n, seen)
    /\ awgClock >= enrolments[n].created + EnrolmentTTL

PlanReconcile ==
    /\ awgScript.op = "plan"
    /\ LET seen == awgScript.saved
           acts == {<<"confirm", n>> : n \in {m \in Pending : ConfirmItem(m, seen)}}
                   \cup {<<"expire", n>> : n \in {m \in Pending : ExpireItem(m, seen)}}
       IN awgScript' = [AwgIdle EXCEPT !.op = "reconcile", !.todo = acts]
    /\ UNCHANGED <<awgClock, members, disabled, access, staged, peers, reach,
                   enrolments, lastHandshake, awgBounds, awgHistory>>

(* A node that is gone is only written off; a disabled one cannot change.  *)
ReconcileNext ==
    /\ awgScript.op \in {"reconcile", "confirm", "expire"}
    /\ awgScript.steps = <<>>
    /\ awgScript.todo # {}
    /\ \E act \in awgScript.todo :
          LET n == act[2]
              rest == awgScript.todo \ {act}
          IN awgScript' =
               CASE act[1] = "expire" /\ members[n] = 0 ->
                        [AwgCommand("expire", n, 0, "", rest) EXCEPT !.steps = <<"complete">>]
                 [] act[1] = "confirm" /\ n \notin Enabled ->
                        [AwgIdle EXCEPT !.op = "reconcile", !.todo = rest]
                 [] OTHER -> AwgCommand(act[1], n, 0, "unrestricted", rest)
    /\ UNCHANGED <<awgClock, members, disabled, access, staged, peers, reach,
                   enrolments, lastHandshake, awgBounds, awgHistory>>
-----------------------------------------------------------------------------
(* The steps.                                                              *)

FaultStillDisabled(n) == disabled

StillDisabled(n) == disabled \ {n}

RecordNode ==
    /\ NextAwg("record")
    /\ LET n == awgScript.name
       IN CASE awgScript.op \in {"import", "enroll"} ->
                   members' = [members EXCEPT ![n] = awgScript.key] /\ UNCHANGED disabled
            [] awgScript.op \in {"remove", "expire"} ->
                   members' = [members EXCEPT ![n] = 0] /\ disabled' = StillDisabled(n)
            [] awgScript.op = "enable" -> disabled' = disabled \ {n} /\ UNCHANGED members
            [] OTHER -> disabled' = disabled \cup {n} /\ UNCHANGED members
    /\ AwgDone
    /\ UNCHANGED <<awgClock, access, staged, peers, reach, enrolments, lastHandshake,
                   awgBounds, awgHistory>>

FaultEnrolOpen == "unset"

EnrolMode == "restricted"

StagedBy(s) ==
    LET n == s.name IN
    CASE s.op \in {"import", "remove", "expire"} -> Forget(Candidate, n)
      [] s.op = "enroll" -> SetMode(Forget(Candidate, n), n, EnrolMode)
      [] s.op = "confirm" -> SetMode(Candidate, n, "unrestricted")
      [] s.op = "mode" -> SetMode(Candidate, n, s.grant)
      [] s.op = "allow" ->
             [Candidate EXCEPT !.allow = @ \cup
                 {[from |-> n, to |-> s.grant, fromKey |-> members[n],
                   toKey |-> IF s.grant = "vps" THEN 0 ELSE members[s.grant]]}]
      [] OTHER -> [Candidate EXCEPT !.allow = {a \in @ : ~(a.from = n /\ a.to = s.grant)}]

StagePolicy ==
    /\ NextAwg("stage")
    /\ staged' = StagedBy(awgScript)
    /\ AwgDone
    /\ UNCHANGED <<awgClock, members, disabled, access, peers, reach, enrolments,
                   lastHandshake, awgBounds, awgHistory>>

CommitPolicy ==
    /\ NextAwg("commit")
    /\ access' = Candidate
    /\ staged' = NoStaged
    /\ AwgDone
    /\ UNCHANGED <<awgClock, members, disabled, peers, reach, enrolments, lastHandshake,
                   awgBounds, awgHistory>>

(* awg syncconf: keys that leave the interface lose their handshakes.      *)
LinkPeers ==
    /\ NextAwg("link")
    /\ peers' = [n \in AwgNames |-> IF n \in Enabled THEN members[n] ELSE 0]
    /\ lastHandshake' = [k \in AwgKeys |-> IF \E n \in Enabled : members[n] = k
                                           THEN lastHandshake[k] ELSE 0]
    /\ AwgDone
    /\ UNCHANGED <<awgClock, members, disabled, access, staged, reach, enrolments,
                   awgBounds, awgHistory>>

(* A policy change loads its staged rules before it commits them.          *)
LoadRules ==
    /\ NextAwg("load")
    /\ reach' = ReachBy(IF Len(awgScript.steps) > 1 /\ awgScript.steps[2] = "commit"
                        THEN staged ELSE access, Enabled)
    /\ AwgDone
    /\ UNCHANGED <<awgClock, members, disabled, access, staged, peers, enrolments,
                   lastHandshake, awgBounds, awgHistory>>

StartEnrolment ==
    /\ NextAwg("start")
    /\ enrolments' = [enrolments EXCEPT ![awgScript.name] =
                          [key |-> awgScript.key, created |-> awgClock]]
    /\ awgHistory' = [awgHistory EXCEPT !.enrolled = @ \cup {awgScript.key}]
    /\ AwgDone
    /\ UNCHANGED <<awgClock, members, disabled, access, staged, peers, reach,
                   lastHandshake, awgBounds>>

CompleteEnrolment ==
    /\ NextAwg("complete")
    /\ enrolments' = [enrolments EXCEPT ![awgScript.name] = NoItem]
    /\ AwgDone
    /\ UNCHANGED <<awgClock, members, disabled, access, staged, peers, reach,
                   lastHandshake, awgBounds, awgHistory>>

AwgReturn ==
    /\ awgScript # AwgIdle /\ awgScript.op # "plan"
    /\ awgScript.steps = <<>> /\ awgScript.todo = {}
    /\ awgScript' = AwgIdle
    /\ UNCHANGED <<awgClock, members, disabled, access, staged, peers, reach,
                   enrolments, lastHandshake, awgBounds, awgHistory>>

Registering == awgScript.op \in {"import", "enroll"}

Removing == awgScript.op \in {"remove", "expire"}

Ahead(step) == \E i \in DOMAIN awgScript.steps : awgScript.steps[i] = step

FilesComeBack ==
    /\ members' = awgScript.saved.members
    /\ disabled' = awgScript.saved.disabled
    /\ access' = awgScript.saved.access
    /\ awgScript' = AwgIdle

(* A step fails.  The files come back, but the interface and the rules are  *)
(* not set again; a removal only warns once the node is off the interface,  *)
(* and a confirmation is tried again by the next timer.                     *)
AwgStepFails ==
    /\ awgScript.steps # <<>>
    /\ Head(awgScript.steps) \in {"link", "load", "start", "commit"}
    /\ SpendAwg("troubles")
    /\ \/ /\ \/ Registering /\ ~NextAwg("start")
             \/ Removing /\ Ahead("stage")
             \/ awgScript.op \in {"enable", "disable"}
          /\ FilesComeBack
          /\ staged' = IF Registering THEN NoStaged ELSE staged
          /\ UNCHANGED reach
       \/ /\ Registering /\ NextAwg("start")        \* enroll_peer removes it
          /\ awgScript' = AwgCommand("remove", awgScript.name, 0, "", {})
          /\ UNCHANGED <<members, disabled, access, staged, reach>>
       \/ /\ Removing /\ ~Ahead("stage")
          /\ staged' = NoStaged
          /\ awgScript' = [awgScript EXCEPT !.steps =
                               IF Ahead("complete") THEN <<"complete">> ELSE <<>>]
          /\ UNCHANGED <<members, disabled, access, reach>>
       \/ /\ awgScript.op = "confirm"
          /\ awgScript' = [awgScript EXCEPT !.steps = <<>>]
          /\ UNCHANGED <<members, disabled, access, staged, reach>>
       \/ /\ awgScript.op \in {"mode", "allow", "deny"}
          /\ staged' = NoStaged
          /\ reach' = ReachBy(access, Enabled)
          /\ awgScript' = AwgIdle
          /\ UNCHANGED <<members, disabled, access>>
    /\ UNCHANGED <<awgClock, peers, enrolments, lastHandshake, awgHistory>>

KillAwg ==
    /\ awgScript # AwgIdle
    /\ SpendAwg("troubles")
    /\ awgScript' = AwgIdle
    /\ awgHistory' =
         IF Registering THEN [awgHistory EXCEPT !.cutOff = @ \cup {awgScript.key}]
         ELSE IF awgScript.op \in {"remove", "expire", "disable"}
         THEN [awgHistory EXCEPT !.stranded = @ \cup {enrolments[awgScript.name].key}]
         ELSE awgHistory
    /\ UNCHANGED <<awgClock, members, disabled, access, staged, peers, reach,
                   enrolments, lastHandshake>>

(* Of a node that is being enrolled; nothing reads those of the others.    *)
Handshake ==
    /\ \E n \in AwgNames :
          /\ peers[n] # 0
          /\ \/ enrolments[n].key = peers[n]
             \/ awgScript.op = "enroll" /\ awgScript.name = n
          /\ lastHandshake' = [lastHandshake EXCEPT ![peers[n]] = awgClock]
          /\ lastHandshake[peers[n]] < awgClock
          /\ awgHistory' = [awgHistory EXCEPT !.shaken = @ \cup {peers[n]}]
    /\ UNCHANGED <<awgClock, members, disabled, access, staged, peers, reach,
                   enrolments, awgScript, awgBounds>>

(* Only enrolments look at the clock; the last ticks of the bound are left  *)
(* to those that have begun.                                               *)
TickAwg ==
    /\ awgClock < MaxAwgTime
    /\ Pending # {} \/ awgScript.op = "enroll"
    /\ awgScript.op = "enroll" => awgClock + 1 + EnrolmentTTL <= MaxAwgTime
    /\ awgClock' = awgClock + 1
    /\ UNCHANGED <<members, disabled, access, staged, peers, reach, enrolments,
                   lastHandshake, awgScript, awgBounds, awgHistory>>
-----------------------------------------------------------------------------
AwgInit ==
    /\ awgClock = 1
    /\ \E first \in AwgNames :
          members = [n \in AwgNames |-> IF n = first THEN MaxAwgKeys + 1 ELSE 0]
    /\ disabled = {}
    /\ access = OpenPolicy /\ staged = NoStaged
    /\ peers = members /\ reach = ReachBy(access, Enabled)
    /\ enrolments = [n \in AwgNames |-> NoItem]
    /\ lastHandshake = [k \in AwgKeys |-> 0]
    /\ awgScript = AwgIdle
    /\ awgBounds = [keys |-> MaxAwgKeys, changes |-> MaxAwgChanges,
                    troubles |-> MaxAwgTroubles]
    /\ awgHistory = [enrolled |-> {}, opened |-> {}, cutOff |-> {}, stranded |-> {}, shaken |-> {}]

AwgStep ==
    \/ PlanReconcile \/ ReconcileNext \/ RecordNode \/ StagePolicy \/ CommitPolicy
    \/ LinkPeers \/ LoadRules \/ StartEnrolment \/ CompleteEnrolment \/ AwgReturn

AwgNext ==
    \/ RegisterNode \/ ChangeNode \/ BeginReconcile \/ AwgStep
    \/ AwgStepFails \/ KillAwg \/ Handshake \/ TickAwg

AwgSpec == AwgInit /\ [][AwgNext]_awgVars

(* Commands run on, the timer comes back and time passes.                  *)
AwgFairSpec ==
    AwgSpec /\ WF_awgVars(AwgStep) /\ SF_awgVars(BeginReconcile) /\ WF_awgVars(TickAwg)
-----------------------------------------------------------------------------
AwgTypeOK ==
    /\ awgClock \in 1..MaxAwgTime
    /\ members \in [AwgNames -> {0} \cup AwgKeys] /\ peers \in [AwgNames -> {0} \cup AwgKeys]
    /\ disabled \subseteq {n \in AwgNames : members[n] # 0}
    /\ \A n \in AwgNames : enrolments[n].created <= awgClock
    /\ lastHandshake \in [AwgKeys -> 0..MaxAwgTime]

(* Until its first handshake an enrolled node is restricted by the active   *)
(* policy, and by one a killed command has left pending, whatever else      *)
(* happened to the nodes meanwhile; unless an administrator opened it.      *)
PendingIsRestricted ==
    \A n \in AwgNames :
        members[n] \in awgHistory.enrolled \ (awgHistory.shaken \cup awgHistory.opened)
        => \A policy \in {access} \cup ({staged} \ {NoStaged}) :
               policy.mode[n] = "restricted"

(* A permission holds between the nodes it was given to and for.            *)
GivenToThese(a) ==
    /\ members[a.from] \in {0, a.fromKey}
    /\ a.to # "vps" => members[a.to] \in {0, a.toKey}

(* A node registered under a name that was used before inherits no          *)
(* permission of its predecessor, as source or as target, even when the     *)
(* removal was killed or its clean-up failed.  A registration that was      *)
(* itself killed is left out.                                               *)
NoInheritedAccess ==
    awgScript = AwgIdle
    => \A a \in access.allow :
           \/ GivenToThese(a)
           \/ {members[a.from], IF a.to = "vps" THEN 0 ELSE members[a.to]}
              \cap awgHistory.cutOff # {}

(* Every enrolment ends: the node is confirmed, or taken off the list.  One *)
(* whose removal was killed may stay: its peer still makes handshakes, and  *)
(* the confirmation of a node that is not listed fails every time.          *)
EnrolmentEnds ==
    \A n \in AwgNames, k \in AwgKeys :
        enrolments[n].key = k
        ~> enrolments[n].key # k \/ k \in awgHistory.stranded
=============================================================================
