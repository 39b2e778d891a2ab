----------------------------- MODULE AwgProofs -----------------------------
(***************************************************************************)
(* Theorems about AmneziaWG nodes, for any names, keys, clocks, commands,  *)
(* failed steps and kills: an enrolled node is restricted until its first  *)
(* handshake, and no node inherits the permissions of a predecessor.       *)
(*                                                                         *)
(* Both hold between commands and are broken by none of their steps, but   *)
(* neither is inductive.  A command knows what it does by what is left of  *)
(* its script (AwgScriptInv) and by the node it works on (AwgNodeInv): the *)
(* timer confirms only keys that made a handshake, because an enrolled     *)
(* node that waits is listed with its key (Registered).  New keys are      *)
(* fresh (AwgKeysInv), and while a registration is under way its own key   *)
(* is excused from what the old policy says of its name (Excused), until   *)
(* the new policy, which does not name it, is active (AwgRegisterInv).     *)
(* What is pending and what may be brought back must be as good as what is *)
(* active (AwgPolicyInv, AwgSavedInv).                                     *)
(***************************************************************************)
EXTENDS AwgMembers, TLAPS

AwgOps == {"none", "plan", "reconcile", "import", "enroll", "remove", "expire", "confirm",
           "enable", "disable", "mode", "allow", "deny"}

(* A script of the manager runs, and has saved the files it may bring back. *)
AwgActs == awgScript.op \notin {"none", "plan", "reconcile"}

(* The step that is next, none when a command is at its end.                *)
NextOf(left) == IF left = <<>> THEN "" ELSE Head(left)

AwgNow == NextOf(awgScript.steps)

(* The steps that may be left of every command.                            *)
ImportRest ==
    {<<"record", "stage", "commit", "link", "load">>, <<"stage", "commit", "link", "load">>,
     <<"commit", "link", "load">>, <<"link", "load">>, <<"load">>, <<>>}

EnrollRest ==
    {<<"record", "stage", "commit", "link", "load", "start">>,
     <<"stage", "commit", "link", "load", "start">>, <<"commit", "link", "load", "start">>,
     <<"link", "load", "start">>, <<"load", "start">>, <<"start">>, <<>>}

(* The node may still be put back.                                         *)
RemoveReturns ==
    {<<"record", "link", "load", "stage", "commit", "load">>,
     <<"link", "load", "stage", "commit", "load">>, <<"load", "stage", "commit", "load">>,
     <<"stage", "commit", "load">>}

RemoveRest == {<<"commit", "load">>, <<"load">>, <<>>}

ExpireReturns ==
    {<<"record", "link", "load", "stage", "commit", "load", "complete">>,
     <<"link", "load", "stage", "commit", "load", "complete">>,
     <<"load", "stage", "commit", "load", "complete">>,
     <<"stage", "commit", "load", "complete">>}

ExpireRest == {<<"commit", "load", "complete">>, <<"load", "complete">>, <<"complete">>, <<>>}

ConfirmRest ==
    {<<"stage", "commit", "link", "load", "complete">>, <<"commit", "link", "load", "complete">>,
     <<"link", "load", "complete">>, <<"load", "complete">>, <<"complete">>, <<>>}

SwitchRest == {<<"record", "link", "load">>, <<"link", "load">>, <<"load">>, <<>>}

PolicyRest == {<<"stage", "load", "commit">>, <<"load", "commit">>, <<"commit">>, <<>>}

AwgReturns == RemoveReturns \cup ExpireReturns

LeftOf(op, left) ==
    /\ op \in {"none", "plan", "reconcile"} => left = <<>>
    /\ op = "import" => left \in ImportRest
    /\ op = "enroll" => left \in EnrollRest
    /\ op = "remove" => left \in RemoveReturns \cup RemoveRest
    /\ op = "expire" => left \in ExpireReturns \cup ExpireRest
    /\ op = "confirm" => left \in ConfirmRest
    /\ op \in {"enable", "disable"} => left \in SwitchRest
    /\ op \in {"mode", "allow", "deny"} => left \in PolicyRest

(* What a failed step of a removal or of a switch brings back.              *)
MayReturn ==
    \/ awgScript.op \in {"enable", "disable"}
    \/ Removing /\ awgScript.steps \in AwgReturns

(* Enrolled, without a handshake, and not opened by an administrator.       *)
Waiting == awgHistory.enrolled \ (awgHistory.shaken \cup awgHistory.opened)

Restricts(M, policy) ==
    \A n \in AwgNames : M[n] \in Waiting => policy.mode[n] = "restricted"

(* A node that waits has its enrolment.                                    *)
Registered(M) == \A n \in AwgNames : M[n] \in Waiting => enrolments[n].key = M[n]

(* Every permission is for the nodes it was given to, or for one whose key  *)
(* is excused.                                                             *)
Rightful(M, policy, excused) ==
    \A a \in policy.allow :
        /\ M[a.from] \in {0, a.fromKey} \cup excused
        /\ a.to # "vps" => M[a.to] \in {0, a.toKey} \cup excused

(* The key that is being registered is excused until the old policy is gone. *)
Excused == awgHistory.cutOff \cup (IF Registering THEN {awgScript.key} ELSE {})

Unnamed(policy, n) == \A a \in policy.allow : a.from # n /\ a.to # n

AwgPolicies ==
    [mode : [AwgNames -> {"unset", "restricted", "unrestricted"}],
     allow : SUBSET [from : AwgNames, to : AwgNames \cup {"vps"},
                     fromKey : {0} \cup AwgKeys, toKey : {0} \cup AwgKeys]]

NodeLists == [AwgNames -> {0} \cup AwgKeys]

AwgShape ==
    /\ awgClock \in 1..MaxAwgTime
    /\ members \in NodeLists /\ peers \in NodeLists
    /\ disabled \subseteq {n \in AwgNames : members[n] # 0}
    /\ access \in AwgPolicies /\ (staged # NoStaged => staged \in AwgPolicies)
    /\ enrolments \in [AwgNames -> [key : {0} \cup AwgKeys, created : Nat]]
    /\ \A n \in AwgNames : enrolments[n].created <= awgClock
    /\ \A n \in AwgNames : enrolments[n] # NoItem => enrolments[n].created > 0
    /\ lastHandshake \in [AwgKeys -> 0..MaxAwgTime]
    /\ \A k \in AwgKeys : lastHandshake[k] > 0 => k \in awgHistory.shaken
    /\ awgBounds \in [keys : Nat, changes : Nat, troubles : Nat]
    /\ awgBounds.keys <= MaxAwgKeys
    /\ awgHistory.enrolled \subseteq AwgKeys
    /\ awgHistory = [enrolled |-> awgHistory.enrolled, opened |-> awgHistory.opened,
                     cutOff |-> awgHistory.cutOff, stranded |-> awgHistory.stranded,
                     shaken |-> awgHistory.shaken]

AwgScriptInv ==
    LET s == awgScript
    IN /\ s = [op |-> s.op, name |-> s.name, key |-> s.key, grant |-> s.grant,
               steps |-> s.steps, todo |-> s.todo, saved |-> s.saved]
       /\ s.op \in AwgOps /\ LeftOf(s.op, s.steps)
       /\ AwgActs => s.name \in AwgNames
       /\ s.op = "mode" => s.grant \in {"restricted", "unrestricted"}
       /\ s.op \in {"allow", "deny"} => s.grant \in AwgNames \cup {"vps"}
       /\ s.todo \subseteq {"confirm", "expire"} \X AwgNames
       /\ s.op \notin {"reconcile", "confirm", "expire"} => s.todo = {}
       /\ s.op = "plan" => \A k \in AwgKeys : s.saved[k] > 0 => k \in awgHistory.shaken
       /\ s.op = "plan" => s.saved \in [AwgKeys -> Nat]

(* Keys are given out downwards, each once.                                *)
AwgKeysInv ==
    LET s == awgScript
        Given(M) == \A n \in AwgNames : M[n] = 0 \/ M[n] > awgBounds.keys
    IN /\ Given(members) /\ (AwgActs => Given(s.saved.members))
       /\ \A k \in awgHistory.enrolled : k > awgBounds.keys
       /\ Registering =>
             /\ s.key = awgBounds.keys + 1 /\ s.key \in AwgKeys
             /\ AwgNow # "" => s.key \notin awgHistory.enrolled
             /\ \A n \in AwgNames : s.saved.members[n] # s.key
             /\ \A n \in AwgNames \ {s.name} : members[n] # s.key
             /\ members[s.name] = IF AwgNow = "record" THEN 0 ELSE s.key

(* The node a command works on.                                            *)
AwgNodeInv ==
    LET n == awgScript.name
    IN /\ Removing /\ AwgNow # "record" => members[n] = 0
       /\ awgScript.op = "disable" => members[n] # 0
       /\ awgScript.op = "confirm" => members[n] \notin Waiting
       /\ awgScript.op = "mode" /\ awgScript.grant = "unrestricted" => members[n] \notin Waiting
       /\ \A m \in AwgNames : <<"confirm", m>> \in awgScript.todo => members[m] \notin Waiting

(* Both policies, now and after what may be brought back.                  *)
AwgPolicyInv ==
    /\ Registered(members)
    /\ Restricts(members, access) /\ (staged # NoStaged => Restricts(members, staged))
    /\ Rightful(members, access, Excused) /\ Rightful(members, staged, Excused)

AwgSavedInv ==
    LET old == awgScript.saved
    IN /\ AwgActs => /\ old.members \in NodeLists /\ old.access \in AwgPolicies
                     /\ old.disabled \subseteq {n \in AwgNames : old.members[n] # 0}
       /\ MayReturn \/ (Registering /\ AwgNow # "") =>
             /\ Registered(old.members) /\ Restricts(old.members, old.access)
             /\ Rightful(old.members, old.access, awgHistory.cutOff)
       /\ MayReturn =>
             /\ staged # NoStaged => Restricts(old.members, staged)
             /\ Rightful(old.members, staged, awgHistory.cutOff)

(* What a registration has done to the policies so far.                    *)
AwgRegisterInv ==
    LET n == awgScript.name
    IN /\ Registering /\ AwgNow = "commit" => staged # NoStaged /\ Unnamed(staged, n)
       /\ Registering /\ AwgNow \in {"link", "load", "start", ""} =>
             staged = NoStaged /\ Unnamed(access, n)
       /\ awgScript.op = "enroll" /\ AwgNow = "commit" => staged.mode[n] = "restricted"
       /\ awgScript.op = "enroll" /\ AwgNow \in {"link", "load", "start"} =>
             access.mode[n] = "restricted"

AwgInv ==
    /\ AwgShape /\ AwgScriptInv /\ AwgKeysInv /\ AwgNodeInv /\ AwgPolicyInv /\ AwgSavedInv
    /\ AwgRegisterInv

(* The scripts, literally: what comes next and what is left after it.       *)
LEMMA AwgTails1 ==
    /\ <<"commit">> # <<>> /\ NextOf(<<"commit">>) = "commit"
    /\ Tail(<<"commit">>) = <<>>
    /\ <<"complete">> # <<>> /\ NextOf(<<"complete">>) = "complete"
    /\ Tail(<<"complete">>) = <<>>
    /\ <<"load">> # <<>> /\ NextOf(<<"load">>) = "load"
    /\ Tail(<<"load">>) = <<>>
    /\ <<"start">> # <<>> /\ NextOf(<<"start">>) = "start"
    /\ Tail(<<"start">>) = <<>>
BY DEF NextOf

(* The same of the next scripts.                                            *)
LEMMA AwgTails2 ==
    /\ <<"commit", "load">> # <<>> /\ NextOf(<<"commit", "load">>) = "commit"
    /\ Tail(<<"commit", "load">>) = <<"load">>
    /\ <<"link", "load">> # <<>> /\ NextOf(<<"link", "load">>) = "link"
    /\ Tail(<<"link", "load">>) = <<"load">>
    /\ <<"load", "commit">> # <<>> /\ NextOf(<<"load", "commit">>) = "load"
    /\ Tail(<<"load", "commit">>) = <<"commit">>
    /\ <<"load", "complete">> # <<>> /\ NextOf(<<"load", "complete">>) = "load"
    /\ Tail(<<"load", "complete">>) = <<"complete">>
BY DEF NextOf

(* The same of the next scripts.                                            *)
LEMMA AwgTails3 ==
    /\ <<"load", "start">> # <<>> /\ NextOf(<<"load", "start">>) = "load"
    /\ Tail(<<"load", "start">>) = <<"start">>
    /\ <<"commit", "link", "load">> # <<>>
    /\ NextOf(<<"commit", "link", "load">>) = "commit"
    /\ Tail(<<"commit", "link", "load">>) = <<"link", "load">>
    /\ <<"commit", "load", "complete">> # <<>>
    /\ NextOf(<<"commit", "load", "complete">>) = "commit"
    /\ Tail(<<"commit", "load", "complete">>) = <<"load", "complete">>
    /\ <<"link", "load", "complete">> # <<>>
    /\ NextOf(<<"link", "load", "complete">>) = "link"
    /\ Tail(<<"link", "load", "complete">>) = <<"load", "complete">>
BY DEF NextOf

(* The same of the next scripts.                                            *)
LEMMA AwgTails4 ==
    /\ <<"link", "load", "start">> # <<>> /\ NextOf(<<"link", "load", "start">>) = "link"
    /\ Tail(<<"link", "load", "start">>) = <<"load", "start">>
    /\ <<"record", "link", "load">> # <<>>
    /\ NextOf(<<"record", "link", "load">>) = "record"
    /\ Tail(<<"record", "link", "load">>) = <<"link", "load">>
    /\ <<"stage", "commit", "load">> # <<>>
    /\ NextOf(<<"stage", "commit", "load">>) = "stage"
    /\ Tail(<<"stage", "commit", "load">>) = <<"commit", "load">>
    /\ <<"stage", "load", "commit">> # <<>>
    /\ NextOf(<<"stage", "load", "commit">>) = "stage"
    /\ Tail(<<"stage", "load", "commit">>) = <<"load", "commit">>
BY DEF NextOf

(* The same of the next scripts.                                            *)
LEMMA AwgTails5 ==
    /\ <<"commit", "link", "load", "complete">> # <<>>
    /\ NextOf(<<"commit", "link", "load", "complete">>) = "commit"
    /\ Tail(<<"commit", "link", "load", "complete">>) = <<"link", "load", "complete">>
    /\ <<"commit", "link", "load", "start">> # <<>>
    /\ NextOf(<<"commit", "link", "load", "start">>) = "commit"
    /\ Tail(<<"commit", "link", "load", "start">>) = <<"link", "load", "start">>
    /\ <<"load", "stage", "commit", "load">> # <<>>
    /\ NextOf(<<"load", "stage", "commit", "load">>) = "load"
    /\ Tail(<<"load", "stage", "commit", "load">>) = <<"stage", "commit", "load">>
    /\ <<"stage", "commit", "link", "load">> # <<>>
    /\ NextOf(<<"stage", "commit", "link", "load">>) = "stage"
    /\ Tail(<<"stage", "commit", "link", "load">>) = <<"commit", "link", "load">>
BY DEF NextOf

(* The same of the next scripts.                                            *)
LEMMA AwgTails6 ==
    /\ <<"stage", "commit", "load", "complete">> # <<>>
    /\ NextOf(<<"stage", "commit", "load", "complete">>) = "stage"
    /\ Tail(<<"stage", "commit", "load", "complete">>) = <<"commit", "load", "complete">>
    /\ <<"link", "load", "stage", "commit", "load">> # <<>>
    /\ NextOf(<<"link", "load", "stage", "commit", "load">>) = "link"
    /\ Tail(<<"link", "load", "stage", "commit", "load">>)
       = <<"load", "stage", "commit", "load">>
    /\ <<"load", "stage", "commit", "load", "complete">> # <<>>
    /\ NextOf(<<"load", "stage", "commit", "load", "complete">>) = "load"
    /\ Tail(<<"load", "stage", "commit", "load", "complete">>)
       = <<"stage", "commit", "load", "complete">>
    /\ <<"record", "stage", "commit", "link", "load">> # <<>>
    /\ NextOf(<<"record", "stage", "commit", "link", "load">>) = "record"
    /\ Tail(<<"record", "stage", "commit", "link", "load">>)
       = <<"stage", "commit", "link", "load">>
BY DEF NextOf

(* The same of the next scripts.                                            *)
LEMMA AwgTails7 ==
    /\ <<"stage", "commit", "link", "load", "complete">> # <<>>
    /\ NextOf(<<"stage", "commit", "link", "load", "complete">>) = "stage"
    /\ Tail(<<"stage", "commit", "link", "load", "complete">>)
       = <<"commit", "link", "load", "complete">>
    /\ <<"stage", "commit", "link", "load", "start">> # <<>>
    /\ NextOf(<<"stage", "commit", "link", "load", "start">>) = "stage"
    /\ Tail(<<"stage", "commit", "link", "load", "start">>)
       = <<"commit", "link", "load", "start">>
    /\ <<"link", "load", "stage", "commit", "load", "complete">> # <<>>
    /\ NextOf(<<"link", "load", "stage", "commit", "load", "complete">>) = "link"
    /\ Tail(<<"link", "load", "stage", "commit", "load", "complete">>)
       = <<"load", "stage", "commit", "load", "complete">>
    /\ <<"record", "link", "load", "stage", "commit", "load">> # <<>>
    /\ NextOf(<<"record", "link", "load", "stage", "commit", "load">>) = "record"
    /\ Tail(<<"record", "link", "load", "stage", "commit", "load">>)
       = <<"link", "load", "stage", "commit", "load">>
BY DEF NextOf

(* The same of the next scripts.                                            *)
LEMMA AwgTails8 ==
    /\ <<"record", "stage", "commit", "link", "load", "start">> # <<>>
    /\ NextOf(<<"record", "stage", "commit", "link", "load", "start">>) = "record"
    /\ Tail(<<"record", "stage", "commit", "link", "load", "start">>)
       = <<"stage", "commit", "link", "load", "start">>
    /\ <<"record", "link", "load", "stage", "commit", "load", "complete">> # <<>>
    /\ NextOf(<<"record", "link", "load", "stage", "commit", "load", "complete">>) = "record"
    /\ Tail(<<"record", "link", "load", "stage", "commit", "load", "complete">>)
       = <<"link", "load", "stage", "commit", "load", "complete">>
BY DEF NextOf

(* Scripts that follow one another, step by step.                          *)
LEMMA ScriptsJoined ==
    ASSUME NEW S, NEW s \in Seq(S), NEW t \in Seq(S)
    PROVE  /\ s \o t \in Seq(S) /\ Len(s \o t) = Len(s) + Len(t)
           /\ \A i \in 1..Len(s) + Len(t) :
                 (s \o t)[i] = IF i <= Len(s) THEN s[i] ELSE t[i - Len(s)]
OBVIOUS

(* The script of an expiry, literally.                                     *)
LEMMA ExpiryScript ==
    RemovalSteps \o <<"complete">> =
        <<"record", "link", "load", "stage", "commit", "load", "complete">>
<1> DEFINE S == {"record", "link", "load", "stage", "commit", "complete"}
           R == RemovalSteps
           E == <<"complete">>
           A == <<"record", "link", "load", "stage", "commit", "load", "complete">>
           B == R \o E
<1>1. R \in Seq(S) /\ Len(R) = 6
  BY DEF RemovalSteps
<1>2. E \in Seq(S) /\ Len(E) = 1
  OBVIOUS
<1>3. A \in Seq(S) /\ Len(A) = 7
  OBVIOUS
<1> HIDE DEF S, E, A, R
<1>4. B \in Seq(S) /\ Len(B) = Len(R) + Len(E)
  BY <1>1, <1>2, ScriptsJoined
<1>5. \A i \in 1..Len(R) + Len(E) : B[i] = IF i <= Len(R) THEN R[i] ELSE E[i - Len(R)]
  BY <1>1, <1>2, ScriptsJoined
<1> HIDE DEF B
<1>6. Len(B) = 7 /\ \A i \in 1..7 : B[i] = IF i <= 6 THEN R[i] ELSE E[i - 6]
  BY <1>1, <1>2, <1>4, <1>5
<1>7. \A i \in 1..7 : A[i] = B[i]
  BY <1>6 DEF A, E, R, RemovalSteps
<1>8. A = B
  BY <1>3, <1>4, <1>6, <1>7
<1> QED  BY <1>8 DEF A, B, E, R

(* What is left of a registration, and its next step.                      *)
LEMMA RegisterLeft ==
    ASSUME NEW s, s \in ImportRest \cup EnrollRest, s # <<>>
    PROVE  /\ s \in ImportRest => Tail(s) \in ImportRest /\ NextOf(s) # "start"
           /\ s \in EnrollRest => Tail(s) \in EnrollRest
           /\ \/ NextOf(s) = "record" /\ NextOf(Tail(s)) = "stage"
              \/ NextOf(s) = "stage" /\ NextOf(Tail(s)) = "commit"
              \/ NextOf(s) = "commit" /\ NextOf(Tail(s)) = "link"
              \/ NextOf(s) = "link" /\ NextOf(Tail(s)) = "load"
              \/ NextOf(s) = "load" /\ NextOf(Tail(s)) \in {"start", ""}
              \/ NextOf(s) = "start" /\ NextOf(Tail(s)) = ""
<1>0. NextOf(<<>>) = ""
  BY DEF NextOf
<1>1. CASE s = <<"record", "stage", "commit", "link", "load">>
  BY <1>0, <1>1, AwgTails6, AwgTails5 DEF ImportRest, EnrollRest
<1>2. CASE s = <<"stage", "commit", "link", "load">>
  BY <1>0, <1>2, AwgTails5, AwgTails3 DEF ImportRest, EnrollRest
<1>3. CASE s = <<"commit", "link", "load">>
  BY <1>0, <1>3, AwgTails3, AwgTails2 DEF ImportRest, EnrollRest
<1>4. CASE s = <<"link", "load">>
  BY <1>0, <1>4, AwgTails2, AwgTails1 DEF ImportRest, EnrollRest
<1>5. CASE s = <<"load">>
  BY <1>0, <1>5, AwgTails1 DEF ImportRest, EnrollRest
<1>6. CASE s = <<"record", "stage", "commit", "link", "load", "start">>
  BY <1>0, <1>6, AwgTails8, AwgTails7 DEF ImportRest, EnrollRest
<1>7. CASE s = <<"stage", "commit", "link", "load", "start">>
  BY <1>0, <1>7, AwgTails7, AwgTails5 DEF ImportRest, EnrollRest
<1>8. CASE s = <<"commit", "link", "load", "start">>
  BY <1>0, <1>8, AwgTails5, AwgTails4 DEF ImportRest, EnrollRest
<1>9. CASE s = <<"link", "load", "start">>
  BY <1>0, <1>9, AwgTails4, AwgTails3 DEF ImportRest, EnrollRest
<1>10. CASE s = <<"load", "start">>
  BY <1>0, <1>10, AwgTails3, AwgTails1 DEF ImportRest, EnrollRest
<1>11. CASE s = <<"start">>
  BY <1>0, <1>11, AwgTails1 DEF ImportRest, EnrollRest
<1> QED  BY <1>1, <1>2, <1>3, <1>4, <1>5, <1>6, <1>7, <1>8, <1>9, <1>10,
            <1>11 DEF ImportRest, EnrollRest

(* What is left of a removal; it can be taken back until it is staged.      *)
LEMMA RemoveLeft ==
    ASSUME NEW s, s \in RemoveReturns \cup RemoveRest, s # <<>>
    PROVE  /\ Tail(s) \in RemoveReturns \cup RemoveRest
           /\ NextOf(s) \in {"record", "stage"} => s \in RemoveReturns
           /\ NextOf(s) = "stage" => Tail(s) \in RemoveRest
           /\ NextOf(s) \in {"commit", "complete"} => s \in RemoveRest
           /\ s \in RemoveRest => Tail(s) \in RemoveRest
           /\ NextOf(Tail(s)) # "record"
           /\ NextOf(s) \in {"record", "link", "load", "stage", "commit"}
<1>0. NextOf(<<>>) = ""
  BY DEF NextOf
<1>1. CASE s = <<"record", "link", "load", "stage", "commit", "load">>
  BY <1>0, <1>1, AwgTails7, AwgTails6 DEF RemoveReturns, RemoveRest
<1>2. CASE s = <<"link", "load", "stage", "commit", "load">>
  BY <1>0, <1>2, AwgTails6, AwgTails5 DEF RemoveReturns, RemoveRest
<1>3. CASE s = <<"load", "stage", "commit", "load">>
  BY <1>0, <1>3, AwgTails5, AwgTails4 DEF RemoveReturns, RemoveRest
<1>4. CASE s = <<"stage", "commit", "load">>
  BY <1>0, <1>4, AwgTails4, AwgTails2 DEF RemoveReturns, RemoveRest
<1>5. CASE s = <<"commit", "load">>
  BY <1>0, <1>5, AwgTails2, AwgTails1 DEF RemoveReturns, RemoveRest
<1>6. CASE s = <<"load">>
  BY <1>0, <1>6, AwgTails1 DEF RemoveReturns, RemoveRest
<1> QED  BY <1>1, <1>2, <1>3, <1>4, <1>5, <1>6 DEF RemoveReturns, RemoveRest

(* What is left of an expiry.                                              *)
LEMMA ExpireLeft ==
    ASSUME NEW s, s \in ExpireReturns \cup ExpireRest, s # <<>>
    PROVE  /\ Tail(s) \in ExpireReturns \cup ExpireRest
           /\ NextOf(s) \in {"record", "stage"} => s \in ExpireReturns
           /\ NextOf(s) = "stage" => Tail(s) \in ExpireRest
           /\ NextOf(s) \in {"commit", "complete"} => s \in ExpireRest
           /\ s \in ExpireRest => Tail(s) \in ExpireRest
           /\ NextOf(Tail(s)) # "record"
           /\ NextOf(s) \in {"record", "link", "load", "stage", "commit", "complete"}
<1>0. NextOf(<<>>) = ""
  BY DEF NextOf
<1>1. CASE s = <<"record", "link", "load", "stage", "commit", "load", "complete">>
  BY <1>0, <1>1, AwgTails8, AwgTails7 DEF ExpireReturns, ExpireRest
<1>2. CASE s = <<"link", "load", "stage", "commit", "load", "complete">>
  BY <1>0, <1>2, AwgTails7, AwgTails6 DEF ExpireReturns, ExpireRest
<1>3. CASE s = <<"load", "stage", "commit", "load", "complete">>
  BY <1>0, <1>3, AwgTails6 DEF ExpireReturns, ExpireRest
<1>4. CASE s = <<"stage", "commit", "load", "complete">>
  BY <1>0, <1>4, AwgTails6, AwgTails3 DEF ExpireReturns, ExpireRest
<1>5. CASE s = <<"commit", "load", "complete">>
  BY <1>0, <1>5, AwgTails3, AwgTails2 DEF ExpireReturns, ExpireRest
<1>6. CASE s = <<"load", "complete">>
  BY <1>0, <1>6, AwgTails2, AwgTails1 DEF ExpireReturns, ExpireRest
<1>7. CASE s = <<"complete">>
  BY <1>0, <1>7, AwgTails1 DEF ExpireReturns, ExpireRest
<1> QED  BY <1>1, <1>2, <1>3, <1>4, <1>5, <1>6, <1>7 DEF ExpireReturns, ExpireRest

(* What is left of a confirmation.                                        *)
LEMMA ConfirmLeft ==
    ASSUME NEW s, s \in ConfirmRest, s # <<>>
    PROVE  /\ Tail(s) \in ConfirmRest
           /\ NextOf(s) \in {"stage", "commit", "link", "load", "complete"}
<1>0. NextOf(<<>>) = ""
  BY DEF NextOf
<1>1. CASE s = <<"stage", "commit", "link", "load", "complete">>
  BY <1>0, <1>1, AwgTails7, AwgTails5 DEF ConfirmRest
<1>2. CASE s = <<"commit", "link", "load", "complete">>
  BY <1>0, <1>2, AwgTails5, AwgTails3 DEF ConfirmRest
<1>3. CASE s = <<"link", "load", "complete">>
  BY <1>0, <1>3, AwgTails3, AwgTails2 DEF ConfirmRest
<1>4. CASE s = <<"load", "complete">>
  BY <1>0, <1>4, AwgTails2, AwgTails1 DEF ConfirmRest
<1>5. CASE s = <<"complete">>
  BY <1>0, <1>5, AwgTails1 DEF ConfirmRest
<1> QED  BY <1>1, <1>2, <1>3, <1>4, <1>5 DEF ConfirmRest

(* What is left of enabling and disabling a node.                          *)
LEMMA SwitchLeft ==
    ASSUME NEW s, s \in SwitchRest, s # <<>>
    PROVE  /\ Tail(s) \in SwitchRest
           /\ NextOf(s) \in {"record", "link", "load"}
<1>0. NextOf(<<>>) = ""
  BY DEF NextOf
<1>1. CASE s = <<"record", "link", "load">>
  BY <1>0, <1>1, AwgTails4, AwgTails2 DEF SwitchRest
<1>2. CASE s = <<"link", "load">>
  BY <1>0, <1>2, AwgTails2, AwgTails1 DEF SwitchRest
<1>3. CASE s = <<"load">>
  BY <1>0, <1>3, AwgTails1 DEF SwitchRest
<1> QED  BY <1>1, <1>2, <1>3 DEF SwitchRest

(* What is left of a change of permissions.                                *)
LEMMA PolicyLeft ==
    ASSUME NEW s, s \in PolicyRest, s # <<>>
    PROVE  /\ Tail(s) \in PolicyRest
           /\ NextOf(s) \in {"stage", "load", "commit"}
<1>0. NextOf(<<>>) = ""
  BY DEF NextOf
<1>1. CASE s = <<"stage", "load", "commit">>
  BY <1>0, <1>1, AwgTails4, AwgTails2 DEF PolicyRest
<1>2. CASE s = <<"load", "commit">>
  BY <1>0, <1>2, AwgTails2, AwgTails1 DEF PolicyRest
<1>3. CASE s = <<"commit">>
  BY <1>0, <1>3, AwgTails1 DEF PolicyRest
<1> QED  BY <1>1, <1>2, <1>3 DEF PolicyRest

(* A script that can be taken back is none that cannot.                     *)
LEMMA RestsApart ==
    ASSUME NEW s, s \in AwgReturns
    PROVE  s \notin RemoveRest /\ s \notin ExpireRest
<1>1. s # <<>> /\ s # <<"load">> /\ s # <<"commit", "load">> /\ s # <<"complete">>
  BY DEF AwgReturns, RemoveReturns, ExpireReturns
<1>2. s # <<"load", "complete">> /\ s # <<"commit", "load", "complete">>
  BY DEF AwgReturns, RemoveReturns, ExpireReturns
<1> QED  BY <1>1, <1>2 DEF RemoveRest, ExpireRest

(* Which scripts have their staging, or the end of an enrolment, before     *)
(* them.                                                                   *)
LEMMA ReturnsAhead ==
    /\ awgScript.steps \in AwgReturns => Ahead("stage")
    /\ awgScript.steps \in RemoveRest \cup ExpireRest => ~Ahead("stage")
    /\ awgScript.steps \in RemoveRest => ~Ahead("complete")
<1>1. ASSUME awgScript.steps \in RemoveReturns PROVE Ahead("stage")
  <2>1. awgScript.steps[4] = "stage" \/ awgScript.steps[3] = "stage"
        \/ awgScript.steps[2] = "stage" \/ awgScript.steps[1] = "stage"
    BY <1>1 DEF RemoveReturns
  <2> QED  BY <1>1, <2>1 DEF RemoveReturns, Ahead
<1>2. ASSUME awgScript.steps \in ExpireReturns PROVE Ahead("stage")
  BY <1>2 DEF ExpireReturns, Ahead
<1>3. awgScript.steps \in RemoveRest => ~Ahead("stage") /\ ~Ahead("complete")
  BY DEF RemoveRest, Ahead
<1>4. awgScript.steps \in ExpireRest => ~Ahead("stage")
  BY DEF ExpireRest, Ahead
<1> QED  BY <1>1, <1>2, <1>3, <1>4 DEF AwgReturns

(* What a command has still to do, by the step that is next.                *)
LEMMA AwgLeft ==
    ASSUME AwgScriptInv, awgScript.steps # <<>>
    PROVE  /\ AwgActs /\ awgScript.op \in AwgOps \ {"none", "plan", "reconcile"}
           /\ Registering => awgScript.steps \in ImportRest \cup EnrollRest
           /\ AwgNow = "record" =>
                 awgScript.op \in {"import", "enroll", "remove", "expire", "enable", "disable"}
           /\ AwgNow \in {"stage", "commit"} => awgScript.op \notin {"enable", "disable"}
           /\ AwgNow = "start" => awgScript.op = "enroll"
           /\ AwgNow = "complete" => awgScript.op \in {"expire", "confirm"}
           /\ Removing /\ AwgNow \in {"record", "stage"} => MayReturn
           /\ Removing /\ AwgNow \in {"commit", "complete"} => ~MayReturn
<1>1. awgScript.op \in AwgOps /\ LeftOf(awgScript.op, awgScript.steps)
  BY DEF AwgScriptInv
<1>2. AwgActs
  BY <1>1 DEF LeftOf, AwgActs
<1>3. CASE Registering
  BY <1>1, <1>2, <1>3, RegisterLeft DEF Registering, Removing, AwgNow, AwgActs, LeftOf
<1>4. CASE awgScript.op = "remove"
  BY <1>1, <1>2, <1>4, RemoveLeft, ReturnsAhead
     DEF Registering, Removing, AwgNow, AwgActs, LeftOf, MayReturn, AwgReturns
<1>5. CASE awgScript.op = "expire"
  BY <1>1, <1>2, <1>5, ExpireLeft, ReturnsAhead
     DEF Registering, Removing, AwgNow, AwgActs, LeftOf, MayReturn, AwgReturns
<1>6. CASE awgScript.op = "confirm"
  BY <1>1, <1>2, <1>6, ConfirmLeft DEF Registering, Removing, AwgNow, AwgActs, LeftOf
<1>7. CASE awgScript.op \in {"enable", "disable"}
  BY <1>1, <1>2, <1>7, SwitchLeft DEF Registering, Removing, AwgNow, AwgActs, LeftOf
<1>8. CASE awgScript.op \in {"mode", "allow", "deny"}
  BY <1>1, <1>2, <1>8, PolicyLeft DEF Registering, Removing, AwgNow, AwgActs, LeftOf
<1> QED  BY <1>1, <1>2, <1>3, <1>4, <1>5, <1>6, <1>7, <1>8 DEF AwgOps, AwgActs, Registering

(* A step that is done leaves the rest of its command.                     *)
LEMMA AwgMoves ==
    ASSUME AwgScriptInv, awgScript.steps # <<>>, AwgDone,
           awgHistory.shaken \subseteq awgHistory'.shaken
    PROVE  /\ awgScript'.op = awgScript.op /\ awgScript'.name = awgScript.name
           /\ awgScript'.key = awgScript.key /\ awgScript'.grant = awgScript.grant
           /\ awgScript'.todo = awgScript.todo /\ awgScript'.saved = awgScript.saved
           /\ AwgScriptInv'
           /\ Registering =>
                 \/ AwgNow = "record" /\ AwgNow' = "stage"
                 \/ AwgNow = "stage" /\ AwgNow' = "commit"
                 \/ AwgNow = "commit" /\ AwgNow' = "link"
                 \/ AwgNow = "link" /\ AwgNow' = "load"
                 \/ AwgNow = "load" /\ AwgNow' \in {"start", ""}
                 \/ AwgNow = "start" /\ AwgNow' = ""
           /\ MayReturn' =>
                 MayReturn /\ (AwgNow = "stage" => awgScript.op \in {"enable", "disable"})
           /\ Removing => AwgNow' # "record"
<1> DEFINE s == awgScript
           rest == Tail(s.steps)
<1>1. s = [op |-> s.op, name |-> s.name, key |-> s.key, grant |-> s.grant, steps |-> s.steps,
           todo |-> s.todo, saved |-> s.saved]
  BY DEF AwgScriptInv
<1>2. awgScript' = [op |-> s.op, name |-> s.name, key |-> s.key, grant |-> s.grant,
                    steps |-> rest, todo |-> s.todo, saved |-> s.saved]
  BY <1>1 DEF AwgDone
<1>3. /\ awgScript'.op = s.op /\ awgScript'.name = s.name /\ awgScript'.key = s.key
      /\ awgScript'.grant = s.grant /\ awgScript'.steps = rest
      /\ awgScript'.todo = s.todo /\ awgScript'.saved = s.saved
  BY <1>2
<1>4. s.op \in AwgOps /\ LeftOf(s.op, s.steps)
  BY DEF AwgScriptInv
<1>5. /\ LeftOf(s.op, rest)
      /\ Registering =>
            \/ AwgNow = "record" /\ NextOf(rest) = "stage"
            \/ AwgNow = "stage" /\ NextOf(rest) = "commit"
            \/ AwgNow = "commit" /\ NextOf(rest) = "link"
            \/ AwgNow = "link" /\ NextOf(rest) = "load"
            \/ AwgNow = "load" /\ NextOf(rest) \in {"start", ""}
            \/ AwgNow = "start" /\ NextOf(rest) = ""
      /\ Removing => NextOf(rest) # "record"
  <2>1. CASE Registering
    BY <1>4, <2>1, RegisterLeft DEF LeftOf, Registering, Removing, AwgNow
  <2>2. CASE s.op = "remove"
    BY <1>4, <2>2, RemoveLeft DEF LeftOf, Registering, Removing, AwgNow
  <2>3. CASE s.op = "expire"
    BY <1>4, <2>3, ExpireLeft DEF LeftOf, Registering, Removing, AwgNow
  <2>4. CASE s.op = "confirm"
    BY <1>4, <2>4, ConfirmLeft DEF LeftOf, Registering, Removing, AwgNow
  <2>5. CASE s.op \in {"enable", "disable"}
    BY <1>4, <2>5, SwitchLeft DEF LeftOf, Registering, Removing, AwgNow
  <2>6. CASE s.op \in {"mode", "allow", "deny"}
    BY <1>4, <2>6, PolicyLeft DEF LeftOf, Registering, Removing, AwgNow
  <2>7. s.op \notin {"none", "plan", "reconcile"}
    BY <1>4 DEF LeftOf
  <2> QED  BY <1>4, <2>1, <2>2, <2>3, <2>4, <2>5, <2>6, <2>7 DEF AwgOps, Registering
<1>6. Removing /\ rest \in AwgReturns => s.steps \in AwgReturns /\ AwgNow # "stage"
  <2>1. CASE s.op = "remove"
    <3>1. (s.steps \notin RemoveRest /\ AwgNow # "stage") \/ rest \in RemoveRest
      BY <1>4, <2>1, RemoveLeft DEF LeftOf, AwgNow
    <3>2. rest \in AwgReturns => rest \notin RemoveRest
      <4> QED  BY RestsApart
    <3> QED  BY <1>4, <2>1, <3>1, <3>2 DEF LeftOf, AwgReturns
  <2>2. CASE s.op = "expire"
    <3>1. (s.steps \notin ExpireRest /\ AwgNow # "stage") \/ rest \in ExpireRest
      BY <1>4, <2>2, ExpireLeft DEF LeftOf, AwgNow
    <3>2. rest \in AwgReturns => rest \notin ExpireRest
      <4> QED  BY RestsApart
    <3> QED  BY <1>4, <2>2, <3>1, <3>2 DEF LeftOf, AwgReturns
  <2> QED  BY <2>1, <2>2 DEF Removing
<1>7. AwgScriptInv'
  <2>1. awgScript' = [op |-> awgScript'.op, name |-> awgScript'.name, key |-> awgScript'.key,
                      grant |-> awgScript'.grant, steps |-> awgScript'.steps,
                      todo |-> awgScript'.todo, saved |-> awgScript'.saved]
    BY <1>2, <1>3
  <2> HIDE DEF s, rest
  <2> QED  BY <1>3, <1>5, <2>1 DEF AwgScriptInv, AwgActs, s
<1>8. AwgNow' = NextOf(rest)
  BY <1>3 DEF AwgNow
<1>9. MayReturn' => MayReturn /\ (AwgNow = "stage" => awgScript.op \in {"enable", "disable"})
  BY <1>3, <1>6 DEF MayReturn, Removing
<1> QED  BY <1>3, <1>5, <1>7, <1>8, <1>9

(* Waiting nodes that are still waiting, and policies that stay, need no    *)
(* more than before.                                                       *)
LEMMA PoliciesStay ==
    ASSUME AwgPolicyInv, Waiting' \subseteq Waiting, Excused \subseteq Excused',
           UNCHANGED <<members, access, staged, enrolments>>
    PROVE  AwgPolicyInv'
<1>1. Registered(members)'
  BY DEF AwgPolicyInv, Registered
<1>2. Restricts(members, access)' /\ (staged' # NoStaged => Restricts(members, staged)')
  BY DEF AwgPolicyInv, Restricts
<1>3. Rightful(members, access, Excused)' /\ Rightful(members, staged, Excused)'
  BY DEF AwgPolicyInv, Rightful
<1> QED  BY <1>1, <1>2, <1>3 DEF AwgPolicyInv

(* The files that may come back need no more than before.                   *)
LEMMA SavedStay ==
    ASSUME AwgSavedInv, Waiting' \subseteq Waiting,
           awgHistory.cutOff \subseteq awgHistory'.cutOff,
           AwgActs' => AwgActs /\ awgScript'.saved = awgScript.saved,
           MayReturn' => MayReturn /\ staged' = staged,
           Registering' => Registering /\ (AwgNow' # "" => AwgNow # ""),
           enrolments' # enrolments => ~MayReturn' /\ (Registering' => AwgNow' = "")
    PROVE  AwgSavedInv'
<1>0. MayReturn' \/ Registering' => AwgActs'
  BY DEF MayReturn, Registering, Removing, AwgActs
<1>1. AwgActs' => /\ awgScript'.saved.members \in NodeLists
                  /\ awgScript'.saved.access \in AwgPolicies
                  /\ awgScript'.saved.disabled
                        \subseteq {n \in AwgNames : awgScript'.saved.members[n] # 0}
  BY DEF AwgSavedInv
<1>2. ASSUME MayReturn' \/ (Registering' /\ AwgNow' # "")
      PROVE  /\ Registered(awgScript.saved.members)'
             /\ Restricts(awgScript.saved.members, awgScript.saved.access)'
             /\ Rightful(awgScript.saved.members, awgScript.saved.access, awgHistory.cutOff)'
  <2>1. /\ Registered(awgScript.saved.members)
        /\ Restricts(awgScript.saved.members, awgScript.saved.access)
        /\ Rightful(awgScript.saved.members, awgScript.saved.access, awgHistory.cutOff)
        /\ awgScript'.saved = awgScript.saved
        /\ enrolments' = enrolments
    BY <1>0, <1>2 DEF AwgSavedInv
  <2> QED  BY <2>1 DEF Registered, Restricts, Rightful
<1>3. ASSUME MayReturn'
      PROVE  /\ staged' # NoStaged => Restricts(awgScript.saved.members, staged)'
             /\ Rightful(awgScript.saved.members, staged, awgHistory.cutOff)'
  <2>1. /\ staged # NoStaged => Restricts(awgScript.saved.members, staged)
        /\ Rightful(awgScript.saved.members, staged, awgHistory.cutOff)
        /\ awgScript'.saved = awgScript.saved /\ staged' = staged
    BY <1>0, <1>3 DEF AwgSavedInv
  <2> QED  BY <2>1 DEF Restricts, Rightful
<1> QED  BY <1>1, <1>2, <1>3 DEF AwgSavedInv

(* The interface and the rules follow the files and change none of them.   *)
LEMMA HostSteps ==
    ASSUME AwgInv, LinkPeers \/ LoadRules
    PROVE  AwgInv'
<1>0. /\ AwgShape /\ AwgScriptInv /\ AwgKeysInv /\ AwgNodeInv /\ AwgPolicyInv /\ AwgSavedInv
      /\ AwgRegisterInv
  BY DEF AwgInv
<1>1. /\ awgScript.steps # <<>> /\ AwgNow \in {"link", "load"} /\ AwgDone
      /\ UNCHANGED <<awgClock, members, disabled, access, staged, enrolments, awgBounds,
                     awgHistory>>
  BY DEF LinkPeers, LoadRules, NextAwg, AwgNow, NextOf
<1>2. /\ awgScript'.op = awgScript.op /\ awgScript'.name = awgScript.name
      /\ awgScript'.key = awgScript.key /\ awgScript'.grant = awgScript.grant
      /\ awgScript'.todo = awgScript.todo /\ awgScript'.saved = awgScript.saved
      /\ AwgScriptInv'
      /\ Registering => AwgNow \in {"link", "load"} /\ AwgNow' \in {"load", "start", ""}
      /\ MayReturn' => MayReturn
      /\ Removing => AwgNow' # "record"
      /\ AwgActs /\ AwgActs'
  BY <1>0, <1>1, AwgMoves, AwgLeft DEF AwgActs
<1>3. AwgShape'
  <2>1. peers' \in NodeLists /\ lastHandshake' \in [AwgKeys -> 0..MaxAwgTime]
        /\ \A k \in AwgKeys : lastHandshake'[k] > 0 => k \in awgHistory.shaken
    <3>1. CASE LinkPeers
      <4>1. members \in NodeLists
        BY <1>0 DEF AwgShape
      <4>2. peers' \in NodeLists
        BY <3>1, <4>1 DEF LinkPeers, NodeLists
      <4>3. 0 \in 0..MaxAwgTime
        BY AwgAssumption
      <4>4. lastHandshake' \in [AwgKeys -> 0..MaxAwgTime]
        BY <1>0, <3>1, <4>3 DEF LinkPeers, AwgShape
      <4> QED  BY <1>0, <3>1, <4>2, <4>4 DEF LinkPeers, AwgShape
    <3>2. CASE LoadRules
      BY <1>0, <3>2 DEF LoadRules, AwgShape
    <3> QED  BY <3>1, <3>2
  <2> QED  BY <1>0, <1>1, <2>1 DEF AwgShape
<1>4. Waiting' = Waiting /\ Registering' = Registering /\ Removing' = Removing
      /\ Excused' = Excused
  BY <1>1, <1>2 DEF Waiting, Registering, Removing, Excused
<1>5. AwgKeysInv'
  BY <1>0, <1>1, <1>2, <1>4 DEF AwgKeysInv
<1>6. AwgNodeInv'
  BY <1>0, <1>1, <1>2, <1>4 DEF AwgNodeInv
<1>7. AwgPolicyInv'
  BY <1>0, <1>1, <1>4, PoliciesStay
<1>8. AwgSavedInv'
  <2>1. Registering' => Registering /\ (AwgNow' # "" => AwgNow # "")
    BY <1>2, <1>4
  <2>2. MayReturn' => MayReturn /\ staged' = staged
    BY <1>1, <1>2
  <2>3. enrolments' = enrolments /\ awgHistory' = awgHistory
    BY <1>1
  <2>4. /\ AwgActs' => AwgActs /\ awgScript'.saved = awgScript.saved
        /\ awgHistory.cutOff \subseteq awgHistory'.cutOff /\ Waiting' \subseteq Waiting
    BY <1>2, <1>4, <2>3
  <2> QED  BY <1>0, <2>1, <2>2, <2>3, <2>4, SavedStay
<1>9. AwgRegisterInv'
  BY <1>0, <1>1, <1>2, <1>4 DEF AwgRegisterInv, Registering
<1> QED  BY <1>2, <1>3, <1>5, <1>6, <1>7, <1>8, <1>9 DEF AwgInv

(* What a step of a command leaves of the command.                         *)
LEMMA StepKeeps ==
    ASSUME AwgInv, awgScript.steps # <<>>, AwgDone,
           awgHistory.shaken \subseteq awgHistory'.shaken
    PROVE  /\ awgScript'.op = awgScript.op /\ awgScript'.name = awgScript.name
           /\ awgScript'.key = awgScript.key /\ awgScript'.grant = awgScript.grant
           /\ awgScript'.todo = awgScript.todo /\ awgScript'.saved = awgScript.saved
           /\ AwgActs' /\ Registering' = Registering /\ Removing' = Removing
           /\ awgScript.name \in AwgNames
<1>1. AwgScriptInv
  BY DEF AwgInv
<1>2. /\ awgScript'.op = awgScript.op /\ awgScript'.name = awgScript.name
      /\ awgScript'.key = awgScript.key /\ awgScript'.grant = awgScript.grant
      /\ awgScript'.todo = awgScript.todo /\ awgScript'.saved = awgScript.saved
  BY <1>1, AwgMoves
<1>3. AwgActs
  BY <1>1, AwgLeft
<1> QED  BY <1>1, <1>2, <1>3 DEF AwgScriptInv, AwgActs, Registering, Removing

(* No key is nought.                                                       *)
LEMMA NoughtWaitsNot ==
    ASSUME AwgInv
    PROVE  0 \notin Waiting /\ awgBounds.keys \in Nat
<1>1. awgBounds.keys \in Nat
  BY DEF AwgInv, AwgShape
<1>2. \A k \in awgHistory.enrolled : k > awgBounds.keys
  BY DEF AwgInv, AwgKeysInv
<1> QED  BY <1>1, <1>2 DEF Waiting

(* A registration that is recorded has its new key, which nobody waits for. *)
LEMMA RecordNewNode ==
    ASSUME AwgInv, RecordNode, Registering
    PROVE  AwgInv'
<1> DEFINE n == awgScript.name
           k == awgScript.key
<1>0. /\ AwgShape /\ AwgScriptInv /\ AwgKeysInv /\ AwgNodeInv /\ AwgPolicyInv /\ AwgSavedInv
      /\ AwgRegisterInv
  BY DEF AwgInv
<1>1. /\ awgScript.steps # <<>> /\ AwgNow = "record" /\ AwgDone
      /\ UNCHANGED <<awgClock, access, staged, peers, enrolments, lastHandshake, awgBounds,
                     awgHistory>>
  BY DEF RecordNode, NextAwg, AwgNow, NextOf
<1>2. members' = [members EXCEPT ![n] = k] /\ UNCHANGED disabled
  BY Zenon DEF RecordNode, Registering
<1>3. /\ awgScript'.op = awgScript.op /\ awgScript'.name = n /\ awgScript'.key = k
      /\ awgScript'.grant = awgScript.grant /\ awgScript'.todo = awgScript.todo
      /\ awgScript'.saved = awgScript.saved /\ n \in AwgNames
      /\ AwgActs' /\ Registering' = Registering /\ Removing' = Removing
  BY <1>1, StepKeeps
<1>4. AwgScriptInv' /\ AwgNow' = "stage" /\ (MayReturn' => MayReturn) /\ AwgActs
  BY <1>0, <1>1, AwgMoves, AwgLeft
<1>5. ~Removing /\ ~MayReturn /\ awgScript.op \notin {"disable", "confirm", "mode"}
      /\ awgScript.todo = {}
  BY <1>0 DEF Registering, Removing, MayReturn, AwgScriptInv
<1>6. /\ k \in AwgKeys /\ k > awgBounds.keys /\ k \notin awgHistory.enrolled /\ k # 0
  <2>1. k = awgBounds.keys + 1 /\ k \in AwgKeys /\ k \notin awgHistory.enrolled
    BY <1>0, <1>1 DEF AwgKeysInv
  <2> QED  BY <2>1, NoughtWaitsNot DEF AwgKeys
<1>7. Waiting' = Waiting /\ Excused' = Excused /\ k \in Excused /\ k \notin Waiting
  BY <1>1, <1>3, <1>6 DEF Waiting, Excused
<1>8. members \in NodeLists /\ members' \in NodeLists
  BY <1>0, <1>2, <1>6 DEF AwgShape, NodeLists
<1>9. \A m \in AwgNames : members'[m] = IF m = n THEN k ELSE members[m]
  BY <1>2, <1>8 DEF NodeLists
<1> HIDE DEF n, k
<1>10. AwgShape'
  <2>1. disabled \subseteq {m \in AwgNames : members'[m] # 0}
    BY <1>0, <1>6, <1>9 DEF AwgShape
  <2> QED  BY <1>0, <1>1, <1>2, <1>8, <2>1 DEF AwgShape
<1>11. AwgKeysInv'
  <2>1. \A m \in AwgNames : members'[m] = 0 \/ members'[m] > awgBounds.keys
    BY <1>0, <1>6, <1>9 DEF AwgKeysInv
  <2>2. \A m \in AwgNames \ {n} : members'[m] # k
    BY <1>0, <1>9 DEF AwgKeysInv, n, k
  <2>3. members'[n] = k
    BY <1>3, <1>9
  <2> QED  BY <1>0, <1>1, <1>3, <1>4, <2>1, <2>2, <2>3 DEF AwgKeysInv, n, k
<1>12. AwgNodeInv'
  BY <1>3, <1>5 DEF AwgNodeInv
<1>13. AwgPolicyInv'
  <2>1. Registered(members)'
    BY <1>0, <1>1, <1>7, <1>9 DEF AwgPolicyInv, Registered
  <2>2. Restricts(members, access)' /\ (staged' # NoStaged => Restricts(members, staged)')
    BY <1>0, <1>1, <1>7, <1>9 DEF AwgPolicyInv, Restricts
  <2>3. \A a \in access.allow \cup staged.allow :
            /\ members'[a.from] \in {members[a.from], k}
            /\ a.to # "vps" => members'[a.to] \in {members[a.to], k}
    BY <1>2, <1>8 DEF NodeLists, n, k
  <2>4. Rightful(members, access, Excused)' /\ Rightful(members, staged, Excused)'
    BY <1>0, <1>1, <1>7, <2>3 DEF AwgPolicyInv, Rightful
  <2> QED  BY <2>1, <2>2, <2>4 DEF AwgPolicyInv
<1>14. AwgSavedInv'
  <2>1. Registering' => Registering /\ (AwgNow' # "" => AwgNow # "")
    BY <1>1, <1>3
  <2>2. /\ AwgActs' => AwgActs /\ awgScript'.saved = awgScript.saved
        /\ awgHistory.cutOff \subseteq awgHistory'.cutOff /\ Waiting' \subseteq Waiting
        /\ enrolments' = enrolments
        /\ MayReturn' => MayReturn /\ staged' = staged
    BY <1>1, <1>3, <1>4, <1>7
  <2> QED  BY <1>0, <2>1, <2>2, SavedStay
<1>15. AwgRegisterInv'
  BY <1>4 DEF AwgRegisterInv
<1> QED  BY <1>4, <1>10, <1>11, <1>12, <1>13, <1>14, <1>15 DEF AwgInv

(* The keys that were given out stay above those that were not.            *)
LEMMA KeysGivenOut ==
    ASSUME AwgInv, NEW left \in Nat, left <= awgBounds.keys
    PROVE  /\ \A n \in AwgNames : members[n] = 0 \/ members[n] > left
           /\ \A k \in awgHistory.enrolled : k > left
           /\ awgBounds.keys \notin awgHistory.enrolled
           /\ awgBounds.keys > 0 => \A n \in AwgNames : members[n] # awgBounds.keys
<1>1. awgBounds.keys \in Nat
  BY NoughtWaitsNot
<1>2. \A n \in AwgNames : members[n] \in Int
  <2>1. members \in [AwgNames -> {0} \cup AwgKeys]
    BY DEF AwgInv, AwgShape, NodeLists
  <2>2. {0} \cup AwgKeys \subseteq Int
    BY AwgAssumption DEF AwgKeys
  <2> QED  BY <2>1, <2>2
<1>3. \A k \in awgHistory.enrolled : k \in Int
  BY AwgAssumption DEF AwgInv, AwgShape, AwgKeys
<1>4. \A n \in AwgNames : members[n] = 0 \/ members[n] > awgBounds.keys
  BY DEF AwgInv, AwgKeysInv
<1>5. \A k \in awgHistory.enrolled : k > awgBounds.keys
  BY DEF AwgInv, AwgKeysInv
<1> HIDE DEF AwgInv
<1> QED  BY <1>1, <1>2, <1>3, <1>4, <1>5

(* A removal that is recorded leaves no node to inherit anything.          *)
LEMMA RecordRemoval ==
    ASSUME AwgInv, RecordNode, Removing
    PROVE  AwgInv'
<1> DEFINE n == awgScript.name
<1>0. /\ AwgShape /\ AwgScriptInv /\ AwgKeysInv /\ AwgNodeInv /\ AwgPolicyInv /\ AwgSavedInv
      /\ AwgRegisterInv
  BY DEF AwgInv
<1>1. /\ awgScript.steps # <<>> /\ AwgNow = "record" /\ AwgDone
      /\ UNCHANGED <<awgClock, access, staged, peers, enrolments, lastHandshake, awgBounds,
                     awgHistory>>
  BY DEF RecordNode, NextAwg, AwgNow, NextOf
<1>2. members' = [members EXCEPT ![n] = 0] /\ disabled' = disabled \ {n}
  <2>1. members' = [members EXCEPT ![n] = 0] /\ disabled' = StillDisabled(n)
    BY Zenon DEF RecordNode, Removing
  <2> QED  BY <2>1 DEF StillDisabled
<1>3. /\ awgScript'.op = awgScript.op /\ awgScript'.name = n /\ awgScript'.key = awgScript.key
      /\ awgScript'.grant = awgScript.grant /\ awgScript'.todo = awgScript.todo
      /\ awgScript'.saved = awgScript.saved /\ n \in AwgNames
      /\ AwgActs' /\ Registering' = Registering /\ Removing' = Removing
  BY <1>1, StepKeeps
<1>4. AwgScriptInv' /\ AwgNow' # "record" /\ (MayReturn' => MayReturn) /\ AwgActs
  BY <1>0, <1>1, AwgMoves, AwgLeft
<1>5. ~Registering /\ awgScript.op \notin {"enroll", "disable", "confirm", "mode"}
  BY DEF Registering, Removing
<1>6. Waiting' = Waiting /\ Excused' = Excused /\ 0 \notin Waiting
  BY <1>1, <1>3, NoughtWaitsNot DEF Waiting, Excused
<1>7. members \in NodeLists /\ members' \in NodeLists
  BY <1>0, <1>2 DEF AwgShape, NodeLists
<1>8. \A m \in AwgNames : members'[m] = IF m = n THEN 0 ELSE members[m]
  BY <1>2, <1>7 DEF NodeLists
<1> HIDE DEF n
<1>9. AwgShape'
  <2>1. disabled' \subseteq {m \in AwgNames : members'[m] # 0}
    BY <1>0, <1>2, <1>8 DEF AwgShape
  <2> QED  BY <1>0, <1>1, <1>2, <1>7, <2>1 DEF AwgShape
<1>10. AwgKeysInv'
  BY <1>0, <1>1, <1>3, <1>4, <1>5, <1>8 DEF AwgKeysInv
<1>11. AwgNodeInv'
  <2>1. members'[n] = 0
    BY <1>3, <1>8
  <2>2. \A m \in AwgNames : <<"confirm", m>> \in awgScript.todo => members'[m] \notin Waiting
    BY <1>0, <1>6, <1>8 DEF AwgNodeInv
  <2> QED  BY <1>3, <1>5, <1>6, <2>1, <2>2 DEF AwgNodeInv
<1>12. AwgPolicyInv'
  <2>1. Registered(members)'
    BY <1>0, <1>1, <1>6, <1>8 DEF AwgPolicyInv, Registered
  <2>2. Restricts(members, access)' /\ (staged' # NoStaged => Restricts(members, staged)')
    BY <1>0, <1>1, <1>6, <1>8 DEF AwgPolicyInv, Restricts
  <2>3. \A a \in access.allow \cup staged.allow :
            /\ members'[a.from] \in {members[a.from], 0}
            /\ a.to # "vps" => members'[a.to] \in {members[a.to], 0}
    BY <1>2, <1>7 DEF NodeLists, n
  <2>4. Rightful(members, access, Excused)' /\ Rightful(members, staged, Excused)'
    BY <1>0, <1>1, <1>6, <2>3 DEF AwgPolicyInv, Rightful
  <2> QED  BY <2>1, <2>2, <2>4 DEF AwgPolicyInv
<1>13. AwgSavedInv'
  <2>1. /\ AwgActs' => AwgActs /\ awgScript'.saved = awgScript.saved
        /\ awgHistory.cutOff \subseteq awgHistory'.cutOff /\ Waiting' \subseteq Waiting
        /\ enrolments' = enrolments
        /\ MayReturn' => MayReturn /\ staged' = staged
        /\ ~Registering'
    BY <1>1, <1>3, <1>4, <1>5, <1>6
  <2> QED  BY <1>0, <2>1, SavedStay
<1>14. AwgRegisterInv'
  BY <1>3, <1>5 DEF AwgRegisterInv
<1> QED  BY <1>4, <1>9, <1>10, <1>11, <1>12, <1>13, <1>14 DEF AwgInv

(* Enabling and disabling leave the list of nodes as it is.                *)
LEMMA RecordSwitch ==
    ASSUME AwgInv, RecordNode, ~Registering, ~Removing
    PROVE  AwgInv'
<1> DEFINE n == awgScript.name
<1>0. /\ AwgShape /\ AwgScriptInv /\ AwgKeysInv /\ AwgNodeInv /\ AwgPolicyInv /\ AwgSavedInv
      /\ AwgRegisterInv
  BY DEF AwgInv
<1>1. /\ awgScript.steps # <<>> /\ AwgNow = "record" /\ AwgDone
      /\ UNCHANGED <<awgClock, access, staged, peers, enrolments, lastHandshake, awgBounds,
                     awgHistory>>
  BY DEF RecordNode, NextAwg, AwgNow, NextOf
<1>2. awgScript.op \in {"enable", "disable"}
  BY <1>0, <1>1, AwgLeft DEF Registering, Removing
<1>3. members' = members
  <2>1. CASE awgScript.op = "enable"
    BY <2>1, Zenon DEF RecordNode
  <2>2. CASE awgScript.op = "disable"
    BY <2>2, Zenon DEF RecordNode
  <2> QED  BY <1>2, <2>1, <2>2
<1>4. \/ disabled' = disabled \ {n}
      \/ awgScript.op = "disable" /\ disabled' = disabled \cup {n}
  <2>1. CASE awgScript.op = "enable"
    <3>1. disabled' = disabled \ {awgScript.name}
      BY <2>1, Zenon DEF RecordNode
    <3> QED  BY <3>1
  <2>2. CASE awgScript.op = "disable"
    <3>1. disabled' = disabled \cup {awgScript.name}
      BY <2>2, Zenon DEF RecordNode
    <3> QED  BY <2>2, <3>1
  <2> QED  BY <1>2, <2>1, <2>2
<1>5. /\ awgScript'.op = awgScript.op /\ awgScript'.name = n /\ awgScript'.key = awgScript.key
      /\ awgScript'.grant = awgScript.grant /\ awgScript'.todo = awgScript.todo
      /\ awgScript'.saved = awgScript.saved /\ n \in AwgNames
      /\ AwgActs' /\ Registering' = Registering /\ Removing' = Removing
  BY <1>1, StepKeeps
<1>6. AwgScriptInv' /\ (MayReturn' => MayReturn) /\ AwgActs
  BY <1>0, <1>1, AwgMoves, AwgLeft
<1>7. Waiting' = Waiting /\ Excused' = Excused
  BY <1>1, <1>5 DEF Waiting, Excused
<1>8. AwgShape'
  <2>1. disabled' \subseteq {m \in AwgNames : members[m] # 0}
    BY <1>0, <1>4, <1>5 DEF AwgShape, AwgNodeInv
  <2> QED  BY <1>0, <1>1, <1>3, <2>1 DEF AwgShape
<1>9. AwgKeysInv'
  BY <1>0, <1>1, <1>3, <1>5, <1>6 DEF AwgKeysInv
<1>10. AwgNodeInv'
  BY <1>0, <1>3, <1>5, <1>7 DEF AwgNodeInv
<1>11. AwgPolicyInv'
  BY <1>0, <1>1, <1>3, <1>7, PoliciesStay
<1>12. AwgSavedInv'
  <2>1. /\ AwgActs' => AwgActs /\ awgScript'.saved = awgScript.saved
        /\ awgHistory.cutOff \subseteq awgHistory'.cutOff /\ Waiting' \subseteq Waiting
        /\ enrolments' = enrolments
        /\ MayReturn' => MayReturn /\ staged' = staged
        /\ ~Registering'
    BY <1>1, <1>5, <1>6, <1>7
  <2> QED  BY <1>0, <2>1, SavedStay
<1>13. AwgRegisterInv'
  BY <1>2, <1>5 DEF AwgRegisterInv
<1> QED  BY <1>6, <1>8, <1>9, <1>10, <1>11, <1>12, <1>13 DEF AwgInv

(* A command changes the pending policy if there is one; it is as good as   *)
(* the active one.                                                         *)
LEMMA CandidateFacts ==
    ASSUME AwgInv
    PROVE  /\ Candidate \in AwgPolicies
           /\ Restricts(members, Candidate) /\ Rightful(members, Candidate, Excused)
BY DEF AwgInv, AwgShape, AwgPolicyInv, Candidate

(* What is staged changes the mode of no other node, names a node that      *)
(* comes or goes no more, and permits only what is for these nodes.        *)
LEMMA StagedFacts ==
    ASSUME AwgInv, AwgNow = "stage", AwgActs
    PROVE  LET p == StagedBy(awgScript)
               n == awgScript.name
           IN /\ p \in AwgPolicies
              /\ \A m \in AwgNames \ {n} : p.mode[m] = Candidate.mode[m]
              /\ awgScript.op \in {"allow", "deny"} => p.mode[n] = Candidate.mode[n]
              /\ awgScript.op = "enroll" => p.mode[n] = "restricted"
              /\ awgScript.op = "mode" => p.mode[n] = awgScript.grant
              /\ Registering \/ Removing => Unnamed(p, n)
              /\ \A a \in p.allow :
                    \/ a \in Candidate.allow
                    \/ /\ a.from = n /\ a.fromKey = members[n]
                       /\ a.to # "vps" => a.toKey = members[a.to]
<1> DEFINE p == StagedBy(awgScript)
           n == awgScript.name
           to == awgScript.grant
           c == Candidate
           new == [from |-> n, to |-> to, fromKey |-> members[n],
                   toKey |-> IF to = "vps" THEN 0 ELSE members[to]]
<1>1. c \in AwgPolicies
  BY CandidateFacts
<1>2. n \in AwgNames /\ members \in NodeLists
  BY DEF AwgInv, AwgScriptInv, AwgShape
<1>3. /\ c = [mode |-> c.mode, allow |-> c.allow]
      /\ c.mode \in [AwgNames -> {"unset", "restricted", "unrestricted"}]
      /\ c.allow \in SUBSET [from : AwgNames, to : AwgNames \cup {"vps"},
                             fromKey : {0} \cup AwgKeys, toKey : {0} \cup AwgKeys]
  BY <1>1 DEF AwgPolicies
<1> DEFINE f == Forget(c, n)
<1>4. /\ f = [mode |-> f.mode, allow |-> f.allow]
      /\ f.mode = [c.mode EXCEPT ![n] = "unset"]
      /\ f.allow = {a \in c.allow : a.from # n /\ a.to # n}
  BY DEF Forget
<1>5. /\ f.mode \in [AwgNames -> {"unset", "restricted", "unrestricted"}]
      /\ f.allow \subseteq c.allow /\ Unnamed(f, n)
      /\ \A m \in AwgNames \ {n} : f.mode[m] = c.mode[m]
  BY <1>2, <1>3, <1>4 DEF Unnamed
<1>6. /\ Registering => awgScript.op \in {"import", "enroll"}
      /\ Removing => awgScript.op \in {"remove", "expire"}
      /\ awgScript.op \in {"import", "enroll", "remove", "expire", "confirm", "mode", "allow",
                            "deny"}
  BY AwgLeft DEF Registering, Removing, AwgInv, AwgScriptInv, AwgOps, AwgNow, NextOf
<1> HIDE DEF f, p, c, new
<1>7. CASE awgScript.op \in {"import", "remove", "expire"}
  <2>1. p = f
    BY <1>7, Zenon DEF StagedBy, p, f, c
  <2>2. p \in AwgPolicies
    BY <1>3, <1>4, <1>5, <2>1 DEF AwgPolicies
  <2> QED  BY <1>5, <1>7, <2>1, <2>2 DEF p, c
<1>8. CASE awgScript.op = "enroll"
  <2>1. p = SetMode(f, n, "restricted")
    BY <1>8, Zenon DEF StagedBy, EnrolMode, p, f, c
  <2>2. p = [mode |-> [f.mode EXCEPT ![n] = "restricted"], allow |-> f.allow]
    BY <1>4, <2>1 DEF SetMode
  <2>3. p \in AwgPolicies /\ Unnamed(p, n)
    BY <1>3, <1>5, <2>2 DEF AwgPolicies, Unnamed
  <2>4. p.mode[n] = "restricted" /\ \A m \in AwgNames \ {n} : p.mode[m] = f.mode[m]
    BY <1>2, <1>5, <2>2
  <2> QED  BY <1>5, <1>8, <2>2, <2>3, <2>4 DEF p, c
<1>9. CASE awgScript.op \in {"confirm", "mode"}
  <2>1. \E mode \in {"unrestricted", awgScript.grant} :
            /\ p = SetMode(c, n, mode)
            /\ mode \in {"restricted", "unrestricted"}
            /\ awgScript.op = "mode" => mode = awgScript.grant
    <3>1. CASE awgScript.op = "confirm"
      <4>1. p = SetMode(c, n, "unrestricted")
        BY <3>1, Zenon DEF StagedBy, p, c
      <4> QED  BY <3>1, <4>1
    <3>2. CASE awgScript.op = "mode"
      <4>1. p = SetMode(c, n, awgScript.grant)
        BY <3>2, Zenon DEF StagedBy, p, c
      <4> QED  BY <3>2, <4>1 DEF AwgInv, AwgScriptInv
    <3> QED  BY <1>9, <3>1, <3>2
  <2>2. PICK mode \in {"restricted", "unrestricted"} :
            /\ p = SetMode(c, n, mode)
            /\ awgScript.op = "mode" => mode = awgScript.grant
    BY <2>1
  <2>3. p = [mode |-> [c.mode EXCEPT ![n] = mode], allow |-> c.allow]
    BY <1>3, <2>2 DEF SetMode
  <2>4. p \in AwgPolicies
    BY <1>3, <2>3 DEF AwgPolicies
  <2>5. p.mode[n] = mode /\ \A m \in AwgNames \ {n} : p.mode[m] = c.mode[m]
    BY <1>2, <1>3, <2>3
  <2> QED  BY <1>6, <1>9, <2>2, <2>3, <2>4, <2>5 DEF p, c
<1>10. CASE awgScript.op = "allow"
  <2>1. p = [c EXCEPT !.allow = @ \cup {new}]
    BY <1>10, Zenon DEF StagedBy, p, c, new
  <2>2. p = [mode |-> c.mode, allow |-> c.allow \cup {new}]
    BY <1>3, <2>1
  <2>3. to \in AwgNames \cup {"vps"}
    BY <1>10 DEF AwgInv, AwgScriptInv
  <2>4. new \in [from : AwgNames, to : AwgNames \cup {"vps"},
                  fromKey : {0} \cup AwgKeys, toKey : {0} \cup AwgKeys]
    BY <1>2, <2>3 DEF new, NodeLists
  <2>5. p \in AwgPolicies
    BY <1>3, <2>2, <2>4 DEF AwgPolicies
  <2>6. new.from = n /\ new.fromKey = members[n] /\ (new.to # "vps" => new.toKey = members[new.to])
    BY DEF new
  <2> QED  BY <1>6, <1>10, <2>2, <2>5, <2>6 DEF p, c
<1>11. CASE awgScript.op = "deny"
  <2>1. p = [c EXCEPT !.allow = {a \in @ : ~(a.from = n /\ a.to = to)}]
    BY <1>11, Zenon DEF StagedBy, p, c
  <2>2. p = [mode |-> c.mode, allow |-> {a \in c.allow : ~(a.from = n /\ a.to = to)}]
    BY <1>3, <2>1
  <2>3. p \in AwgPolicies
    BY <1>3, <2>2 DEF AwgPolicies
  <2> QED  BY <1>6, <1>11, <2>2, <2>3 DEF p, c
<1> QED  BY <1>6, <1>7, <1>8, <1>9, <1>10, <1>11

(* After the record a registration has its key and keeps it.               *)
LEMMA KeysStay ==
    ASSUME AwgKeysInv, AwgActs' => AwgActs /\ awgScript'.saved = awgScript.saved,
           UNCHANGED <<members, awgBounds, awgHistory>>,
           awgScript'.name = awgScript.name, awgScript'.key = awgScript.key,
           Registering' => Registering /\ AwgNow \notin {"", "record"} /\ AwgNow' # "record"
    PROVE  AwgKeysInv'
<1>1. Registering' => AwgActs' /\ AwgActs
  BY DEF Registering, AwgActs
<1> QED  BY <1>1 DEF AwgKeysInv

(* Staging keeps every node that waits restricted, and gives nobody what    *)
(* was another's.                                                          *)
LEMMA AwgStageStep ==
    ASSUME AwgInv, StagePolicy
    PROVE  AwgInv'
<1> DEFINE n == awgScript.name
           c == Candidate
           p == StagedBy(awgScript)
<1>0. /\ AwgShape /\ AwgScriptInv /\ AwgKeysInv /\ AwgNodeInv /\ AwgPolicyInv /\ AwgSavedInv
      /\ AwgRegisterInv
  BY DEF AwgInv
<1>1. /\ awgScript.steps # <<>> /\ AwgNow = "stage" /\ AwgDone /\ staged' = p
      /\ UNCHANGED <<awgClock, members, disabled, access, peers, enrolments, lastHandshake,
                     awgBounds, awgHistory>>
  BY DEF StagePolicy, NextAwg, AwgNow, NextOf
<1>2. /\ awgScript'.op = awgScript.op /\ awgScript'.name = n /\ awgScript'.key = awgScript.key
      /\ awgScript'.grant = awgScript.grant /\ awgScript'.todo = awgScript.todo
      /\ awgScript'.saved = awgScript.saved /\ n \in AwgNames
      /\ AwgActs' /\ Registering' = Registering /\ Removing' = Removing
  BY <1>1, StepKeeps
<1>3. /\ AwgScriptInv' /\ AwgActs /\ awgScript.op \in AwgOps \ {"none", "plan", "reconcile"}
      /\ awgScript.op \notin {"enable", "disable"} /\ ~MayReturn'
      /\ Registering => AwgNow' = "commit"
      /\ Removing => AwgNow' # "record"
  BY <1>0, <1>1, AwgMoves, AwgLeft
<1>4. Waiting' = Waiting /\ Excused' = Excused
  BY <1>1, <1>2 DEF Waiting, Excused
<1>5. Restricts(members, c) /\ Rightful(members, c, Excused)
  BY CandidateFacts
<1>6. /\ p \in AwgPolicies
      /\ \A m \in AwgNames \ {n} : p.mode[m] = c.mode[m]
      /\ awgScript.op \in {"allow", "deny"} => p.mode[n] = c.mode[n]
      /\ awgScript.op = "enroll" => p.mode[n] = "restricted"
      /\ awgScript.op = "mode" => p.mode[n] = awgScript.grant
      /\ Registering \/ Removing => Unnamed(p, n)
      /\ \A a \in p.allow :
            \/ a \in c.allow
            \/ /\ a.from = n /\ a.fromKey = members[n]
               /\ a.to # "vps" => a.toKey = members[a.to]
  BY <1>1, <1>3, StagedFacts
<1> HIDE DEF n, c, p
<1>7. p # NoStaged
  <2>1. p.mode \in [AwgNames -> {"unset", "restricted", "unrestricted"}]
    BY <1>6 DEF AwgPolicies
  <2>2. DOMAIN p.mode # {}
    BY <1>2, <2>1
  <2>3. DOMAIN <<>> = {}
    OBVIOUS
  <2> QED  BY <2>2, <2>3 DEF NoStaged
<1>8. AwgShape'
  BY <1>0, <1>1, <1>6 DEF AwgShape
<1>9. AwgKeysInv'
  <2>1. Registering => AwgNow \notin {"", "record"} /\ AwgNow' # "record"
    BY <1>1, <1>3
  <2> QED  BY <1>0, <1>1, <1>2, <1>3, <2>1, KeysStay DEF n
<1>10. AwgNodeInv'
  BY <1>0, <1>1, <1>2, <1>3, <1>4 DEF AwgNodeInv, n
<1>11. Restricts(members, p)
  <2>1. members[n] \in Waiting => p.mode[n] = "restricted"
    <3>1. CASE awgScript.op \in {"allow", "deny"}
      BY <1>2, <1>5, <1>6, <3>1 DEF Restricts
    <3>2. CASE awgScript.op = "mode"
      BY <1>0, <1>6, <3>2 DEF AwgNodeInv, AwgScriptInv, n
    <3>3. CASE awgScript.op = "confirm"
      BY <1>0, <3>3 DEF AwgNodeInv, n
    <3>4. CASE Registering
      BY <1>0, <1>1, <3>4 DEF AwgKeysInv, Waiting, n
    <3>5. CASE Removing
      BY <1>0, <1>1, <3>5, NoughtWaitsNot DEF AwgNodeInv, n
    <3> QED  BY <1>3, <3>1, <3>2, <3>3, <3>4, <3>5 DEF AwgOps, Registering, Removing
  <2> QED  BY <1>5, <1>6, <2>1 DEF Restricts
<1>12. Rightful(members, p, Excused)
  BY <1>5, <1>6 DEF Rightful
<1>13. AwgPolicyInv'
  <2>1. Registered(members)' /\ Restricts(members, access)' /\ Rightful(members, access, Excused)'
    BY <1>0, <1>1, <1>4 DEF AwgPolicyInv, Registered, Restricts, Rightful
  <2>2. Restricts(members, staged)' /\ Rightful(members, staged, Excused)'
    BY <1>1, <1>4, <1>11, <1>12 DEF Restricts, Rightful
  <2> QED  BY <2>1, <2>2 DEF AwgPolicyInv
<1>14. AwgSavedInv'
  <2>1. Registering' => Registering /\ (AwgNow' # "" => AwgNow # "")
    BY <1>1, <1>2
  <2>2. /\ AwgActs' => AwgActs /\ awgScript'.saved = awgScript.saved
        /\ awgHistory.cutOff \subseteq awgHistory'.cutOff /\ Waiting' \subseteq Waiting
        /\ enrolments' = enrolments /\ ~MayReturn'
    BY <1>1, <1>2, <1>3, <1>4
  <2> QED  BY <1>0, <2>1, <2>2, SavedStay
<1>15. AwgRegisterInv'
  <2>1. Registering' => AwgNow' = "commit" /\ staged' # NoStaged /\ Unnamed(staged, n)'
    BY <1>1, <1>2, <1>3, <1>6, <1>7 DEF Unnamed, n
  <2>2. awgScript'.op = "enroll" => AwgNow' = "commit" /\ staged'.mode[n] = "restricted"
    BY <1>1, <1>2, <1>3, <1>6 DEF Registering
  <2> QED  BY <1>2, <2>1, <2>2 DEF AwgRegisterInv, Unnamed, n
<1> QED  BY <1>3, <1>8, <1>9, <1>10, <1>13, <1>14, <1>15 DEF AwgInv

(* A commit makes the pending policy the active one.                       *)
LEMMA AwgCommitStep ==
    ASSUME AwgInv, CommitPolicy
    PROVE  AwgInv'
<1> DEFINE n == awgScript.name
           c == Candidate
<1>0. /\ AwgShape /\ AwgScriptInv /\ AwgKeysInv /\ AwgNodeInv /\ AwgPolicyInv /\ AwgSavedInv
      /\ AwgRegisterInv
  BY DEF AwgInv
<1>1. /\ awgScript.steps # <<>> /\ AwgNow = "commit" /\ AwgDone
      /\ access' = c /\ staged' = NoStaged
      /\ UNCHANGED <<awgClock, members, disabled, peers, enrolments, lastHandshake, awgBounds,
                     awgHistory>>
  BY DEF CommitPolicy, NextAwg, AwgNow, NextOf
<1>2. /\ awgScript'.op = awgScript.op /\ awgScript'.name = n /\ awgScript'.key = awgScript.key
      /\ awgScript'.grant = awgScript.grant /\ awgScript'.todo = awgScript.todo
      /\ awgScript'.saved = awgScript.saved /\ n \in AwgNames
      /\ AwgActs' /\ Registering' = Registering /\ Removing' = Removing
  BY <1>1, StepKeeps
<1>3. /\ AwgScriptInv' /\ AwgActs /\ awgScript.op \notin {"enable", "disable"} /\ ~MayReturn'
      /\ Registering => AwgNow' = "link"
      /\ Removing => AwgNow' # "record"
  <2>1. /\ AwgScriptInv' /\ AwgActs /\ awgScript.op \notin {"enable", "disable"}
        /\ MayReturn' => MayReturn
        /\ Registering => AwgNow' = "link"
        /\ Removing => AwgNow' # "record"
        /\ Removing => ~MayReturn
    BY <1>0, <1>1, AwgMoves, AwgLeft
  <2>2. MayReturn => Removing
    BY <2>1 DEF MayReturn
  <2> QED  BY <2>1, <2>2
<1>4. Waiting' = Waiting /\ Excused' = Excused
  BY <1>1, <1>2 DEF Waiting, Excused
<1>5. c \in AwgPolicies /\ Restricts(members, c) /\ Rightful(members, c, Excused)
  BY CandidateFacts
<1>6. Registering => Unnamed(c, n) /\ (awgScript.op = "enroll" => c.mode[n] = "restricted")
  BY <1>0, <1>1 DEF AwgRegisterInv, Candidate
<1> HIDE DEF n, c
<1>7. AwgShape'
  BY <1>0, <1>1, <1>5 DEF AwgShape
<1>8. AwgKeysInv'
  <2>1. Registering => AwgNow \notin {"", "record"} /\ AwgNow' # "record"
    BY <1>1, <1>3
  <2> QED  BY <1>0, <1>1, <1>2, <1>3, <2>1, KeysStay DEF n
<1>9. AwgNodeInv'
  BY <1>0, <1>1, <1>2, <1>3, <1>4 DEF AwgNodeInv, n
<1>10. AwgPolicyInv'
  <2>1. Registered(members)'
    BY <1>0, <1>1, <1>4 DEF AwgPolicyInv, Registered
  <2>2. Restricts(members, access)' /\ Rightful(members, access, Excused)'
    BY <1>1, <1>4, <1>5 DEF Restricts, Rightful
  <2>3. Rightful(members, staged, Excused)'
    BY <1>1 DEF Rightful, NoStaged
  <2> QED  BY <1>1, <2>1, <2>2, <2>3 DEF AwgPolicyInv
<1>11. AwgSavedInv'
  <2>1. Registering' => Registering /\ (AwgNow' # "" => AwgNow # "")
    BY <1>1, <1>2
  <2>2. /\ AwgActs' => AwgActs /\ awgScript'.saved = awgScript.saved
        /\ awgHistory.cutOff \subseteq awgHistory'.cutOff /\ Waiting' \subseteq Waiting
        /\ enrolments' = enrolments /\ ~MayReturn'
    BY <1>1, <1>2, <1>3, <1>4
  <2> QED  BY <1>0, <2>1, <2>2, SavedStay
<1>12. AwgRegisterInv'
  <2>1. Registering' => AwgNow' = "link" /\ staged' = NoStaged /\ Unnamed(access, n)'
    BY <1>1, <1>2, <1>3, <1>6 DEF Unnamed, n
  <2>2. awgScript'.op = "enroll" => AwgNow' = "link" /\ access'.mode[n] = "restricted"
    BY <1>1, <1>2, <1>3, <1>6 DEF Registering
  <2> QED  BY <1>2, <2>1, <2>2 DEF AwgRegisterInv, Unnamed, n
<1> QED  BY <1>3, <1>7, <1>8, <1>9, <1>10, <1>11, <1>12 DEF AwgInv

(* An enrolment starts for a node that both policies restrict.             *)
LEMMA AwgStartStep ==
    ASSUME AwgInv, StartEnrolment
    PROVE  AwgInv'
<1> DEFINE n == awgScript.name
           k == awgScript.key
<1>0. /\ AwgShape /\ AwgScriptInv /\ AwgKeysInv /\ AwgNodeInv /\ AwgPolicyInv /\ AwgSavedInv
      /\ AwgRegisterInv
  BY DEF AwgInv
<1>1. /\ awgScript.steps # <<>> /\ AwgNow = "start" /\ AwgDone
      /\ enrolments' = [enrolments EXCEPT ![n] = [key |-> k, created |-> awgClock]]
      /\ awgHistory' = [awgHistory EXCEPT !.enrolled = @ \cup {k}]
      /\ UNCHANGED <<awgClock, members, disabled, access, staged, peers, lastHandshake,
                     awgBounds>>
  BY DEF StartEnrolment, NextAwg, AwgNow, NextOf
<1>2. /\ awgHistory'.enrolled = awgHistory.enrolled \cup {k}
      /\ awgHistory'.opened = awgHistory.opened /\ awgHistory'.cutOff = awgHistory.cutOff
      /\ awgHistory'.shaken = awgHistory.shaken
      /\ awgHistory' = [enrolled |-> awgHistory'.enrolled, opened |-> awgHistory'.opened,
                        cutOff |-> awgHistory'.cutOff, stranded |-> awgHistory'.stranded,
                        shaken |-> awgHistory'.shaken]
  <2>1. awgHistory = [enrolled |-> awgHistory.enrolled, opened |-> awgHistory.opened,
                      cutOff |-> awgHistory.cutOff, stranded |-> awgHistory.stranded,
                      shaken |-> awgHistory.shaken]
    BY <1>0 DEF AwgShape
  <2>2. awgHistory' = [enrolled |-> awgHistory.enrolled \cup {k}, opened |-> awgHistory.opened,
                       cutOff |-> awgHistory.cutOff, stranded |-> awgHistory.stranded,
                       shaken |-> awgHistory.shaken]
    BY <1>1, <2>1
  <2> QED  BY <2>2
<1>3. /\ awgScript'.op = awgScript.op /\ awgScript'.name = n /\ awgScript'.key = k
      /\ awgScript'.grant = awgScript.grant /\ awgScript'.todo = awgScript.todo
      /\ awgScript'.saved = awgScript.saved /\ n \in AwgNames
      /\ AwgActs' /\ Registering' = Registering /\ Removing' = Removing
  BY <1>1, <1>2, StepKeeps
<1>4. AwgScriptInv' /\ AwgActs /\ awgScript.op = "enroll"
  BY <1>0, <1>1, <1>2, AwgMoves, AwgLeft
<1>5. Registering /\ ~Removing /\ ~MayReturn' /\ awgScript.todo = {}
  BY <1>0, <1>3, <1>4 DEF Registering, Removing, MayReturn, AwgScriptInv
<1>6. AwgNow' = ""
  BY <1>0, <1>1, <1>2, <1>5, AwgMoves
<1>7. /\ k \in AwgKeys /\ k > awgBounds.keys /\ k # 0 /\ members[n] = k
      /\ \A m \in AwgNames \ {n} : members[m] # k
  <2>1. /\ k = awgBounds.keys + 1 /\ k \in AwgKeys /\ members[n] = k
        /\ \A m \in AwgNames \ {n} : members[m] # k
    BY <1>0, <1>1, <1>5 DEF AwgKeysInv
  <2> QED  BY <2>1, NoughtWaitsNot DEF AwgKeys
<1>8. Waiting' \subseteq Waiting \cup {k} /\ Excused' = Excused
  BY <1>2, <1>3 DEF Waiting, Excused
<1>9. \A m \in AwgNames : /\ m # n => enrolments'[m] = enrolments[m]
                          /\ m = n => enrolments'[m] = [key |-> k, created |-> awgClock]
  BY <1>0, <1>1 DEF AwgShape
<1>10. staged = NoStaged /\ access.mode[n] = "restricted" /\ Unnamed(access, n)
  BY <1>0, <1>1, <1>4, <1>5 DEF AwgRegisterInv
<1> HIDE DEF n, k
<1>11. AwgShape'
  <2>1. awgClock \in Nat /\ awgClock > 0
    BY <1>0, AwgAssumption DEF AwgShape
  <2>2. [key |-> k, created |-> awgClock] \in [key : {0} \cup AwgKeys, created : Nat]
    BY <1>7, <2>1
  <2>3. enrolments' \in [AwgNames -> [key : {0} \cup AwgKeys, created : Nat]]
    BY <1>0, <1>1, <2>2 DEF AwgShape, n, k
  <2>4. \A m \in AwgNames : /\ enrolments'[m].created <= awgClock
                            /\ enrolments'[m] # NoItem => enrolments'[m].created > 0
    BY <1>0, <1>9, <2>1 DEF AwgShape
  <2>5. awgHistory'.enrolled \subseteq AwgKeys
    BY <1>0, <1>2, <1>7 DEF AwgShape
  <2>6. \A j \in AwgKeys : lastHandshake[j] > 0 => j \in awgHistory'.shaken
    BY <1>0, <1>2 DEF AwgShape
  <2> QED  BY <1>0, <1>1, <1>2, <2>3, <2>4, <2>5, <2>6 DEF AwgShape
<1>12. AwgKeysInv'
  <2>1. \A j \in awgHistory'.enrolled : j > awgBounds.keys
    BY <1>0, <1>2, <1>7 DEF AwgKeysInv
  <2>2. \A m \in AwgNames : members'[m] = 0 \/ members'[m] > awgBounds'.keys
    BY <1>0, <1>1 DEF AwgKeysInv
  <2>3. AwgActs' => \A m \in AwgNames : \/ awgScript'.saved.members[m] = 0
                                       \/ awgScript'.saved.members[m] > awgBounds'.keys
    BY <1>0, <1>1, <1>3, <1>4 DEF AwgKeysInv
  <2>4. awgScript'.key = awgBounds'.keys + 1 /\ awgScript'.key \in AwgKeys
    BY <1>0, <1>1, <1>3, <1>5 DEF AwgKeysInv, k
  <2>5. \A m \in AwgNames : awgScript'.saved.members[m] # awgScript'.key
    BY <1>0, <1>3, <1>5 DEF AwgKeysInv, k
  <2>6. /\ \A m \in AwgNames \ {awgScript'.name} : members'[m] # awgScript'.key
        /\ members'[awgScript'.name] = awgScript'.key
    BY <1>1, <1>3, <1>7
  <2> QED  BY <1>1, <1>6, <2>1, <2>2, <2>3, <2>4, <2>5, <2>6 DEF AwgKeysInv
<1>13. AwgNodeInv'
  BY <1>3, <1>4, <1>5 DEF AwgNodeInv
<1>14. AwgPolicyInv'
  <2>1. Registered(members)'
    BY <1>0, <1>1, <1>7, <1>8, <1>9 DEF AwgPolicyInv, Registered
  <2>2. Restricts(members, access)'
    BY <1>0, <1>1, <1>7, <1>8, <1>10 DEF AwgPolicyInv, Restricts
  <2>3. Rightful(members, access, Excused)' /\ Rightful(members, staged, Excused)'
    BY <1>0, <1>1, <1>8 DEF AwgPolicyInv, Rightful
  <2> QED  BY <1>1, <1>10, <2>1, <2>2, <2>3 DEF AwgPolicyInv
<1>15. AwgSavedInv'
  BY <1>0, <1>3, <1>4, <1>5, <1>6 DEF AwgSavedInv
<1>16. AwgRegisterInv'
  BY <1>1, <1>3, <1>6, <1>10 DEF AwgRegisterInv, Unnamed, n
<1> QED  BY <1>4, <1>11, <1>12, <1>13, <1>14, <1>15, <1>16 DEF AwgInv

(* An enrolment is over when its node is gone or has made its handshake.    *)
LEMMA AwgCompleteStep ==
    ASSUME AwgInv, CompleteEnrolment
    PROVE  AwgInv'
<1> DEFINE n == awgScript.name
<1>0. /\ AwgShape /\ AwgScriptInv /\ AwgKeysInv /\ AwgNodeInv /\ AwgPolicyInv /\ AwgSavedInv
      /\ AwgRegisterInv
  BY DEF AwgInv
<1>1. /\ awgScript.steps # <<>> /\ AwgNow = "complete" /\ AwgDone
      /\ enrolments' = [enrolments EXCEPT ![n] = NoItem]
      /\ UNCHANGED <<awgClock, members, disabled, access, staged, peers, lastHandshake,
                     awgBounds, awgHistory>>
  BY DEF CompleteEnrolment, NextAwg, AwgNow, NextOf
<1>2. /\ awgScript'.op = awgScript.op /\ awgScript'.name = n /\ awgScript'.key = awgScript.key
      /\ awgScript'.grant = awgScript.grant /\ awgScript'.todo = awgScript.todo
      /\ awgScript'.saved = awgScript.saved /\ n \in AwgNames
      /\ AwgActs' /\ Registering' = Registering /\ Removing' = Removing
  BY <1>1, StepKeeps
<1>3. /\ AwgScriptInv' /\ AwgActs /\ awgScript.op \in {"expire", "confirm"}
      /\ Removing => AwgNow' # "record" /\ ~MayReturn
      /\ MayReturn' => MayReturn
  BY <1>0, <1>1, AwgMoves, AwgLeft
<1>4. ~Registering /\ ~MayReturn
  BY <1>3 DEF Registering, MayReturn
<1>5. Waiting' = Waiting /\ Excused' = Excused
  BY <1>1, <1>2 DEF Waiting, Excused
<1>6. members[n] \notin Waiting
  <2>1. CASE awgScript.op = "expire"
    BY <1>0, <1>1, <2>1, NoughtWaitsNot DEF AwgNodeInv, Removing
  <2>2. CASE awgScript.op = "confirm"
    BY <1>0, <2>2 DEF AwgNodeInv
  <2> QED  BY <1>3, <2>1, <2>2
<1>7. \A m \in AwgNames : /\ m # n => enrolments'[m] = enrolments[m]
                          /\ m = n => enrolments'[m] = NoItem
  BY <1>0, <1>1 DEF AwgShape
<1> HIDE DEF n
<1>8. AwgShape'
  <2>1. NoItem \in [key : {0} \cup AwgKeys, created : Nat] /\ NoItem.created = 0
    BY DEF NoItem
  <2>2. awgClock \in Nat
    BY <1>0 DEF AwgShape
  <2>3. enrolments' \in [AwgNames -> [key : {0} \cup AwgKeys, created : Nat]]
    BY <1>0, <1>1, <2>1 DEF AwgShape
  <2>4. \A m \in AwgNames : /\ enrolments'[m].created <= awgClock
                            /\ enrolments'[m] # NoItem => enrolments'[m].created > 0
    BY <1>0, <1>7, <2>1, <2>2 DEF AwgShape
  <2> QED  BY <1>0, <1>1, <2>3, <2>4 DEF AwgShape
<1>9. AwgKeysInv'
  BY <1>0, <1>1, <1>2, <1>3, <1>4, KeysStay DEF n
<1>10. AwgNodeInv'
  BY <1>0, <1>1, <1>2, <1>3, <1>5 DEF AwgNodeInv, n
<1>11. AwgPolicyInv'
  <2>1. Registered(members)'
    BY <1>0, <1>1, <1>5, <1>6, <1>7 DEF AwgPolicyInv, Registered
  <2>2. Restricts(members, access)' /\ (staged' # NoStaged => Restricts(members, staged)')
    BY <1>0, <1>1, <1>5 DEF AwgPolicyInv, Restricts
  <2>3. Rightful(members, access, Excused)' /\ Rightful(members, staged, Excused)'
    BY <1>0, <1>1, <1>5 DEF AwgPolicyInv, Rightful
  <2> QED  BY <2>1, <2>2, <2>3 DEF AwgPolicyInv
<1>12. AwgSavedInv'
  BY <1>0, <1>2, <1>3, <1>4 DEF AwgSavedInv
<1>13. AwgRegisterInv'
  BY <1>2, <1>3, <1>4 DEF AwgRegisterInv
<1> QED  BY <1>3, <1>8, <1>9, <1>10, <1>11, <1>12, <1>13 DEF AwgInv

(* Every command begins with all of its steps, a registration and a removal *)
(* with the record.                                                        *)
LEMMA StepsBegin ==
    ASSUME NEW op \in AwgOps \ {"none", "plan", "reconcile"}
    PROVE  /\ LeftOf(op, AwgStepsOf(op))
           /\ op \in {"import", "enroll", "remove", "expire"} => NextOf(AwgStepsOf(op)) = "record"
<1>1. CASE op = "import"
  <2>1. AwgStepsOf(op) = <<"record", "stage", "commit", "link", "load">>
    BY <1>1, Zenon DEF AwgStepsOf
  <2> QED  BY <1>1, <2>1 DEF LeftOf, ImportRest, NextOf
<1>2. CASE op = "enroll"
  <2>1. AwgStepsOf(op) = <<"record", "stage", "commit", "link", "load", "start">>
    BY <1>2, Zenon DEF AwgStepsOf
  <2> QED  BY <1>2, <2>1 DEF LeftOf, EnrollRest, NextOf
<1>3. CASE op = "remove"
  <2>1. AwgStepsOf(op) = <<"record", "link", "load", "stage", "commit", "load">>
    BY <1>3, Zenon DEF AwgStepsOf, RemovalSteps
  <2> QED  BY <1>3, <2>1 DEF LeftOf, RemoveReturns, NextOf
<1>4. CASE op = "expire"
  <2>1. AwgStepsOf(op) = RemovalSteps \o <<"complete">>
    BY <1>4, Zenon DEF AwgStepsOf
  <2>2. AwgStepsOf(op) = <<"record", "link", "load", "stage", "commit", "load", "complete">>
    BY <2>1, ExpiryScript
  <2> QED  BY <1>4, <2>2 DEF LeftOf, ExpireReturns, NextOf
<1>5. CASE op = "confirm"
  <2>1. AwgStepsOf(op) = <<"stage", "commit", "link", "load", "complete">>
    BY <1>5, Zenon DEF AwgStepsOf, ConfirmSteps
  <2> QED  BY <1>5, <2>1 DEF LeftOf, ConfirmRest
<1>6. CASE op \in {"enable", "disable"}
  <2>1. AwgStepsOf(op) = <<"record", "link", "load">>
    BY <1>6, Zenon DEF AwgStepsOf
  <2> QED  BY <1>6, <2>1 DEF LeftOf, SwitchRest
<1>7. CASE op \in {"mode", "allow", "deny"}
  <2>1. AwgStepsOf(op) = <<"stage", "load", "commit">>
    BY <1>7, Zenon DEF AwgStepsOf
  <2> QED  BY <1>7, <2>1 DEF LeftOf, PolicyRest
<1> QED  BY <1>1, <1>2, <1>3, <1>4, <1>5, <1>6, <1>7 DEF AwgOps

(* When no registration is under way, or it has put the old policy away,    *)
(* only keys of killed registrations are excused.                          *)
LEMMA NothingInherited ==
    ASSUME AwgInv, Registering => AwgNow \in {"link", "load", "start", ""}
    PROVE  Rightful(members, access, awgHistory.cutOff)
           /\ Rightful(members, staged, awgHistory.cutOff)
<1>0. AwgPolicyInv /\ AwgKeysInv /\ AwgRegisterInv
  BY DEF AwgInv
<1>1. CASE ~Registering
  <2>1. Excused = awgHistory.cutOff
    BY <1>1 DEF Excused
  <2> QED  BY <1>0, <2>1 DEF AwgPolicyInv
<1>2. CASE Registering
  <2> DEFINE n == awgScript.name
  <2>1. staged = NoStaged /\ Unnamed(access, n)
    BY <1>0, <1>2 DEF AwgRegisterInv
  <2>2. \A m \in AwgNames \ {n} : members[m] # awgScript.key
    BY <1>0, <1>2 DEF AwgKeysInv
  <2>3. access \in AwgPolicies
    BY DEF AwgInv, AwgShape
  <2>4. \A a \in access.allow :
            /\ a.from \in AwgNames \ {n}
            /\ a.to # "vps" => a.to \in AwgNames \ {n}
    BY <2>1, <2>3 DEF AwgPolicies, Unnamed
  <2>5. Rightful(members, access, Excused) /\ Excused = awgHistory.cutOff \cup {awgScript.key}
    BY <1>0, <1>2 DEF AwgPolicyInv, Excused
  <2>6. Rightful(members, access, awgHistory.cutOff)
    BY <2>2, <2>4, <2>5 DEF Rightful
  <2>7. Rightful(members, staged, awgHistory.cutOff)
    BY <2>1 DEF Rightful, NoStaged
  <2> QED  BY <2>6, <2>7
<1> QED  BY <1>1, <1>2

(* A state between commands.                                               *)
LEMMA RestFollows ==
    ASSUME AwgShape', AwgScriptInv', ~AwgActs',
           \A n \in AwgNames : members'[n] = 0 \/ members'[n] > awgBounds'.keys,
           \A k \in awgHistory'.enrolled : k > awgBounds'.keys,
           \A m \in AwgNames : <<"confirm", m>> \in awgScript'.todo => members'[m] \notin Waiting',
           Registered(members)', Restricts(members, access)',
           staged' # NoStaged => Restricts(members, staged)',
           Rightful(members, access, awgHistory.cutOff)',
           Rightful(members, staged, awgHistory.cutOff)'
    PROVE  AwgInv'
<1>1. /\ ~Registering' /\ ~Removing' /\ ~MayReturn'
      /\ awgScript'.op \notin {"disable", "confirm", "mode", "enroll"}
  BY DEF AwgActs, Registering, Removing, MayReturn
<1>2. Excused' = awgHistory'.cutOff
  BY <1>1 DEF Excused
<1>3. AwgKeysInv'
  BY <1>1 DEF AwgKeysInv
<1>4. AwgNodeInv'
  BY <1>1 DEF AwgNodeInv
<1>5. AwgPolicyInv'
  BY <1>2 DEF AwgPolicyInv
<1>6. AwgSavedInv'
  BY <1>1 DEF AwgSavedInv
<1>7. AwgRegisterInv'
  BY <1>1 DEF AwgRegisterInv
<1> QED  BY <1>3, <1>4, <1>5, <1>6, <1>7 DEF AwgInv

(* A command saves the files as it begins.                                 *)
LEMMA CommandBegins ==
    ASSUME NEW op \in AwgOps \ {"none", "plan", "reconcile"}, NEW n \in AwgNames,
           NEW key, NEW to, NEW steps, NEW todo,
           AwgInv, AwgShape',
           awgScript' = [op |-> op, name |-> n, key |-> key, grant |-> to, steps |-> steps,
                         todo |-> todo, saved |-> [members |-> members, disabled |-> disabled,
                                                   access |-> access]],
           UNCHANGED <<members, disabled, access, staged, enrolments>>,
           awgHistory'.enrolled = awgHistory.enrolled,
           awgHistory'.shaken = awgHistory.shaken, awgHistory'.cutOff = awgHistory.cutOff,
           Waiting' \subseteq Waiting,
           Registering => AwgNow \in {"link", "load", "start", ""},
           LeftOf(op, steps),
           op = "mode" => to \in {"restricted", "unrestricted"},
           op \in {"allow", "deny"} => to \in AwgNames \cup {"vps"},
           todo \subseteq {"confirm", "expire"} \X AwgNames,
           op \notin {"confirm", "expire"} => todo = {},
           op \in {"import", "enroll"} =>
              /\ key = awgBounds.keys /\ key > 0 /\ key = awgBounds'.keys + 1
              /\ key \in AwgKeys /\ members[n] = 0 /\ NextOf(steps) = "record",
           awgBounds'.keys \in Nat, awgBounds'.keys <= awgBounds.keys,
           op \in {"remove", "expire"} => NextOf(steps) = "record" \/ members[n] = 0,
           op = "disable" => members[n] # 0,
           op = "confirm" => members[n] \notin Waiting,
           op = "mode" /\ to = "unrestricted" => members[n] \notin Waiting',
           \A m \in AwgNames : <<"confirm", m>> \in todo => members[m] \notin Waiting
    PROVE  AwgInv'
<1>0. /\ AwgShape /\ AwgScriptInv /\ AwgKeysInv /\ AwgPolicyInv
  BY DEF AwgInv
<1>1. /\ awgScript'.op = op /\ awgScript'.name = n /\ awgScript'.key = key
      /\ awgScript'.grant = to /\ awgScript'.steps = steps /\ awgScript'.todo = todo
      /\ awgScript'.saved.members = members /\ awgScript'.saved.disabled = disabled
      /\ awgScript'.saved.access = access
  OBVIOUS
<1>2. /\ Registering' <=> op \in {"import", "enroll"}
      /\ Removing' <=> op \in {"remove", "expire"}
      /\ AwgActs' /\ AwgNow' = NextOf(steps)
  BY <1>1 DEF Registering, Removing, AwgActs, AwgNow
<1>3. AwgScriptInv'
  BY <1>1 DEF AwgScriptInv
<1>5. /\ \A m \in AwgNames : members[m] = 0 \/ members[m] > awgBounds'.keys
      /\ \A k \in awgHistory.enrolled : k > awgBounds'.keys
      /\ awgBounds.keys \notin awgHistory.enrolled
      /\ awgBounds.keys > 0 => \A m \in AwgNames : members[m] # awgBounds.keys
  BY KeysGivenOut
<1>6. AwgKeysInv'
  <2>1. /\ \A m \in AwgNames : members'[m] = 0 \/ members'[m] > awgBounds'.keys
        /\ \A k \in awgHistory'.enrolled : k > awgBounds'.keys
    BY <1>5
  <2>2. ASSUME Registering'
        PROVE  /\ key = awgBounds'.keys + 1 /\ key \in AwgKeys
               /\ key \notin awgHistory'.enrolled
               /\ \A m \in AwgNames : members[m] # key
               /\ members[n] = 0 /\ AwgNow' = "record"
    BY <1>2, <1>5, <2>2
  <2> QED  BY <1>1, <2>1, <2>2 DEF AwgKeysInv
<1>7. AwgNodeInv'
  BY <1>1, <1>2 DEF AwgNodeInv
<1>8. /\ Rightful(members, access, awgHistory.cutOff)
      /\ Rightful(members, staged, awgHistory.cutOff)
  BY NothingInherited
<1>9. awgHistory'.cutOff \subseteq Excused'
  BY DEF Excused
<1>10. /\ Registered(members) /\ Restricts(members, access)
       /\ staged # NoStaged => Restricts(members, staged)
  BY <1>0 DEF AwgPolicyInv
<1>11. AwgPolicyInv'
  <2>1. Registered(members)' /\ Restricts(members, access)'
        /\ (staged' # NoStaged => Restricts(members, staged)')
    BY <1>10 DEF Registered, Restricts
  <2>2. Rightful(members, access, Excused)' /\ Rightful(members, staged, Excused)'
    BY <1>8, <1>9 DEF Rightful
  <2> QED  BY <2>1, <2>2 DEF AwgPolicyInv
<1>12. AwgSavedInv'
  <2>1. /\ members \in NodeLists /\ access \in AwgPolicies
        /\ disabled \subseteq {m \in AwgNames : members[m] # 0}
    BY <1>0 DEF AwgShape
  <2>2. /\ Registered(awgScript.saved.members)'
        /\ Restricts(awgScript.saved.members, awgScript.saved.access)'
        /\ staged' # NoStaged => Restricts(awgScript.saved.members, staged)'
    BY <1>1, <1>10 DEF Registered, Restricts
  <2>3. /\ Rightful(awgScript.saved.members, awgScript.saved.access, awgHistory.cutOff)'
        /\ Rightful(awgScript.saved.members, staged, awgHistory.cutOff)'
    BY <1>1, <1>8 DEF Rightful
  <2> QED  BY <1>1, <2>1, <2>2, <2>3 DEF AwgSavedInv
<1>13. AwgRegisterInv'
  BY <1>1, <1>2 DEF AwgRegisterInv
<1> QED  BY <1>3, <1>6, <1>7, <1>11, <1>12, <1>13 DEF AwgInv

(* Registering a node: the command takes the next key.                     *)
LEMMA AwgRegisterStep ==
    ASSUME AwgInv, RegisterNode
    PROVE  AwgInv'
<1>0. AwgShape /\ AwgScriptInv
  BY DEF AwgInv
<1>1. PICK n \in AwgNames, op \in {"import", "enroll"} :
          members[n] = 0 /\ awgScript' = AwgCommand(op, n, awgBounds.keys, "", {})
  BY DEF RegisterNode
<1> DEFINE left == awgBounds.keys - 1
<1>2. awgBounds \in [keys : Nat, changes : Nat, troubles : Nat] /\ awgBounds.keys > 0
  BY <1>0 DEF RegisterNode, SpendAwg, AwgShape
<1>3. left \in Nat /\ left <= awgBounds.keys /\ awgBounds.keys = left + 1
  BY <1>2
<1>4. awgBounds' = [keys |-> left, changes |-> awgBounds.changes, troubles |-> awgBounds.troubles]
  BY <1>2 DEF RegisterNode, SpendAwg
<1> HIDE DEF left
<1>5. awgBounds.keys \in AwgKeys
  <2>1. awgBounds.keys <= MaxAwgKeys
    BY <1>0 DEF AwgShape
  <2> QED  BY <1>2, <2>1, AwgAssumption DEF AwgKeys
<1>6. UNCHANGED <<awgClock, members, disabled, access, staged, peers, reach, enrolments,
                  lastHandshake, awgHistory>>
  BY DEF RegisterNode
<1>7. AwgShape' /\ awgBounds'.keys = left
  <2>1. awgBounds' \in [keys : Nat, changes : Nat, troubles : Nat] /\ awgBounds'.keys = left
    BY <1>2, <1>3, <1>4
  <2>2. left <= MaxAwgKeys
    BY <1>0, <1>2, <1>3, AwgAssumption DEF AwgShape
  <2> QED  BY <1>0, <1>6, <2>1, <2>2 DEF AwgShape
<1>8. ~Registering /\ Waiting' = Waiting
  BY <1>6 DEF RegisterNode, Registering, AwgIdle, Waiting
<1>9. /\ awgScript' = [op |-> op, name |-> n, key |-> awgBounds.keys, grant |-> "",
                       steps |-> AwgStepsOf(op), todo |-> {},
                       saved |-> [members |-> members, disabled |-> disabled, access |-> access]]
      /\ LeftOf(op, AwgStepsOf(op)) /\ NextOf(AwgStepsOf(op)) = "record"
  BY <1>1, StepsBegin DEF AwgCommand, AwgOps
<1>10. op \in AwgOps \ {"none", "plan", "reconcile"} /\ op \in {"import", "enroll"}
  BY DEF AwgOps
<1>11. /\ awgBounds.keys = awgBounds'.keys + 1
       /\ awgBounds'.keys \in Nat /\ awgBounds'.keys <= awgBounds.keys
  BY <1>3, <1>7
<1>12. awgHistory'.enrolled = awgHistory.enrolled /\ awgHistory'.shaken = awgHistory.shaken
       /\ awgHistory'.cutOff = awgHistory.cutOff /\ Waiting' \subseteq Waiting
  BY <1>6, <1>8
<1>13. PICK key, steps, to, todo :
           key = awgBounds.keys /\ steps = AwgStepsOf(op) /\ to = "" /\ todo = {}
  OBVIOUS
<1>14. awgScript' = [op |-> op, name |-> n, key |-> key, grant |-> to, steps |-> steps,
                     todo |-> todo, saved |-> [members |-> members, disabled |-> disabled,
                                               access |-> access]]
  BY <1>9, <1>13
<1>15. op \in {"import", "enroll"} =>
              /\ key = awgBounds.keys /\ key > 0 /\ key = awgBounds'.keys + 1
              /\ key \in AwgKeys /\ members[n] = 0 /\ NextOf(steps) = "record"
  BY <1>1, <1>2, <1>5, <1>9, <1>11, <1>13
<1>16. /\ Registering => AwgNow \in {"link", "load", "start", ""}
       /\ LeftOf(op, steps)
       /\ op = "mode" => to \in {"restricted", "unrestricted"}
       /\ op \in {"allow", "deny"} => to \in AwgNames \cup {"vps"}
       /\ todo \subseteq {"confirm", "expire"} \X AwgNames
       /\ op \notin {"confirm", "expire"} => todo = {}
       /\ op \in {"remove", "expire"} => NextOf(steps) = "record" \/ members[n] = 0
       /\ op = "disable" => members[n] # 0
       /\ op = "confirm" => members[n] \notin Waiting
       /\ op = "mode" /\ to = "unrestricted" => members[n] \notin Waiting'
       /\ \A m \in AwgNames : <<"confirm", m>> \in todo => members[m] \notin Waiting
  BY <1>8, <1>9, <1>13
<1> QED  BY <1>6, <1>7, <1>10, <1>11, <1>12, <1>14, <1>15, <1>16, CommandBegins

(* A number is not above itself.                                           *)
LEMMA NotAboveItself == \A k \in Nat : k <= k
OBVIOUS

(* Every other command begins with what it is about to work on.            *)
LEMMA PlainCommand ==
    ASSUME NEW op \in AwgOps \ {"none", "plan", "reconcile", "import", "enroll"},
           NEW n \in AwgNames, NEW to, NEW todo,
           AwgInv, AwgShape', awgScript' = AwgCommand(op, n, 0, to, todo),
           UNCHANGED <<members, disabled, access, staged, enrolments>>,
           awgBounds'.keys = awgBounds.keys,
           awgHistory'.enrolled = awgHistory.enrolled,
           awgHistory'.shaken = awgHistory.shaken, awgHistory'.cutOff = awgHistory.cutOff,
           Waiting' \subseteq Waiting,
           Registering => AwgNow \in {"link", "load", "start", ""},
           op = "mode" => to \in {"restricted", "unrestricted"},
           op \in {"allow", "deny"} => to \in AwgNames \cup {"vps"},
           todo \subseteq {"confirm", "expire"} \X AwgNames,
           op \notin {"confirm", "expire"} => todo = {},
           op = "disable" => members[n] # 0,
           op = "confirm" => members[n] \notin Waiting,
           op = "mode" /\ to = "unrestricted" => members[n] \notin Waiting',
           \A m \in AwgNames : <<"confirm", m>> \in todo => members[m] \notin Waiting
    PROVE  AwgInv'
<1>1. op \in AwgOps \ {"none", "plan", "reconcile"} /\ op \notin {"import", "enroll"}
  OBVIOUS
<1>2. awgBounds.keys \in Nat
  BY NoughtWaitsNot
<1>3. awgBounds'.keys \in Nat /\ awgBounds'.keys <= awgBounds.keys
  <2>1. awgBounds'.keys = awgBounds.keys
    OBVIOUS
  <2> QED  BY <1>2, <2>1, NotAboveItself
<1>4. PICK key, steps : key = 0 /\ steps = AwgStepsOf(op)
  OBVIOUS
<1>5. LeftOf(op, steps) /\ (op \in {"remove", "expire"} => NextOf(steps) = "record")
  BY <1>1, <1>4, StepsBegin
<1>6. awgScript' = [op |-> op, name |-> n, key |-> key, grant |-> to, steps |-> steps,
                    todo |-> todo, saved |-> [members |-> members, disabled |-> disabled,
                                              access |-> access]]
  BY <1>4 DEF AwgCommand
<1>7. /\ op \in {"import", "enroll"} =>
              /\ key = awgBounds.keys /\ key > 0 /\ key = awgBounds'.keys + 1
              /\ key \in AwgKeys /\ members[n] = 0 /\ NextOf(steps) = "record"
      /\ op \in {"remove", "expire"} => NextOf(steps) = "record" \/ members[n] = 0
  BY <1>1, <1>5
<1> QED  BY <1>1, <1>3, <1>5, <1>6, <1>7, CommandBegins

(* Bounds that are spent change no key.                                    *)
LEMMA SpentBounds ==
    ASSUME AwgInv, NEW what \in {"changes", "troubles"}, SpendAwg(what)
    PROVE  /\ awgBounds'.keys = awgBounds.keys
           /\ awgBounds' \in [keys : Nat, changes : Nat, troubles : Nat]
<1>1. awgBounds \in [keys : Nat, changes : Nat, troubles : Nat]
  BY DEF AwgInv, AwgShape
<1>2. CASE what = "changes"
  <2>1. /\ awgBounds.changes > 0
        /\ awgBounds' = [keys |-> awgBounds.keys, changes |-> awgBounds.changes - 1,
                         troubles |-> awgBounds.troubles]
    BY <1>1, <1>2 DEF SpendAwg
  <2> QED  BY <1>1, <2>1
<1>3. CASE what = "troubles"
  <2>1. /\ awgBounds.troubles > 0
        /\ awgBounds' = [keys |-> awgBounds.keys, changes |-> awgBounds.changes,
                         troubles |-> awgBounds.troubles - 1]
    BY <1>1, <1>3 DEF SpendAwg
  <2> QED  BY <1>1, <2>1
<1> QED  BY <1>2, <1>3

(* An administrator changes a node; one that is opened does not wait.      *)
LEMMA AwgChangeStep ==
    ASSUME AwgInv, ChangeNode
    PROVE  AwgInv'
<1>0. AwgShape /\ AwgScriptInv
  BY DEF AwgInv
<1>1. ~Registering /\ SpendAwg("changes")
      /\ UNCHANGED <<awgClock, members, disabled, access, staged, peers, reach, enrolments,
                     lastHandshake>>
  BY DEF ChangeNode, Registering, AwgIdle
<1>2. awgBounds'.keys = awgBounds.keys
      /\ awgBounds' \in [keys : Nat, changes : Nat, troubles : Nat]
  BY <1>1, SpentBounds
<1>3. PICK n \in AwgNames :
          \/ /\ members[n] # 0
             /\ awgScript' = AwgCommand("remove", n, 0, "", {})
             /\ UNCHANGED awgHistory
          \/ /\ members[n] # 0
             /\ \E op \in {IF n \in disabled THEN "enable" ELSE "disable"} :
                   awgScript' = AwgCommand(op, n, 0, "", {})
             /\ UNCHANGED awgHistory
          \/ /\ n \in Enabled
             /\ \E mode \in {"restricted", "unrestricted"} :
                   /\ awgScript' = AwgCommand("mode", n, 0, mode, {})
                   /\ awgHistory' = IF mode = "restricted" THEN awgHistory
                                    ELSE [awgHistory EXCEPT !.opened = @ \cup {members[n]}]
          \/ /\ n \in Enabled
             /\ \E to \in (Enabled \cup {"vps"}) \ {n}, op \in {"allow", "deny"} :
                   awgScript' = AwgCommand(op, n, 0, to, {})
             /\ UNCHANGED awgHistory
  BY DEF ChangeNode
<1> DEFINE Changes == AwgOps \ {"none", "plan", "reconcile", "import", "enroll", "confirm"}
           Grants == AwgNames \cup {"", "vps", "restricted", "unrestricted"}
<1>4. PICK op \in Changes, to \in Grants :
          /\ awgScript' = AwgCommand(op, n, 0, to, {})
          /\ op = "mode" => to \in {"restricted", "unrestricted"}
          /\ op \in {"allow", "deny"} => to \in AwgNames \cup {"vps"}
          /\ op = "disable" => members[n] # 0
          /\ ~(op = "mode" /\ to = "unrestricted") => UNCHANGED awgHistory
          /\ op = "mode" /\ to = "unrestricted" =>
                awgHistory' = [awgHistory EXCEPT !.opened = @ \cup {members[n]}]
  <2>1. CASE awgScript' = AwgCommand("remove", n, 0, "", {}) /\ UNCHANGED awgHistory
    <3>1. "remove" \in Changes /\ "" \in Grants
      BY DEF AwgOps
    <3> QED  BY <2>1, <3>1
  <2>2. CASE /\ members[n] # 0
             /\ \E op \in {"enable", "disable"} : awgScript' = AwgCommand(op, n, 0, "", {})
             /\ UNCHANGED awgHistory
    <3>1. PICK op \in {"enable", "disable"} : awgScript' = AwgCommand(op, n, 0, "", {})
      BY <2>2
    <3>2. /\ op \in Changes
          /\ op \notin {"mode", "allow", "deny"} /\ "" \in Grants
      BY DEF AwgOps
    <3> QED  BY <2>2, <3>1, <3>2
  <2>3. CASE \E mode \in {"restricted", "unrestricted"} :
                   /\ awgScript' = AwgCommand("mode", n, 0, mode, {})
                   /\ awgHistory' = IF mode = "restricted" THEN awgHistory
                                    ELSE [awgHistory EXCEPT !.opened = @ \cup {members[n]}]
    BY <2>3 DEF AwgOps
  <2>4. CASE /\ \E to \in AwgNames \cup {"vps"}, op \in {"allow", "deny"} :
                   awgScript' = AwgCommand(op, n, 0, to, {})
             /\ UNCHANGED awgHistory
    BY <2>4 DEF AwgOps
  <2>5. Enabled \subseteq AwgNames
    BY DEF Enabled
  <2> QED  BY <1>3, <2>1, <2>2, <2>3, <2>4, <2>5
<1>5. awgHistory = [enrolled |-> awgHistory.enrolled, opened |-> awgHistory.opened,
                    cutOff |-> awgHistory.cutOff, stranded |-> awgHistory.stranded,
                    shaken |-> awgHistory.shaken]
  BY <1>0 DEF AwgShape
<1>6. PICK more \in SUBSET {members[n]} :
          /\ awgHistory' = [enrolled |-> awgHistory.enrolled,
                            opened |-> awgHistory.opened \cup more,
                            cutOff |-> awgHistory.cutOff, stranded |-> awgHistory.stranded,
                            shaken |-> awgHistory.shaken]
          /\ op = "mode" /\ to = "unrestricted" => more = {members[n]}
  <2>1. CASE op = "mode" /\ to = "unrestricted"
    <3>1. awgHistory' = [enrolled |-> awgHistory.enrolled,
                         opened |-> awgHistory.opened \cup {members[n]},
                         cutOff |-> awgHistory.cutOff, stranded |-> awgHistory.stranded,
                         shaken |-> awgHistory.shaken]
      BY <1>4, <1>5, <2>1
    <3> QED  BY <3>1
  <2>2. CASE ~(op = "mode" /\ to = "unrestricted")
    <3>1. awgHistory' = awgHistory
      BY <1>4, <2>2
    <3>2. awgHistory.opened \cup {} = awgHistory.opened
      OBVIOUS
    <3>3. awgHistory' = [enrolled |-> awgHistory.enrolled,
                         opened |-> awgHistory.opened \cup {},
                         cutOff |-> awgHistory.cutOff, stranded |-> awgHistory.stranded,
                         shaken |-> awgHistory.shaken]
      BY <1>5, <3>1, <3>2
    <3>4. {} \in SUBSET {members[n]}
      OBVIOUS
    <3> QED  BY <2>2, <3>3, <3>4
  <2> QED  BY <2>1, <2>2
<1>7. /\ awgHistory'.enrolled = awgHistory.enrolled /\ awgHistory'.shaken = awgHistory.shaken
      /\ awgHistory'.cutOff = awgHistory.cutOff /\ awgHistory.opened \subseteq awgHistory'.opened
      /\ op = "mode" /\ to = "unrestricted" => members[n] \in awgHistory'.opened
      /\ awgHistory' = [enrolled |-> awgHistory'.enrolled, opened |-> awgHistory'.opened,
                        cutOff |-> awgHistory'.cutOff, stranded |-> awgHistory'.stranded,
                        shaken |-> awgHistory'.shaken]
  BY <1>6
<1>8. /\ Waiting' \subseteq Waiting
      /\ op = "mode" /\ to = "unrestricted" => members[n] \notin Waiting'
  BY <1>7 DEF Waiting
<1>9. AwgShape'
  BY <1>0, <1>1, <1>2, <1>7 DEF AwgShape
<1>10. PICK todo : todo = {}
  OBVIOUS
<1>11. /\ op \in AwgOps \ {"none", "plan", "reconcile", "import", "enroll"}
       /\ todo \subseteq {"confirm", "expire"} \X AwgNames
       /\ op \notin {"confirm", "expire"} => todo = {}
       /\ op = "confirm" => members[n] \notin Waiting
       /\ \A m \in AwgNames : <<"confirm", m>> \in todo => members[m] \notin Waiting
       /\ awgScript' = AwgCommand(op, n, 0, to, todo)
       /\ op = "mode" => to \in {"restricted", "unrestricted"}
       /\ op \in {"allow", "deny"} => to \in AwgNames \cup {"vps"}
       /\ op = "disable" => members[n] # 0
  BY <1>4, <1>10
<1> QED  BY <1>1, <1>2, <1>7, <1>8, <1>9, <1>11, PlainCommand

(* Reading the handshakes changes nothing.                                 *)
LEMMA AwgBeginStep ==
    ASSUME AwgInv, BeginReconcile
    PROVE  AwgInv'
<1>0. AwgShape /\ AwgScriptInv /\ AwgKeysInv /\ AwgPolicyInv
  BY DEF AwgInv
<1>1. /\ awgScript = AwgIdle
      /\ UNCHANGED <<awgClock, members, disabled, access, staged, peers, reach, enrolments,
                     lastHandshake, awgBounds, awgHistory>>
  BY DEF BeginReconcile
<1>2. awgScript' = [op |-> "plan", name |-> "", key |-> 0, grant |-> "", steps |-> <<>>,
                    todo |-> {}, saved |-> lastHandshake]
  BY DEF BeginReconcile, AwgIdle
<1>3. /\ awgScript'.op = "plan" /\ awgScript'.name = "" /\ awgScript'.key = 0
      /\ awgScript'.grant = "" /\ awgScript'.steps = <<>> /\ awgScript'.todo = {}
      /\ awgScript'.saved = lastHandshake
  BY <1>2
<1>4. AwgScriptInv'
  <2>1. lastHandshake \in [AwgKeys -> Nat]
    BY <1>0 DEF AwgShape
  <2>2. \A k \in AwgKeys : lastHandshake[k] > 0 => k \in awgHistory'.shaken
    BY <1>0, <1>1 DEF AwgShape
  <2>3. LeftOf("plan", <<>>) /\ "plan" \in AwgOps
    BY DEF LeftOf, AwgOps
  <2>4. ~AwgActs'
    BY <1>3 DEF AwgActs
  <2> QED  BY <1>2, <1>3, <2>1, <2>2, <2>3, <2>4 DEF AwgScriptInv
<1>5. AwgShape' /\ ~AwgActs'
  BY <1>0, <1>1, <1>3 DEF AwgShape, AwgActs
<1>6. /\ Rightful(members, access, awgHistory.cutOff)
      /\ Rightful(members, staged, awgHistory.cutOff)
  <2>1. ~Registering
    BY <1>1 DEF Registering, AwgIdle
  <2> QED  BY <2>1, NothingInherited
<1>7. /\ \A n \in AwgNames : members'[n] = 0 \/ members'[n] > awgBounds'.keys
      /\ \A k \in awgHistory'.enrolled : k > awgBounds'.keys
      /\ \A m \in AwgNames : <<"confirm", m>> \in awgScript'.todo => members'[m] \notin Waiting'
  BY <1>0, <1>1, <1>3 DEF AwgKeysInv
<1>8. /\ Registered(members)' /\ Restricts(members, access)'
      /\ staged' # NoStaged => Restricts(members, staged)'
      /\ Rightful(members, access, awgHistory.cutOff)'
      /\ Rightful(members, staged, awgHistory.cutOff)'
  BY <1>0, <1>1, <1>6 DEF AwgPolicyInv, Registered, Restricts, Rightful, Waiting
<1> QED  BY <1>4, <1>5, <1>7, <1>8, RestFollows

(* The timer confirms only a node whose handshake it has seen.              *)
LEMMA AwgPlanStep ==
    ASSUME AwgInv, PlanReconcile
    PROVE  AwgInv'
<1> DEFINE seen == awgScript.saved
           confirms == {<<"confirm", n>> : n \in {m \in Pending : ConfirmItem(m, seen)}}
           expires == {<<"expire", n>> : n \in {m \in Pending : ExpireItem(m, seen)}}
<1>0. AwgShape /\ AwgScriptInv /\ AwgKeysInv /\ AwgPolicyInv
  BY DEF AwgInv
<1>1. /\ awgScript.op = "plan"
      /\ awgScript' = [AwgIdle EXCEPT !.op = "reconcile", !.todo = confirms \cup expires]
      /\ UNCHANGED <<awgClock, members, disabled, access, staged, peers, reach, enrolments,
                     lastHandshake, awgBounds, awgHistory>>
  BY DEF PlanReconcile
<1> HIDE DEF confirms, expires
<1>2. awgScript' = [op |-> "reconcile", name |-> "", key |-> 0, grant |-> "", steps |-> <<>>,
                    todo |-> confirms \cup expires, saved |-> <<>>]
  BY <1>1 DEF AwgIdle
<1>3. /\ awgScript'.op = "reconcile" /\ awgScript'.name = "" /\ awgScript'.key = 0
      /\ awgScript'.grant = "" /\ awgScript'.steps = <<>>
      /\ awgScript'.todo = confirms \cup expires /\ awgScript'.saved = <<>>
  BY <1>2
<1>4. AwgScriptInv'
  <2>1. confirms \cup expires \subseteq {"confirm", "expire"} \X AwgNames
    BY DEF confirms, expires, Pending
  <2>2. LeftOf("reconcile", <<>>) /\ "reconcile" \in AwgOps
    BY DEF LeftOf, AwgOps
  <2>3. ~AwgActs'
    BY <1>3 DEF AwgActs
  <2> QED  BY <1>2, <1>3, <2>1, <2>2, <2>3 DEF AwgScriptInv
<1>5. AwgShape' /\ ~AwgActs'
  BY <1>0, <1>1, <1>3 DEF AwgShape, AwgActs
<1>6. /\ Rightful(members, access, awgHistory.cutOff)
      /\ Rightful(members, staged, awgHistory.cutOff)
  <2>1. ~Registering
    BY <1>1 DEF Registering
  <2> QED  BY <2>1, NothingInherited
<1>7. ASSUME NEW m \in AwgNames, <<"confirm", m>> \in confirms \cup expires
      PROVE  members[m] \notin Waiting
  <2>1. m \in Pending /\ ConfirmItem(m, seen)
    BY <1>7 DEF confirms, expires
  <2> DEFINE k == enrolments[m].key
  <2>2. CASE k \in AwgKeys
    <3>1. enrolments[m].created > 0 /\ enrolments[m].created \in Nat
      BY <1>0, <2>1 DEF AwgShape, Pending
    <3>2. seen[k] \in Nat /\ seen[k] >= enrolments[m].created
      BY <1>0, <1>1, <2>1, <2>2 DEF AwgScriptInv, ConfirmItem
    <3>3. seen[k] > 0
      BY <3>1, <3>2
    <3>4. k \in awgHistory.shaken
      BY <1>0, <1>1, <2>2, <3>3 DEF AwgScriptInv
    <3> QED  BY <1>0, <3>4 DEF AwgPolicyInv, Registered, Waiting
  <2>3. CASE k = 0
    BY <1>0, <2>3, NoughtWaitsNot DEF AwgPolicyInv, Registered
  <2> QED  BY <1>0, <2>2, <2>3 DEF AwgShape
<1>8. /\ \A n \in AwgNames : members'[n] = 0 \/ members'[n] > awgBounds'.keys
      /\ \A k \in awgHistory'.enrolled : k > awgBounds'.keys
  BY <1>0, <1>1 DEF AwgKeysInv
<1>9. \A m \in AwgNames : <<"confirm", m>> \in awgScript'.todo => members'[m] \notin Waiting'
  BY <1>1, <1>3, <1>7 DEF Waiting
<1>10. /\ Registered(members)' /\ Restricts(members, access)'
       /\ staged' # NoStaged => Restricts(members, staged)'
       /\ Rightful(members, access, awgHistory.cutOff)'
       /\ Rightful(members, staged, awgHistory.cutOff)'
  BY <1>0, <1>1, <1>6 DEF AwgPolicyInv, Registered, Restricts, Rightful, Waiting
<1> QED  BY <1>4, <1>5, <1>8, <1>9, <1>10, RestFollows

(* The script of nobody.                                                   *)
LEMMA NodesRest ==
    ASSUME awgScript' = AwgIdle
    PROVE  AwgScriptInv' /\ ~AwgActs' /\ awgScript'.todo = {}
<1>1. /\ awgScript'.op = "none" /\ awgScript'.name = "" /\ awgScript'.key = 0
      /\ awgScript'.grant = "" /\ awgScript'.steps = <<>> /\ awgScript'.todo = {}
      /\ awgScript' = [op |-> awgScript'.op, name |-> awgScript'.name, key |-> awgScript'.key,
                       grant |-> awgScript'.grant, steps |-> awgScript'.steps,
                       todo |-> awgScript'.todo, saved |-> awgScript'.saved]
  BY DEF AwgIdle
<1>2. LeftOf("none", <<>>) /\ "none" \in AwgOps
  BY DEF LeftOf, AwgOps
<1>3. ~AwgActs'
  BY <1>1 DEF AwgActs
<1> QED  BY <1>1, <1>2, <1>3 DEF AwgScriptInv

(* A command returns: the old permissions of its node are gone.             *)
LEMMA AwgReturnStep ==
    ASSUME AwgInv, AwgReturn
    PROVE  AwgInv'
<1>0. AwgShape /\ AwgScriptInv /\ AwgKeysInv /\ AwgPolicyInv
  BY DEF AwgInv
<1>1. /\ awgScript.steps = <<>> /\ awgScript' = AwgIdle
      /\ UNCHANGED <<awgClock, members, disabled, access, staged, peers, reach, enrolments,
                     lastHandshake, awgBounds, awgHistory>>
  BY DEF AwgReturn
<1>3. AwgScriptInv' /\ ~AwgActs' /\ awgScript'.todo = {}
  BY <1>1, NodesRest
<1>4. AwgShape'
  BY <1>0, <1>1 DEF AwgShape
<1>5. /\ Rightful(members, access, awgHistory.cutOff)
      /\ Rightful(members, staged, awgHistory.cutOff)
  <2>1. AwgNow = ""
    BY <1>1 DEF AwgNow, NextOf
  <2> QED  BY <2>1, NothingInherited
<1>6. /\ \A n \in AwgNames : members'[n] = 0 \/ members'[n] > awgBounds'.keys
      /\ \A k \in awgHistory'.enrolled : k > awgBounds'.keys
      /\ \A m \in AwgNames : <<"confirm", m>> \in awgScript'.todo => members'[m] \notin Waiting'
  BY <1>0, <1>1, <1>3 DEF AwgKeysInv
<1>7. /\ Registered(members)' /\ Restricts(members, access)'
      /\ staged' # NoStaged => Restricts(members, staged)'
      /\ Rightful(members, access, awgHistory.cutOff)'
      /\ Rightful(members, staged, awgHistory.cutOff)'
  BY <1>0, <1>1, <1>5 DEF AwgPolicyInv, Registered, Restricts, Rightful, Waiting
<1> QED  BY <1>3, <1>4, <1>6, <1>7, RestFollows

(* The timer takes the next enrolment: it confirms nobody that waits.      *)
LEMMA AwgReconcileStep ==
    ASSUME AwgInv, ReconcileNext
    PROVE  AwgInv'
<1>0. AwgShape /\ AwgScriptInv /\ AwgKeysInv /\ AwgNodeInv /\ AwgPolicyInv
  BY DEF AwgInv
<1>1. /\ awgScript.op \in {"reconcile", "confirm", "expire"}
      /\ UNCHANGED <<awgClock, members, disabled, access, staged, peers, reach, enrolments,
                     lastHandshake, awgBounds, awgHistory>>
  BY DEF ReconcileNext
<1>2. PICK act \in awgScript.todo :
          LET n == act[2]
              rest == awgScript.todo \ {act}
          IN awgScript' =
               CASE act[1] = "expire" /\ members[n] = 0 ->
                        [AwgCommand("expire", n, 0, "", rest) EXCEPT !.steps = <<"complete">>]
                 [] act[1] = "confirm" /\ n \notin Enabled ->
                        [AwgIdle EXCEPT !.op = "reconcile", !.todo = rest]
                 [] OTHER -> AwgCommand(act[1], n, 0, "unrestricted", rest)
  BY DEF ReconcileNext
<1> DEFINE op == act[1]
           n == act[2]
           rest == awgScript.todo \ {act}
<1>3. awgScript.todo \subseteq {"confirm", "expire"} \X AwgNames
  BY <1>0 DEF AwgScriptInv
<1>4. op \in {"confirm", "expire"} /\ n \in AwgNames /\ act = <<op, n>>
      /\ rest \subseteq {"confirm", "expire"} \X AwgNames
  BY <1>3
<1>5. /\ \A m \in AwgNames : <<"confirm", m>> \in rest => members[m] \notin Waiting
      /\ op = "confirm" => members[n] \notin Waiting
  BY <1>0, <1>4 DEF AwgNodeInv
<1>6. ~Registering /\ Waiting' = Waiting /\ AwgShape'
  BY <1>0, <1>1 DEF Registering, Waiting, AwgShape
<1>7. /\ awgHistory'.enrolled = awgHistory.enrolled /\ awgHistory'.shaken = awgHistory.shaken
      /\ awgHistory'.cutOff = awgHistory.cutOff /\ awgBounds'.keys = awgBounds.keys
      /\ Waiting' \subseteq Waiting
  BY <1>1, <1>6
<1>8. CASE op = "expire" /\ members[n] = 0
  <2>1. awgScript' = [AwgCommand("expire", n, 0, "", rest) EXCEPT !.steps = <<"complete">>]
    BY <1>2, <1>8, Zenon
  <2> HIDE DEF op, n, rest
  <2>2. PICK do, key, to, steps, todo : /\ do = "expire" /\ key = 0 /\ to = ""
                                        /\ steps = <<"complete">> /\ todo = rest
    OBVIOUS
  <2>3. awgScript' = [op |-> do, name |-> n, key |-> key, grant |-> to, steps |-> steps,
                      todo |-> todo, saved |-> [members |-> members, disabled |-> disabled,
                                                access |-> access]]
    BY <2>1, <2>2 DEF AwgCommand
  <2>4. awgBounds'.keys \in Nat /\ awgBounds'.keys <= awgBounds.keys
    BY <1>7, NotAboveItself, NoughtWaitsNot
  <2>5. /\ do \in AwgOps \ {"none", "plan", "reconcile"} /\ n \in AwgNames
        /\ LeftOf(do, steps)
    BY <1>4, <2>2 DEF AwgOps, LeftOf, ExpireRest
  <2>6. /\ do = "mode" => to \in {"restricted", "unrestricted"}
        /\ do \in {"allow", "deny"} => to \in AwgNames \cup {"vps"}
        /\ todo \subseteq {"confirm", "expire"} \X AwgNames
        /\ do \notin {"confirm", "expire"} => todo = {}
        /\ do \in {"import", "enroll"} =>
              /\ key = awgBounds.keys /\ key > 0 /\ key = awgBounds'.keys + 1
              /\ key \in AwgKeys /\ members[n] = 0 /\ NextOf(steps) = "record"
        /\ do \in {"remove", "expire"} => NextOf(steps) = "record" \/ members[n] = 0
        /\ do = "disable" => members[n] # 0
        /\ do = "confirm" => members[n] \notin Waiting
        /\ do = "mode" /\ to = "unrestricted" => members[n] \notin Waiting'
        /\ \A m \in AwgNames : <<"confirm", m>> \in todo => members[m] \notin Waiting
        /\ Registering => AwgNow \in {"link", "load", "start", ""}
    BY <1>4, <1>5, <1>6, <1>8, <2>2
  <2> QED  BY <1>1, <1>6, <1>7, <2>3, <2>4, <2>5, <2>6, CommandBegins
<1>9. CASE op = "confirm" /\ n \notin Enabled
  <2>1. awgScript' = [AwgIdle EXCEPT !.op = "reconcile", !.todo = rest]
    BY <1>2, <1>9, Zenon
  <2> HIDE DEF op, n, rest
  <2>2. awgScript' = [op |-> "reconcile", name |-> "", key |-> 0, grant |-> "", steps |-> <<>>,
                      todo |-> rest, saved |-> <<>>]
    BY <2>1 DEF AwgIdle
  <2>3. /\ awgScript'.op = "reconcile" /\ awgScript'.name = "" /\ awgScript'.key = 0
        /\ awgScript'.grant = "" /\ awgScript'.steps = <<>>
        /\ awgScript'.todo = rest /\ awgScript'.saved = <<>>
    BY <2>2
  <2>4. AwgScriptInv' /\ ~AwgActs'
    <3>1. LeftOf("reconcile", <<>>) /\ "reconcile" \in AwgOps
      BY DEF LeftOf, AwgOps
    <3>2. ~AwgActs'
      BY <2>3 DEF AwgActs
    <3> QED  BY <1>4, <2>2, <2>3, <3>1, <3>2 DEF AwgScriptInv
  <2>5. /\ \A m \in AwgNames : members'[m] = 0 \/ members'[m] > awgBounds'.keys
        /\ \A k \in awgHistory'.enrolled : k > awgBounds'.keys
    BY <1>0, <1>1 DEF AwgKeysInv
  <2>6. \A m \in AwgNames : <<"confirm", m>> \in awgScript'.todo => members'[m] \notin Waiting'
    BY <1>1, <1>5, <1>6, <2>3
  <2>7. /\ Rightful(members, access, awgHistory.cutOff)
        /\ Rightful(members, staged, awgHistory.cutOff)
    BY <1>6, NothingInherited
  <2>8. /\ Registered(members)' /\ Restricts(members, access)'
        /\ staged' # NoStaged => Restricts(members, staged)'
        /\ Rightful(members, access, awgHistory.cutOff)'
        /\ Rightful(members, staged, awgHistory.cutOff)'
    BY <1>0, <1>1, <1>6, <2>7 DEF AwgPolicyInv, Registered, Restricts, Rightful
  <2> QED  BY <1>6, <2>4, <2>5, <2>6, <2>8, RestFollows
<1>10. CASE ~(op = "expire" /\ members[n] = 0) /\ ~(op = "confirm" /\ n \notin Enabled)
  <2>1. awgScript' = AwgCommand(op, n, 0, "unrestricted", rest)
    BY <1>2, <1>10, Zenon
  <2> HIDE DEF op, n, rest
  <2>2. PICK to, todo : to = "unrestricted" /\ todo = rest
    OBVIOUS
  <2>3. /\ op \in AwgOps \ {"none", "plan", "reconcile", "import", "enroll"} /\ n \in AwgNames
        /\ awgScript' = AwgCommand(op, n, 0, to, todo)
    BY <1>4, <2>1, <2>2 DEF AwgOps
  <2>4. /\ op = "mode" => to \in {"restricted", "unrestricted"}
        /\ op \in {"allow", "deny"} => to \in AwgNames \cup {"vps"}
        /\ todo \subseteq {"confirm", "expire"} \X AwgNames
        /\ op \notin {"confirm", "expire"} => todo = {}
        /\ op = "disable" => members[n] # 0
        /\ op = "confirm" => members[n] \notin Waiting
        /\ op = "mode" /\ to = "unrestricted" => members[n] \notin Waiting'
        /\ \A m \in AwgNames : <<"confirm", m>> \in todo => members[m] \notin Waiting
        /\ Registering => AwgNow \in {"link", "load", "start", ""}
    BY <1>4, <1>5, <1>6, <2>2
  <2> QED  BY <1>1, <1>6, <1>7, <2>3, <2>4, PlainCommand
<1> QED  BY <1>8, <1>9, <1>10

(* Handshakes and time leave the files and the command as they are.         *)
LEMMA FilesStay ==
    ASSUME AwgInv, AwgShape',
           UNCHANGED <<members, disabled, access, staged, enrolments, awgScript, awgBounds>>,
           awgHistory'.enrolled = awgHistory.enrolled,
           awgHistory'.cutOff = awgHistory.cutOff,
           awgHistory.shaken \subseteq awgHistory'.shaken, Waiting' \subseteq Waiting
    PROVE  AwgInv'
<1>0. /\ AwgScriptInv /\ AwgKeysInv /\ AwgNodeInv /\ AwgPolicyInv /\ AwgSavedInv
      /\ AwgRegisterInv
  BY DEF AwgInv
<1>1. /\ AwgActs' = AwgActs /\ AwgNow' = AwgNow /\ Registering' = Registering
      /\ Removing' = Removing /\ MayReturn' = MayReturn /\ Excused' = Excused
      /\ awgScript' = awgScript /\ awgBounds' = awgBounds /\ members' = members
      /\ staged' = staged /\ access' = access /\ enrolments' = enrolments
  BY DEF AwgActs, AwgNow, Registering, Removing, MayReturn, Excused
<1>2. AwgScriptInv'
  BY <1>0, <1>1 DEF AwgScriptInv
<1>3. AwgKeysInv'
  BY <1>0, <1>1 DEF AwgKeysInv
<1>4. AwgNodeInv'
  BY <1>0, <1>1 DEF AwgNodeInv
<1>5. AwgPolicyInv'
  BY <1>0, <1>1, PoliciesStay
<1>6. AwgSavedInv'
  BY <1>0, <1>1, SavedStay
<1>7. AwgRegisterInv'
  BY <1>0, <1>1 DEF AwgRegisterInv, Unnamed
<1> QED  BY <1>2, <1>3, <1>4, <1>5, <1>6, <1>7 DEF AwgInv

(* A handshake ends the wait of its node.                                  *)
LEMMA AwgHandshakeStep ==
    ASSUME AwgInv, Handshake
    PROVE  AwgInv'
<1>0. AwgShape
  BY DEF AwgInv
<1>1. PICK n \in AwgNames :
          /\ peers[n] # 0
          /\ lastHandshake' = [lastHandshake EXCEPT ![peers[n]] = awgClock]
          /\ awgHistory' = [awgHistory EXCEPT !.shaken = @ \cup {peers[n]}]
  BY DEF Handshake
<1>2. UNCHANGED <<awgClock, members, disabled, access, staged, peers, reach, enrolments,
                  awgScript, awgBounds>>
  BY DEF Handshake
<1>3. awgHistory = [enrolled |-> awgHistory.enrolled, opened |-> awgHistory.opened,
                    cutOff |-> awgHistory.cutOff, stranded |-> awgHistory.stranded,
                    shaken |-> awgHistory.shaken]
  BY <1>0 DEF AwgShape
<1>4. awgHistory' = [enrolled |-> awgHistory.enrolled, opened |-> awgHistory.opened,
                     cutOff |-> awgHistory.cutOff, stranded |-> awgHistory.stranded,
                     shaken |-> awgHistory.shaken \cup {peers[n]}]
  BY <1>1, <1>3
<1>5. /\ awgHistory'.enrolled = awgHistory.enrolled /\ awgHistory'.opened = awgHistory.opened
      /\ awgHistory'.cutOff = awgHistory.cutOff
      /\ awgHistory'.shaken = awgHistory.shaken \cup {peers[n]}
      /\ awgHistory' = [enrolled |-> awgHistory'.enrolled, opened |-> awgHistory'.opened,
                        cutOff |-> awgHistory'.cutOff, stranded |-> awgHistory'.stranded,
                        shaken |-> awgHistory'.shaken]
  BY <1>4
<1>6. Waiting' \subseteq Waiting /\ awgHistory.shaken \subseteq awgHistory'.shaken
  BY <1>5 DEF Waiting
<1>7. AwgShape'
  <2>1. awgClock \in 0..MaxAwgTime
    BY <1>0, AwgAssumption DEF AwgShape
  <2>2. /\ lastHandshake' \in [AwgKeys -> 0..MaxAwgTime]
        /\ \A k \in AwgKeys : lastHandshake'[k] = IF k = peers[n] THEN awgClock
                                                  ELSE lastHandshake[k]
    BY <1>0, <1>1, <2>1 DEF AwgShape
  <2>3. \A k \in AwgKeys : lastHandshake'[k] > 0 => k \in awgHistory'.shaken
    BY <1>0, <1>5, <2>2 DEF AwgShape
  <2> QED  BY <1>0, <1>2, <1>5, <2>2, <2>3 DEF AwgShape
<1> QED  BY <1>2, <1>5, <1>6, <1>7, FilesStay

(* Time passes.                                                            *)
LEMMA AwgTickStep ==
    ASSUME AwgInv, TickAwg
    PROVE  AwgInv'
<1>0. AwgShape
  BY DEF AwgInv
<1>1. /\ awgClock' = awgClock + 1 /\ awgClock < MaxAwgTime
      /\ UNCHANGED <<members, disabled, access, staged, peers, reach, enrolments,
                     lastHandshake, awgScript, awgBounds, awgHistory>>
  BY DEF TickAwg
<1>2. AwgShape'
  <2>1. awgClock \in 1..MaxAwgTime /\ MaxAwgTime \in Nat
    BY <1>0, AwgAssumption DEF AwgShape
  <2>2. awgClock' \in 1..MaxAwgTime
    BY <1>1, <2>1
  <2>3. \A n \in AwgNames : enrolments[n].created \in Nat /\ enrolments[n].created <= awgClock
    BY <1>0 DEF AwgShape
  <2>4. \A n \in AwgNames : enrolments'[n].created <= awgClock'
    BY <1>1, <2>1, <2>3
  <2> QED  BY <1>0, <1>1, <2>2, <2>4 DEF AwgShape
<1>3. Waiting' = Waiting
  BY <1>1 DEF Waiting
<1> QED  BY <1>1, <1>2, <1>3, FilesStay

(* A killed command leaves its files as they are, and its key excused.      *)
LEMMA AwgKillStep ==
    ASSUME AwgInv, KillAwg
    PROVE  AwgInv'
<1>0. AwgShape /\ AwgKeysInv /\ AwgPolicyInv
  BY DEF AwgInv
<1>1. /\ SpendAwg("troubles") /\ awgScript' = AwgIdle
      /\ UNCHANGED <<awgClock, members, disabled, access, staged, peers, reach, enrolments,
                     lastHandshake>>
      /\ awgHistory' =
           IF Registering THEN [awgHistory EXCEPT !.cutOff = @ \cup {awgScript.key}]
           ELSE IF awgScript.op \in {"remove", "expire", "disable"}
           THEN [awgHistory EXCEPT !.stranded = @ \cup {enrolments[awgScript.name].key}]
           ELSE awgHistory
  BY DEF KillAwg
<1>2. AwgScriptInv' /\ ~AwgActs' /\ awgScript'.todo = {}
  BY <1>1, NodesRest
<1>3. awgBounds'.keys = awgBounds.keys
      /\ awgBounds' \in [keys : Nat, changes : Nat, troubles : Nat]
  BY <1>1, SpentBounds
<1>4. awgHistory = [enrolled |-> awgHistory.enrolled, opened |-> awgHistory.opened,
                    cutOff |-> awgHistory.cutOff, stranded |-> awgHistory.stranded,
                    shaken |-> awgHistory.shaken]
  BY <1>0 DEF AwgShape
<1>5. /\ awgHistory'.enrolled = awgHistory.enrolled /\ awgHistory'.opened = awgHistory.opened
      /\ awgHistory'.shaken = awgHistory.shaken /\ Excused = awgHistory'.cutOff
      /\ awgHistory' = [enrolled |-> awgHistory'.enrolled, opened |-> awgHistory'.opened,
                        cutOff |-> awgHistory'.cutOff, stranded |-> awgHistory'.stranded,
                        shaken |-> awgHistory'.shaken]
  <2>1. CASE Registering
    <3>1. awgHistory' = [enrolled |-> awgHistory.enrolled, opened |-> awgHistory.opened,
                         cutOff |-> awgHistory.cutOff \cup {awgScript.key},
                         stranded |-> awgHistory.stranded, shaken |-> awgHistory.shaken]
      BY <1>1, <1>4, <2>1
    <3> QED  BY <2>1, <3>1 DEF Excused
  <2>2. CASE ~Registering /\ awgScript.op \in {"remove", "expire", "disable"}
    <3>1. awgHistory' = [enrolled |-> awgHistory.enrolled, opened |-> awgHistory.opened,
                         cutOff |-> awgHistory.cutOff,
                         stranded |-> awgHistory.stranded \cup {enrolments[awgScript.name].key},
                         shaken |-> awgHistory.shaken]
      BY <1>1, <1>4, <2>2
    <3> QED  BY <2>2, <3>1 DEF Excused
  <2>3. CASE ~Registering /\ awgScript.op \notin {"remove", "expire", "disable"}
    <3>1. awgHistory' = awgHistory
      BY <1>1, <2>3
    <3> QED  BY <1>4, <2>3, <3>1 DEF Excused
  <2> QED  BY <2>1, <2>2, <2>3
<1>6. Waiting' = Waiting
  BY <1>5 DEF Waiting
<1>7. AwgShape'
  BY <1>0, <1>1, <1>3, <1>5 DEF AwgShape
<1>8. /\ \A n \in AwgNames : members'[n] = 0 \/ members'[n] > awgBounds'.keys
      /\ \A k \in awgHistory'.enrolled : k > awgBounds'.keys
      /\ \A m \in AwgNames : <<"confirm", m>> \in awgScript'.todo => members'[m] \notin Waiting'
  BY <1>0, <1>1, <1>2, <1>3, <1>5 DEF AwgKeysInv
<1>9. /\ Registered(members)' /\ Restricts(members, access)'
      /\ staged' # NoStaged => Restricts(members, staged)'
  BY <1>0, <1>1, <1>6 DEF AwgPolicyInv, Registered, Restricts
<1>10. /\ Rightful(members, access, awgHistory.cutOff)'
       /\ Rightful(members, staged, awgHistory.cutOff)'
  BY <1>0, <1>1, <1>5 DEF AwgPolicyInv, Rightful
<1> QED  BY <1>2, <1>7, <1>8, <1>9, <1>10, RestFollows

(* The files that come back are those of before the command.               *)
LEMMA FilesReturn ==
    ASSUME AwgInv, FilesComeBack, SpendAwg("troubles"),
           MayReturn \/ (Registering /\ AwgNow # ""), AwgActs,
           staged' = (IF Registering THEN NoStaged ELSE staged),
           UNCHANGED <<awgClock, peers, enrolments, lastHandshake, awgHistory>>
    PROVE  AwgInv'
<1> DEFINE old == awgScript.saved
<1>0. AwgShape /\ AwgKeysInv /\ AwgSavedInv
  BY DEF AwgInv
<1>1. /\ members' = old.members /\ disabled' = old.disabled /\ access' = old.access
      /\ awgScript' = AwgIdle
  BY DEF FilesComeBack
<1>2. AwgScriptInv' /\ ~AwgActs' /\ awgScript'.todo = {}
  BY <1>1, NodesRest
<1>3. awgBounds'.keys = awgBounds.keys
      /\ awgBounds' \in [keys : Nat, changes : Nat, troubles : Nat]
  BY SpentBounds
<1>4. /\ old.members \in NodeLists /\ old.access \in AwgPolicies
      /\ old.disabled \subseteq {n \in AwgNames : old.members[n] # 0}
  BY <1>0 DEF AwgSavedInv
<1>5. /\ Registered(old.members) /\ Restricts(old.members, old.access)
      /\ Rightful(old.members, old.access, awgHistory.cutOff)
      /\ MayReturn => /\ staged # NoStaged => Restricts(old.members, staged)
                      /\ Rightful(old.members, staged, awgHistory.cutOff)
  BY <1>0 DEF AwgSavedInv
<1>6. \A n \in AwgNames : old.members[n] = 0 \/ old.members[n] > awgBounds.keys
  BY <1>0 DEF AwgKeysInv
<1> HIDE DEF old
<1>7. Waiting' = Waiting
  BY DEF Waiting
<1>8. AwgShape'
  BY <1>0, <1>1, <1>3, <1>4 DEF AwgShape
<1>9. /\ \A n \in AwgNames : members'[n] = 0 \/ members'[n] > awgBounds'.keys
      /\ \A k \in awgHistory'.enrolled : k > awgBounds'.keys
      /\ \A m \in AwgNames : <<"confirm", m>> \in awgScript'.todo => members'[m] \notin Waiting'
  BY <1>0, <1>1, <1>2, <1>3, <1>6 DEF AwgKeysInv
<1>10. Registered(members)' /\ Restricts(members, access)'
       /\ Rightful(members, access, awgHistory.cutOff)'
  BY <1>1, <1>5, <1>7 DEF Registered, Restricts, Rightful
<1>11. /\ staged' # NoStaged => Restricts(members, staged)'
       /\ Rightful(members, staged, awgHistory.cutOff)'
  <2>1. CASE Registering
    BY <2>1 DEF Rightful, NoStaged
  <2>2. CASE ~Registering
    BY <1>1, <1>5, <1>7, <2>2 DEF Restricts, Rightful
  <2> QED  BY <2>1, <2>2
<1> QED  BY <1>2, <1>8, <1>9, <1>10, <1>11, RestFollows

(* A command that is cut short past the point of return keeps its node.     *)
LEMMA CutShort ==
    ASSUME AwgInv, NEW left, awgScript.steps # <<>>, AwgNow # "record",
           awgScript.op \in {"remove", "expire", "confirm"},
           LeftOf(awgScript.op, left), left \in {<<>>, <<"complete">>},
           awgScript' = [awgScript EXCEPT !.steps = left],
           staged' \in {staged, NoStaged}, SpendAwg("troubles"),
           UNCHANGED <<awgClock, members, disabled, access, peers, enrolments, lastHandshake,
                       awgHistory>>
    PROVE  AwgInv'
<1> DEFINE s == awgScript
<1>0. AwgShape /\ AwgScriptInv /\ AwgKeysInv /\ AwgNodeInv /\ AwgPolicyInv /\ AwgSavedInv
  BY DEF AwgInv
<1>1. s = [op |-> s.op, name |-> s.name, key |-> s.key, grant |-> s.grant, steps |-> s.steps,
           todo |-> s.todo, saved |-> s.saved]
  BY <1>0 DEF AwgScriptInv
<1>2. awgScript' = [op |-> s.op, name |-> s.name, key |-> s.key, grant |-> s.grant,
                    steps |-> left, todo |-> s.todo, saved |-> s.saved]
  BY <1>1
<1>3. /\ awgScript'.op = s.op /\ awgScript'.name = s.name /\ awgScript'.key = s.key
      /\ awgScript'.grant = s.grant /\ awgScript'.steps = left
      /\ awgScript'.todo = s.todo /\ awgScript'.saved = s.saved
      /\ awgScript' = [op |-> awgScript'.op, name |-> awgScript'.name, key |-> awgScript'.key,
                       grant |-> awgScript'.grant, steps |-> awgScript'.steps,
                       todo |-> awgScript'.todo, saved |-> awgScript'.saved]
  BY <1>2
<1> HIDE DEF s
<1>4. /\ AwgActs /\ AwgActs' /\ ~Registering /\ ~Registering' /\ Removing' = Removing
  BY <1>3 DEF AwgActs, Registering, Removing, s
<1>5. ~MayReturn'
  <2>1. left \notin AwgReturns
    <3>1. left \in ExpireRest
      BY DEF ExpireRest
    <3> QED  BY <3>1, RestsApart
  <2> QED  BY <1>3, <2>1 DEF MayReturn, Removing, s
<1>6. /\ awgBounds'.keys = awgBounds.keys
      /\ awgBounds' \in [keys : Nat, changes : Nat, troubles : Nat]
  BY SpentBounds
<1>7. Waiting' = Waiting /\ Excused = awgHistory.cutOff /\ Excused' = awgHistory.cutOff
  BY <1>4 DEF Waiting, Excused
<1>8. AwgScriptInv'
  BY <1>0, <1>3, <1>4 DEF AwgScriptInv, s
<1>9. AwgShape'
  BY <1>0, <1>6 DEF AwgShape
<1>10. AwgKeysInv'
  BY <1>0, <1>3, <1>4, <1>6 DEF AwgKeysInv, s
<1>11. AwgNodeInv'
  BY <1>0, <1>3, <1>4, <1>7 DEF AwgNodeInv, s
<1>12. AwgPolicyInv'
  <2>1. Registered(members)' /\ Restricts(members, access)'
        /\ (staged' # NoStaged => Restricts(members, staged)')
    BY <1>0, <1>7 DEF AwgPolicyInv, Registered, Restricts
  <2>2. Rightful(members, access, Excused)'
    BY <1>0, <1>7 DEF AwgPolicyInv, Rightful
  <2>3. Rightful(members, staged, Excused)'
    <3>1. CASE staged' = staged
      BY <1>0, <1>7, <3>1 DEF AwgPolicyInv, Rightful
    <3>2. CASE staged' = NoStaged
      BY <3>2 DEF Rightful, NoStaged
    <3> QED  BY <3>1, <3>2
  <2> QED  BY <2>1, <2>2, <2>3 DEF AwgPolicyInv
<1>13. AwgSavedInv'
  BY <1>0, <1>3, <1>4, <1>5 DEF AwgSavedInv, s
<1>14. AwgRegisterInv'
  BY <1>3, <1>4 DEF AwgRegisterInv, s
<1> QED  BY <1>8, <1>9, <1>10, <1>11, <1>12, <1>13, <1>14 DEF AwgInv

(* A step that fails.                                                      *)
LEMMA AwgFailStep ==
    ASSUME AwgInv, AwgStepFails
    PROVE  AwgInv'
<1>0. AwgShape /\ AwgScriptInv /\ AwgKeysInv /\ AwgPolicyInv
  BY DEF AwgInv
<1>1. /\ awgScript.steps # <<>> /\ AwgNow \in {"link", "load", "start", "commit"}
      /\ SpendAwg("troubles")
      /\ UNCHANGED <<awgClock, peers, enrolments, lastHandshake, awgHistory>>
  BY DEF AwgStepFails, AwgNow, NextOf
<1>2. AwgActs /\ awgScript.op \in AwgOps /\ LeftOf(awgScript.op, awgScript.steps)
      /\ awgScript.name \in AwgNames
  BY <1>0, <1>1, AwgLeft DEF AwgScriptInv
<1>3. awgBounds'.keys = awgBounds.keys
      /\ awgBounds' \in [keys : Nat, changes : Nat, troubles : Nat]
  BY <1>1, SpentBounds
<1>4. CASE /\ \/ Registering /\ ~NextAwg("start")
              \/ Removing /\ Ahead("stage")
              \/ awgScript.op \in {"enable", "disable"}
           /\ FilesComeBack
           /\ staged' = IF Registering THEN NoStaged ELSE staged
  <2>1. MayReturn \/ (Registering /\ AwgNow # "")
    <3>1. CASE Removing /\ Ahead("stage")
      <4>1. awgScript.steps \in AwgReturns \cup RemoveRest \cup ExpireRest
        BY <1>2, <3>1 DEF Removing, LeftOf, AwgReturns
      <4>2. awgScript.steps \in AwgReturns
        BY <3>1, <4>1, ReturnsAhead
      <4> QED  BY <3>1, <4>2 DEF MayReturn
    <3>2. CASE awgScript.op \in {"enable", "disable"}
      BY <3>2 DEF MayReturn
    <3> QED  BY <1>1, <1>4, <3>1, <3>2
  <2>2. staged' = (IF Registering THEN NoStaged ELSE staged)
    BY <1>4
  <2> QED  BY <1>1, <1>2, <1>4, <2>1, <2>2, FilesReturn
<1>5. CASE /\ Registering /\ NextAwg("start")
           /\ awgScript' = AwgCommand("remove", awgScript.name, 0, "", {})
           /\ UNCHANGED <<members, disabled, access, staged, reach>>
  <2>1. AwgNow = "start"
    BY <1>1, <1>5 DEF NextAwg, AwgNow, NextOf
  <2>2. Waiting' = Waiting /\ AwgShape'
    BY <1>0, <1>1, <1>3, <1>5 DEF Waiting, AwgShape
  <2>3. PICK op, to, todo : op = "remove" /\ to = "" /\ todo = {}
    OBVIOUS
  <2>4. /\ op \in AwgOps \ {"none", "plan", "reconcile", "import", "enroll"}
        /\ awgScript' = AwgCommand(op, awgScript.name, 0, to, todo)
    BY <1>5, <2>3 DEF AwgOps
  <2>5. /\ op = "mode" => to \in {"restricted", "unrestricted"}
        /\ op \in {"allow", "deny"} => to \in AwgNames \cup {"vps"}
        /\ todo \subseteq {"confirm", "expire"} \X AwgNames
        /\ op \notin {"confirm", "expire"} => todo = {}
        /\ op = "disable" => members[awgScript.name] # 0
        /\ op = "confirm" => members[awgScript.name] \notin Waiting
        /\ op = "mode" /\ to = "unrestricted" => members[awgScript.name] \notin Waiting'
        /\ \A m \in AwgNames : <<"confirm", m>> \in todo => members[m] \notin Waiting
        /\ Registering => AwgNow \in {"link", "load", "start", ""}
    BY <2>1, <2>3
  <2>6. /\ awgHistory'.enrolled = awgHistory.enrolled /\ awgHistory'.shaken = awgHistory.shaken
        /\ awgHistory'.cutOff = awgHistory.cutOff /\ Waiting' \subseteq Waiting
        /\ UNCHANGED <<members, disabled, access, staged, enrolments>>
    BY <1>1, <1>5, <2>2
  <2> QED  BY <1>2, <1>3, <2>2, <2>4, <2>5, <2>6, PlainCommand
<1>6. CASE /\ Removing /\ ~Ahead("stage")
           /\ staged' = NoStaged
           /\ awgScript' = [awgScript EXCEPT !.steps =
                                IF Ahead("complete") THEN <<"complete">> ELSE <<>>]
           /\ UNCHANGED <<members, disabled, access, reach>>
  <2> DEFINE left == IF Ahead("complete") THEN <<"complete">> ELSE <<>>
  <2>1. awgScript.op \in {"remove", "expire"}
    BY <1>6 DEF Removing
  <2>2. Ahead("complete") => awgScript.op = "expire"
    <3>1. awgScript.op = "remove" => awgScript.steps \in RemoveReturns \cup RemoveRest
      BY <1>2 DEF LeftOf
    <3>2. awgScript.op = "remove" => awgScript.steps \in RemoveRest
      BY <1>6, <3>1, ReturnsAhead DEF AwgReturns
    <3> QED  BY <2>1, <3>2, ReturnsAhead
  <2>3. left \in {<<>>, <<"complete">>} /\ LeftOf(awgScript.op, left)
    BY <2>1, <2>2 DEF LeftOf, RemoveRest, ExpireRest
  <2>4. awgScript' = [awgScript EXCEPT !.steps = left]
    BY <1>6
  <2> HIDE DEF left
  <2>5. PICK rest : rest = left
    OBVIOUS
  <2>6. /\ rest \in {<<>>, <<"complete">>} /\ LeftOf(awgScript.op, rest)
        /\ awgScript' = [awgScript EXCEPT !.steps = rest]
        /\ AwgNow # "record" /\ staged' \in {staged, NoStaged}
        /\ awgScript.op \in {"remove", "expire", "confirm"}
    BY <1>1, <1>6, <2>1, <2>3, <2>4, <2>5
  <2> QED  BY <1>1, <1>6, <2>6, CutShort
<1>7. CASE /\ awgScript.op = "confirm"
           /\ awgScript' = [awgScript EXCEPT !.steps = <<>>]
           /\ UNCHANGED <<members, disabled, access, staged, reach>>
  <2>1. PICK rest : rest = <<>>
    OBVIOUS
  <2>2. LeftOf(awgScript.op, rest)
    BY <1>7, <2>1 DEF LeftOf, ConfirmRest
  <2>3. /\ rest \in {<<>>, <<"complete">>} /\ awgScript' = [awgScript EXCEPT !.steps = rest]
        /\ AwgNow # "record" /\ staged' \in {staged, NoStaged}
        /\ awgScript.op \in {"remove", "expire", "confirm"}
    BY <1>1, <1>7, <2>1
  <2> QED  BY <1>1, <1>7, <2>2, <2>3, CutShort
<1>8. CASE /\ awgScript.op \in {"mode", "allow", "deny"}
           /\ staged' = NoStaged /\ awgScript' = AwgIdle
           /\ UNCHANGED <<members, disabled, access>>
  <2>1. AwgScriptInv' /\ ~AwgActs' /\ awgScript'.todo = {}
    BY <1>8, NodesRest
  <2>2. ~Registering
    BY <1>8 DEF Registering
  <2>3. Rightful(members, access, awgHistory.cutOff)
    BY <2>2, NothingInherited
  <2>4. Waiting' = Waiting /\ AwgShape'
    BY <1>0, <1>1, <1>3, <1>8 DEF Waiting, AwgShape
  <2>5. /\ \A n \in AwgNames : members'[n] = 0 \/ members'[n] > awgBounds'.keys
        /\ \A k \in awgHistory'.enrolled : k > awgBounds'.keys
        /\ \A m \in AwgNames : <<"confirm", m>> \in awgScript'.todo => members'[m] \notin Waiting'
    BY <1>0, <1>1, <1>3, <1>8, <2>1 DEF AwgKeysInv
  <2>6. /\ Registered(members)' /\ Restricts(members, access)'
        /\ Rightful(members, access, awgHistory.cutOff)'
    BY <1>0, <1>1, <1>8, <2>3, <2>4 DEF AwgPolicyInv, Registered, Restricts, Rightful
  <2>7. Rightful(members, staged, awgHistory.cutOff)'
    BY <1>8 DEF Rightful, NoStaged
  <2>8. staged' # NoStaged => Restricts(members, staged)'
    BY <1>8
  <2> QED  BY <2>1, <2>4, <2>5, <2>6, <2>7, <2>8, RestFollows
<1> QED  BY <1>4, <1>5, <1>6, <1>7, <1>8 DEF AwgStepFails

(* At the start one node is there, and nobody waits.                       *)
LEMMA AwgBegins ==
    ASSUME AwgInit
    PROVE  AwgInv
<1>1. PICK first \in AwgNames :
          members = [n \in AwgNames |-> IF n = first THEN MaxAwgKeys + 1 ELSE 0]
  BY DEF AwgInit
<1>2. /\ awgClock = 1 /\ disabled = {} /\ access = OpenPolicy /\ staged = NoStaged
      /\ peers = members
      /\ enrolments = [n \in AwgNames |-> NoItem]
      /\ lastHandshake = [k \in AwgKeys |-> 0]
      /\ awgScript = AwgIdle
      /\ awgBounds = [keys |-> MaxAwgKeys, changes |-> MaxAwgChanges,
                      troubles |-> MaxAwgTroubles]
      /\ awgHistory = [enrolled |-> {}, opened |-> {}, cutOff |-> {}, stranded |-> {},
                       shaken |-> {}]
  BY DEF AwgInit
<1>3. /\ awgScript.op = "none" /\ awgScript.name = "" /\ awgScript.key = 0
      /\ awgScript.grant = "" /\ awgScript.steps = <<>> /\ awgScript.todo = {}
      /\ awgScript = [op |-> awgScript.op, name |-> awgScript.name, key |-> awgScript.key,
                      grant |-> awgScript.grant, steps |-> awgScript.steps,
                      todo |-> awgScript.todo, saved |-> awgScript.saved]
      /\ awgHistory.enrolled = {} /\ access.allow = {} /\ staged.allow = {}
      /\ awgBounds.keys = MaxAwgKeys
  BY <1>2 DEF AwgIdle, OpenPolicy, NoStaged
<1>4. ~AwgActs /\ ~Registering /\ ~Removing /\ ~MayReturn /\ Waiting = {}
  BY <1>3 DEF AwgActs, Registering, Removing, MayReturn, Waiting
<1>5. MaxAwgKeys \in Nat /\ MaxAwgChanges \in Nat /\ MaxAwgTroubles \in Nat
      /\ MaxAwgTime \in Nat /\ MaxAwgTime > 0
  BY AwgAssumption
<1>6. MaxAwgKeys + 1 \in AwgKeys /\ MaxAwgKeys + 1 > MaxAwgKeys
  BY <1>5 DEF AwgKeys
<1>7. AwgShape
  <2>1. members \in NodeLists /\ peers \in NodeLists
    BY <1>1, <1>2, <1>6 DEF NodeLists
  <2>2. access \in AwgPolicies
    BY <1>2 DEF OpenPolicy, AwgPolicies
  <2>3. /\ enrolments \in [AwgNames -> [key : {0} \cup AwgKeys, created : Nat]]
        /\ \A n \in AwgNames : enrolments[n] = NoItem
        /\ NoItem.created = 0
    BY <1>2 DEF NoItem
  <2>4. lastHandshake \in [AwgKeys -> 0..MaxAwgTime]
        /\ \A k \in AwgKeys : lastHandshake[k] = 0
    BY <1>2, <1>5
  <2>5. awgBounds \in [keys : Nat, changes : Nat, troubles : Nat]
        /\ awgBounds.keys <= MaxAwgKeys
    BY <1>2, <1>5
  <2>6. awgClock \in 1..MaxAwgTime
    BY <1>2, <1>5
  <2>7. \A n \in AwgNames : enrolments[n].created <= awgClock
    <3>1. \A n \in AwgNames : enrolments[n].created = 0
      BY <2>3
    <3>2. 0 <= awgClock
      BY <1>2
    <3> QED  BY <3>1, <3>2, Zenon
  <2>8. \A k \in AwgKeys : lastHandshake[k] > 0 => k \in awgHistory.shaken
    BY <2>4
  <2>9. awgHistory = [enrolled |-> awgHistory.enrolled, opened |-> awgHistory.opened,
                      cutOff |-> awgHistory.cutOff, stranded |-> awgHistory.stranded,
                      shaken |-> awgHistory.shaken]
    BY <1>2
  <2> QED  BY <1>2, <1>3, <2>1, <2>2, <2>3, <2>4, <2>5, <2>6, <2>7, <2>8, <2>9 DEF AwgShape
<1>8. AwgScriptInv
  <2>1. LeftOf("none", <<>>) /\ "none" \in AwgOps
    BY DEF LeftOf, AwgOps
  <2> QED  BY <1>3, <1>4, <2>1 DEF AwgScriptInv
<1>9. AwgKeysInv
  <2>1. \A n \in AwgNames : members[n] = 0 \/ members[n] > MaxAwgKeys
    BY <1>1, <1>6
  <2> QED  BY <1>3, <1>4, <2>1 DEF AwgKeysInv
<1>10. AwgNodeInv
  BY <1>3, <1>4 DEF AwgNodeInv
<1>11. AwgPolicyInv
  BY <1>3, <1>4 DEF AwgPolicyInv, Registered, Restricts, Rightful
<1>12. AwgSavedInv
  BY <1>4 DEF AwgSavedInv
<1>13. AwgRegisterInv
  BY <1>3, <1>4 DEF AwgRegisterInv
<1> QED  BY <1>7, <1>8, <1>9, <1>10, <1>11, <1>12, <1>13 DEF AwgInv

(* Every step of the nodes keeps the invariant.                            *)
LEMMA AwgPreserved ==
    ASSUME AwgInv, [AwgNext]_awgVars
    PROVE  AwgInv'
<1>1. CASE RegisterNode
  BY <1>1, AwgRegisterStep
<1>2. CASE ChangeNode
  BY <1>2, AwgChangeStep
<1>3. CASE BeginReconcile
  BY <1>3, AwgBeginStep
<1>4. CASE PlanReconcile
  BY <1>4, AwgPlanStep
<1>5. CASE ReconcileNext
  BY <1>5, AwgReconcileStep
<1>6. CASE RecordNode
  BY <1>6, RecordNewNode, RecordRemoval, RecordSwitch
<1>7. CASE StagePolicy
  BY <1>7, AwgStageStep
<1>8. CASE CommitPolicy
  BY <1>8, AwgCommitStep
<1>9. CASE LinkPeers \/ LoadRules
  BY <1>9, HostSteps
<1>10. CASE StartEnrolment
  BY <1>10, AwgStartStep
<1>11. CASE CompleteEnrolment
  BY <1>11, AwgCompleteStep
<1>12. CASE AwgReturn
  BY <1>12, AwgReturnStep
<1>13. CASE AwgStepFails
  BY <1>13, AwgFailStep
<1>14. CASE KillAwg
  BY <1>14, AwgKillStep
<1>15. CASE Handshake
  BY <1>15, AwgHandshakeStep
<1>16. CASE TickAwg
  BY <1>16, AwgTickStep
<1>17. CASE UNCHANGED awgVars
  <2>1. UNCHANGED <<awgClock, members, disabled, access, staged, peers, enrolments,
                    lastHandshake, awgScript, awgBounds, awgHistory>>
    BY <1>17 DEF awgVars
  <2>2. AwgShape' /\ Waiting' = Waiting
    BY <2>1 DEF AwgInv, AwgShape, Waiting
  <2> QED  BY <2>1, <2>2, FilesStay
<1> QED  BY <1>1, <1>2, <1>3, <1>4, <1>5, <1>6, <1>7, <1>8, <1>9, <1>10, <1>11, <1>12, <1>13,
            <1>14, <1>15, <1>16, <1>17 DEF AwgNext, AwgStep

(* What the invariant says of the nodes.                                   *)
LEMMA AwgFacts ==
    ASSUME AwgInv
    PROVE  AwgTypeOK /\ PendingIsRestricted /\ NoInheritedAccess
<1>1. AwgTypeOK
  BY DEF AwgInv, AwgShape, AwgTypeOK, NodeLists
<1>2. PendingIsRestricted
  BY DEF AwgInv, AwgPolicyInv, PendingIsRestricted, Restricts, Waiting
<1>3. NoInheritedAccess
  <2> SUFFICES ASSUME awgScript = AwgIdle, NEW a \in access.allow
               PROVE  \/ GivenToThese(a)
                      \/ {members[a.from], IF a.to = "vps" THEN 0 ELSE members[a.to]}
                         \cap awgHistory.cutOff # {}
    BY DEF NoInheritedAccess
  <2>1. ~Registering
    BY DEF Registering, AwgIdle
  <2>2. Rightful(members, access, awgHistory.cutOff)
    BY <2>1, NothingInherited
  <2> QED  BY <2>2 DEF Rightful, GivenToThese
<1> QED  BY <1>1, <1>2, <1>3

(* In every reachable state the invariant holds.                           *)
THEOREM AwgSafe == AwgSpec => []AwgInv
<1>1. AwgInit => AwgInv
  BY AwgBegins
<1>2. AwgInv /\ [AwgNext]_awgVars => AwgInv'
  BY AwgPreserved
<1> QED  BY <1>1, <1>2, PTL DEF AwgSpec

(* Types of the nodes: every variable keeps its type, and only listed nodes *)
(* are disabled.                                                           *)
THEOREM AwgTypesCorrect == AwgSpec => []AwgTypeOK
BY AwgSafe, AwgFacts, PTL

(* An enrolled node that has not made a handshake, and that no administrator*)
(* opened, is restricted by the active and by the pending policy, however   *)
(* commands, the timer, failures and kills follow each other.              *)
THEOREM PendingStaysRestricted == AwgSpec => []PendingIsRestricted
BY AwgSafe, AwgFacts, PTL

(* Between commands every permission is for the nodes it was given to, even *)
(* when a name was used again after a removal that was killed or failed.    *)
THEOREM NobodyInherits == AwgSpec => []NoInheritedAccess
BY AwgSafe, AwgFacts, PTL
=============================================================================
