---------------------------- MODULE NetworkTasks ----------------------------
(***************************************************************************)
(* Nodes, permissions and subscriptions of the network page: tasks that     *)
(* add and change AWG nodes and VLESS clients (lib/vless_access.py), what   *)
(* Xray serves, and what the published subscriptions say.  A command on     *)
(* clients stages a policy, switches Xray, commits the policy and, when it  *)
(* says so, publishes; every step may fail and is then taken back.  An AWG  *)
(* command is one step here; AwgMembers takes it apart.                     *)
(***************************************************************************)
EXTENDS Integers, Sequences, FiniteSets

CONSTANTS
    NwNames,            \* names of nodes, of both kinds
    PortSets,           \* ports of a permission; "all", "manage": 22 and the website
    MaxNwTasks,         \* previews: bounds the model
    MaxNwEdits,         \* changes by root's shell: bounds the model
    MaxNwTroubles       \* failed steps and kills: bounds the model

ASSUME NetworkAssumption ==
    /\ {"all", "vps"} \cap NwNames = {}
    /\ {MaxNwTasks, MaxNwEdits, MaxNwTroubles} \subseteq Nat

VARIABLES
    nwPeers,        \* AWG nodes: "none", "on" or "off"
    nwAccess,       \* the AWG access policy
    nwManager,      \* MANAGEMENT_ADMIN_PEER
    nwPolicy,       \* the VLESS policy: the client of every name
    nwPending,      \* the pending VLESS policy; NoPolicy: none
    nwXray,         \* the clients Xray serves
    nwSwitches,     \* publication-state.json
    nwPublished,    \* the published subscription of every name
    nwTasks,        \* previewed tasks
    nwScript,       \* the command that holds the change lock
    nwBounds,       \* what is left of the bounds
    nwHistory       \* history: a command was cut off or could not undo; the names changed
                    \* without publishing since the last publication

networkVars == <<nwPeers, nwAccess, nwManager, nwPolicy, nwPending, nwXray, nwSwitches,
                 nwPublished, nwTasks, nwScript, nwBounds, nwHistory>>

NoClient == [id |-> 0, on |-> FALSE, legacy |-> FALSE, allow |-> {}]

NewClient(id) == [id |-> id, on |-> TRUE, legacy |-> FALSE, allow |-> {}]

NoPolicy == <<>>

NoSubscription == [kind |-> "none", id |-> 0, legacy |-> FALSE, clean |-> FALSE]

NwAsk(kind, op, name, rules) == [kind |-> kind, op |-> op, name |-> name, rules |-> rules]

NwRequest == NwAsk("", "", "", {})

NwIdle == [request |-> NwRequest, steps |-> <<>>, saved |-> <<>>]

SpendNw(what) ==
    /\ nwBounds[what] > 0
    /\ nwBounds' = [nwBounds EXCEPT ![what] = @ - 1]

KindsOf(n) ==
    {"awg" : x \in {n} \cap {m \in NwNames : nwPeers[m] # "none"}}
    \cup {"vless" : x \in {n} \cap {m \in NwNames : nwPolicy[m] # NoClient}}

IsEnabled(n) == nwPeers[n] = "on" \/ nwPolicy[n].on

NwTargets == {"all", "vps"} \cup {n \in NwNames : nwPeers[n] = "on"}

(* A rule to be deleted may leave its ports open: every rule of the target. *)
Denied(allow, rules) ==
    {a \in allow : \E r \in rules : r.to = a.to /\ r.ports \in {"", a.ports}}

OpensManagement(allow) ==
    \E a \in allow : a.to \in {"all", "vps"} /\ a.ports \in {"all", "manage"}

PermissionOps == {"allow", "batch", "deny"}

NodeOps == {"enable", "disable", "remove"}

Compat == {"compat-enable", "compat-disable"}

Switching == {"clean-enable", "clean-disable", "publish", "unpublish"}
-----------------------------------------------------------------------------
(* Commands on clients: what they make of a policy, and when they refuse.  *)

ChangedClient(c, r, id) ==
    CASE r.op = "add" -> NewClient(id)
      [] r.op \in {"remove", "undo"} -> NoClient
      [] r.op = "enable" -> [c EXCEPT !.on = TRUE]
      [] r.op = "disable" -> [c EXCEPT !.on = FALSE]
      [] r.op \in {"allow", "batch"} -> [c EXCEPT !.allow = @ \cup r.rules]
      [] r.op = "deny" -> [c EXCEPT !.allow = @ \ Denied(@, r.rules)]
      [] r.op \in Compat -> [c EXCEPT !.legacy = (r.op = "compat-enable")]

ClientPolicy(p, r, id) == [p EXCEPT ![r.name] = ChangedClient(@, r, id)]

ClientAccepts(p, r) ==
    LET c == p[r.name] IN
    /\ (c = NoClient) <=> (r.op = "add")
    /\ r.op = "enable" => ~c.on
    /\ r.op = "disable" => c.on
    /\ r.op = "batch" => c.on
    /\ r.op \in {"compat-enable", "compat-disable"} => c.legacy # (r.op = "compat-enable")
    /\ r.op \in {"allow", "batch"} => r.rules \cap c.allow = {}
    /\ r.op = "deny" => Denied(c.allow, r.rules) # {}

NwCandidate == IF nwPending = NoPolicy THEN nwPolicy ELSE nwPending

(* Enabled clients, each with its permissions.                             *)
Served(p) == [n \in NwNames |-> IF p[n].on THEN [p[n] EXCEPT !.legacy = FALSE] ELSE NoClient]

(* The subscriptions that the bundle is built with.                        *)
Subscription(n) ==
    IF n \in nwSwitches.disabled \/ ~IsEnabled(n) THEN NoSubscription
    ELSE IF nwPeers[n] = "on"
    THEN [NoSubscription EXCEPT !.kind = "awg", !.clean = n \in nwSwitches.clean]
    ELSE [kind |-> "vless", id |-> nwPolicy[n].id, legacy |-> nwPolicy[n].legacy,
          clean |-> n \in nwSwitches.clean]

Publishable == \E n \in NwNames : IsEnabled(n)
-----------------------------------------------------------------------------
(* Previews, and the overview whose digest is compared before execution.   *)

NwOverview ==
    [peers |-> nwPeers, manager |-> nwManager,
     access |-> [n \in NwNames |->
                     [nwAccess[n] EXCEPT !.mode = IF @ = "unset" THEN "unrestricted" ELSE @]],
     pending |-> nwPending # NoPolicy, switches |-> nwSwitches,
     clients |-> [n \in NwNames |-> [nwPolicy[n] EXCEPT !.id = IF @ = 0 THEN 0 ELSE 1]],
     published |-> [n \in NwNames |-> nwPublished[n].kind]]

NwPreview(r) ==
    /\ SpendNw("tasks")
    /\ nwTasks' = nwTasks \cup {[request |-> r, seen |-> NwOverview]}
    /\ UNCHANGED <<nwPeers, nwAccess, nwManager, nwPolicy, nwPending, nwXray, nwSwitches,
                   nwPublished, nwScript, nwHistory>>

PreviewNewNode ==
    \E n \in NwNames :
        /\ KindsOf(n) = {}
        /\ \/ NwPreview(NwAsk("awg", "import", n, {}))
           \/ NwPreview(NwAsk("vless", "add", n, {}))

PreviewNodeChange ==
    \E n \in NwNames, kind \in {"awg", "vless"},
       op \in {"enable", "disable", "remove", "compat-enable", "compat-disable",
               "clean-enable", "clean-disable"} :
        /\ KindsOf(n) = {kind}
        /\ op \in {"disable", "remove"} => n # nwManager
        /\ op \in {"compat-enable", "compat-disable"} =>
               kind = "vless" /\ nwPolicy[n].legacy # (op = "compat-enable")
        /\ op \in {"clean-enable", "clean-disable"} =>
               n \in nwSwitches.clean <=> op = "clean-disable"
        /\ NwPreview(NwAsk(kind, op, n, {}))

PreviewTransfer ==
    \E n \in NwNames :
        /\ nwPeers[n] = "on" /\ n # nwManager
        /\ nwAccess[n].mode # "restricted" \/ OpensManagement(nwAccess[n].allow)
        /\ NwPreview(NwAsk("awg", "set-management", n, {}))

RulesTo(targets) == {[to |-> t, ports |-> p] : t \in targets, p \in PortSets}

(* The default access of a node counts as a permission for everything.      *)
ShownRules(n) ==
    IF nwPeers[n] = "on"
    THEN nwAccess[n].allow
         \cup {r \in RulesTo({"all"}) : r.ports = "all" /\ nwAccess[n].mode # "restricted"}
    ELSE nwPolicy[n].allow

(* Only the removal of the default access is examined.                     *)
KeepsManagement(n, rules) ==
    LET left == nwAccess[n].allow \ Denied(nwAccess[n].allow, rules)
        default == \E r \in rules : r.to = "all" /\ r.ports \in {"", "all"}
    IN nwPeers[n] = "on" /\ n = nwManager /\ nwAccess[n].mode # "restricted" /\ default
       => OpensManagement(left)

PreviewPermission ==
    \E n \in NwNames :
        /\ IsEnabled(n)
        /\ LET kind == IF nwPeers[n] = "on" THEN "awg" ELSE "vless"
               rules == RulesTo(NwTargets \ {n})
           IN \/ \E r \in rules \ ShownRules(n) : NwPreview(NwAsk(kind, "allow", n, {r}))
              \/ \E r, q \in rules \ ShownRules(n) :
                    r # q /\ NwPreview(NwAsk(kind, "batch", n, {r, q}))
              \/ \E r \in (rules \cap ShownRules(n)) \cup {[to |-> t, ports |-> ""] :
                                                       t \in NwTargets \ {n}} :
                    /\ KeepsManagement(n, {r})
                    /\ NwPreview(NwAsk(kind, "deny", n, {r}))

PreviewSubscriptions ==
    \/ NwPreview(NwAsk("", "sync", "", {}))
    \/ \E n \in NwNames, op \in {"publish", "unpublish"} :
          /\ IsEnabled(n)
          /\ NwPreview(NwAsk("", op, n, {}))
-----------------------------------------------------------------------------
(* Execution: the comparison, the guards of the script, and its steps.     *)

AddSteps == <<"stage", "activate", "commit", "publish">>

NwStepsOf(r) ==
    CASE r.op = "sync" -> <<"publish">>
      [] r.op \in Switching -> <<"switch", "publish">>
      [] r.op = "set-management" -> <<"transfer">>
      [] r.kind = "awg" /\ r.op \in {"import", "undo"} -> <<"peer", "publish">>
      [] r.kind = "awg" /\ r.op \in PermissionOps -> <<"access">>
      [] r.kind = "awg" /\ r.op \in NodeOps -> <<"peer">>
      [] r.op \in Compat -> <<"stage", "commit", "publish">>
      [] r.kind = "vless" /\ r.op \in {"add", "undo"} -> AddSteps
      [] r.kind = "vless" /\ r.op \in NodeOps \cup PermissionOps ->
             <<"stage", "activate", "commit">>

OnClients(r) == r.kind = "vless" /\ r.op \notin Switching

FaultNoneIsStaged(r) == TRUE

(* A policy that root has staged is neither applied nor thrown away.       *)
NoneIsStaged(r) == OnClients(r) => nwPending = NoPolicy

AwgAccepts(r) ==
    LET n == r.name
        a == nwAccess[n]
    IN /\ r.op = "import" => nwPeers[n] = "none"
       /\ r.op = "disable" => nwPeers[n] = "on"
       /\ r.op = "enable" => nwPeers[n] = "off"
       /\ r.op \in {"disable", "remove"} => n # nwManager
       /\ r.op = "set-management" => a.mode = "unrestricted" \/ OpensManagement(a.allow)
       /\ r.op = "deny" => \/ Denied(a.allow, r.rules) # {}
                           \/ /\ a.mode # "restricted"
                              /\ \E q \in r.rules : q.to = "all" /\ q.ports \in {"", "all"}

ScriptAccepts(r) ==
    /\ NoneIsStaged(r)
    /\ OnClients(r) => ClientAccepts(NwCandidate, r)
    /\ r.kind = "awg" => AwgAccepts(r)

BeginNetwork ==
    /\ nwScript = NwIdle
    /\ \E t \in nwTasks :
          /\ nwTasks' = nwTasks \ {t}
          /\ nwScript' = IF t.seen = NwOverview /\ ScriptAccepts(t.request)
                         THEN [request |-> t.request, steps |-> NwStepsOf(t.request),
                               saved |-> [policy |-> nwPolicy, switches |-> nwSwitches]]
                         ELSE NwIdle
    /\ UNCHANGED <<nwPeers, nwAccess, nwManager, nwPolicy, nwPending, nwXray, nwSwitches,
                   nwPublished, nwBounds, nwHistory>>

NextNw(step) == nwScript.steps # <<>> /\ Head(nwScript.steps) = step

AfterNw == IF Len(nwScript.steps) = 1 THEN NwIdle ELSE [nwScript EXCEPT !.steps = Tail(@)]

StageClients ==
    /\ NextNw("stage")
    /\ nwPending' = ClientPolicy(NwCandidate, nwScript.request, nwBounds.ids)
    /\ nwBounds' = IF nwScript.request.op = "add" THEN [nwBounds EXCEPT !.ids = @ + 1]
                   ELSE nwBounds
    /\ nwScript' = AfterNw
    /\ UNCHANGED <<nwPeers, nwAccess, nwManager, nwPolicy, nwXray, nwSwitches, nwPublished,
                   nwTasks, nwHistory>>

CutOff == nwHistory' = [nwHistory EXCEPT !.cut = TRUE]

(* Xray does not come up with the new file: the old one is put back; the    *)
(* candidate is discarded.  A removal that was to undo an addition stays.   *)
ActivateXray ==
    /\ NextNw("activate")
    /\ \/ /\ nwXray' = Served(nwPending)
          /\ nwScript' = AfterNw
          /\ UNCHANGED <<nwPending, nwBounds, nwHistory>>
       \/ /\ SpendNw("troubles")
          /\ nwPending' = NoPolicy
          /\ nwScript' = NwIdle
          /\ UNCHANGED nwXray
          /\ IF nwScript.request.op = "undo" THEN CutOff ELSE UNCHANGED nwHistory
       \/ /\ SpendNw("troubles")
          /\ nwPending' = NoPolicy
          /\ nwScript' = NwIdle
          /\ nwXray' = [n \in NwNames |-> NoClient]
          /\ CutOff
    /\ UNCHANGED <<nwPeers, nwAccess, nwManager, nwPolicy, nwSwitches, nwPublished, nwTasks>>

FaultAfterCommitFails == nwXray

AfterCommitFails == Served(nwPolicy)

Untold(r) == IF r.op \in NodeOps THEN {r.name} ELSE {}

CommitClients ==
    /\ NextNw("commit")
    /\ \/ /\ nwPolicy' = nwPending
          /\ nwScript' = AfterNw
          /\ nwHistory' = [nwHistory EXCEPT !.unpublished = @ \cup Untold(nwScript.request)]
          /\ UNCHANGED <<nwXray, nwBounds>>
       \/ /\ SpendNw("troubles")
          /\ nwScript' = NwIdle
          /\ nwXray' = AfterCommitFails
          /\ IF nwScript.request.op = "undo" THEN CutOff ELSE UNCHANGED nwHistory
          /\ UNCHANGED nwPolicy
       \/ /\ SpendNw("troubles")
          /\ nwScript.request.op \notin Compat
          /\ nwScript' = NwIdle
          /\ nwXray' = [n \in NwNames |-> NoClient]
          /\ CutOff
          /\ UNCHANGED nwPolicy
    /\ nwPending' = NoPolicy
    /\ UNCHANGED <<nwPeers, nwAccess, nwManager, nwSwitches, nwPublished, nwTasks>>

SwitchPublication ==
    /\ NextNw("switch")
    /\ LET n == nwScript.request.name
       IN nwSwitches' =
            CASE nwScript.request.op = "publish" -> [nwSwitches EXCEPT !.disabled = @ \ {n}]
              [] nwScript.request.op = "unpublish" -> [nwSwitches EXCEPT !.disabled = @ \cup {n}]
              [] nwScript.request.op = "clean-enable" -> [nwSwitches EXCEPT !.clean = @ \cup {n}]
              [] nwScript.request.op = "clean-disable" -> [nwSwitches EXCEPT !.clean = @ \ {n}]
    /\ nwScript' = AfterNw
    /\ UNCHANGED <<nwPeers, nwAccess, nwManager, nwPolicy, nwPending, nwXray, nwPublished,
                   nwTasks, nwBounds, nwHistory>>

(* A new node whose publication fails is removed again, and a staged policy *)
(* is discarded, be it root's; a switch and a compatibility flag are put    *)
(* back.                                                                    *)
UndoNode ==
    LET r == nwScript.request
        undo == NwAsk(r.kind, "undo", r.name, r.rules)
    IN [request |-> undo, steps |-> NwStepsOf(undo), saved |-> nwScript.saved]

RefreshSubscriptions ==
    /\ NextNw("publish")
    /\ LET op == nwScript.request.op IN
       \/ /\ Publishable
          /\ nwPublished' = [n \in NwNames |-> Subscription(n)]
          /\ nwHistory' = [nwHistory EXCEPT !.unpublished = {}]
          /\ nwScript' = NwIdle
          /\ UNCHANGED <<nwPolicy, nwSwitches, nwBounds>>
       \/ /\ IF Publishable THEN SpendNw("troubles") ELSE UNCHANGED nwBounds
          /\ nwPolicy' = IF op \in Compat THEN nwScript.saved.policy ELSE nwPolicy
          /\ nwSwitches' = IF op \in Switching THEN nwScript.saved.switches ELSE nwSwitches
          /\ nwScript' = IF op \in {"add", "import"} THEN UndoNode ELSE NwIdle
          /\ UNCHANGED <<nwPublished, nwHistory>>
    /\ nwPending' = IF nwScript.request.op = "undo" THEN NoPolicy ELSE nwPending
    /\ UNCHANGED <<nwPeers, nwAccess, nwManager, nwXray, nwTasks>>

UnsetAccess == [mode |-> "unset", allow |-> {}]

(* Permissions of and for a node go with it, on AWG's side only.           *)
WithoutNode(access, n) ==
    [m \in NwNames |->
        IF m = n THEN UnsetAccess
        ELSE [access[m] EXCEPT !.allow = {a \in @ : a.to # n}]]

ChangePeer ==
    /\ NextNw("peer")
    /\ LET n == nwScript.request.name
           op == nwScript.request.op
       IN \/ /\ nwPeers' = [nwPeers EXCEPT ![n] = CASE op \in {"remove", "undo"} -> "none"
                                                    [] op = "disable" -> "off"
                                                    [] op \in {"enable", "import"} -> "on"]
             /\ nwAccess' = IF op \in {"enable", "disable"} THEN nwAccess
                            ELSE WithoutNode(nwAccess, n)
             /\ nwHistory' = [nwHistory EXCEPT !.unpublished = @ \cup Untold(nwScript.request)]
             /\ nwScript' = AfterNw
             /\ UNCHANGED <<nwPending, nwBounds>>
          \/ /\ SpendNw("troubles")
             /\ nwScript' = NwIdle
             /\ nwPending' = IF op = "undo" THEN NoPolicy ELSE nwPending
             /\ IF op = "undo" THEN CutOff ELSE UNCHANGED nwHistory
             /\ UNCHANGED <<nwPeers, nwAccess>>
    /\ UNCHANGED <<nwManager, nwPolicy, nwXray, nwSwitches, nwPublished, nwTasks>>

PeerPolicy(a, r) ==
    LET default == \E q \in r.rules : q.to = "all" /\ q.ports \in {"", "all"}
        kept == [a EXCEPT !.mode = IF @ = "unset" THEN "unrestricted" ELSE @]
        full == {q \in r.rules : q.to = "all" /\ q.ports = "all"}
    IN IF r.op = "deny"
       THEN [kept EXCEPT !.allow = @ \ Denied(@, r.rules),
                         !.mode = IF default THEN "restricted" ELSE @]
       ELSE [kept EXCEPT !.allow = @ \cup (r.rules \ full),
                         !.mode = IF full # {} THEN "unrestricted" ELSE @]

(* Or the change fails and the old policy stays.                           *)
ChangeAccess ==
    /\ NextNw("access")
    /\ \/ /\ nwAccess' = [nwAccess EXCEPT ![nwScript.request.name] =
                              PeerPolicy(@, nwScript.request)]
          /\ UNCHANGED nwBounds
       \/ SpendNw("troubles") /\ UNCHANGED nwAccess
    /\ nwScript' = NwIdle
    /\ UNCHANGED <<nwPeers, nwManager, nwPolicy, nwPending, nwXray, nwSwitches, nwPublished,
                   nwTasks, nwHistory>>

(* Refused without a handshake in the last five minutes.                   *)
TransferManagement ==
    /\ NextNw("transfer")
    /\ nwManager' \in {nwManager, nwScript.request.name}
    /\ nwScript' = NwIdle
    /\ UNCHANGED <<nwPeers, nwAccess, nwPolicy, nwPending, nwXray, nwSwitches, nwPublished,
                   nwTasks, nwBounds, nwHistory>>

(* The agent kills a command that takes too long.                          *)
KillNetwork ==
    /\ nwScript # NwIdle
    /\ SpendNw("troubles")
    /\ nwScript' = NwIdle
    /\ CutOff
    /\ UNCHANGED <<nwPeers, nwAccess, nwManager, nwPolicy, nwPending, nwXray, nwSwitches,
                   nwPublished, nwTasks>>
-----------------------------------------------------------------------------
(* Root's shell, between commands: stage a change of clients, and apply     *)
(* what is staged.  Root gives no client the name of an AWG node.          *)

ShellRequests ==
    {NwAsk("vless", op, n, {}) :
        n \in {m \in NwNames : nwPeers[m] = "none"}, op \in {"add", "remove", "disable"}}

StageByHand ==
    /\ nwScript = NwIdle
    /\ SpendNw("edits")
    /\ \E r \in ShellRequests :
          /\ ClientAccepts(NwCandidate, r)
          /\ nwPending' = ClientPolicy(NwCandidate, r, MaxNwTasks + 2)
    /\ UNCHANGED <<nwPeers, nwAccess, nwManager, nwPolicy, nwXray, nwSwitches, nwPublished,
                   nwTasks, nwScript, nwHistory>>

ApplyByHand ==
    /\ nwScript = NwIdle
    /\ nwPending # NoPolicy
    /\ nwXray' = Served(nwPending)
    /\ nwPolicy' = nwPending
    /\ nwPending' = NoPolicy
    /\ nwHistory' = [nwHistory EXCEPT !.unpublished =
                         @ \cup {n \in NwNames : nwPending[n] # nwPolicy[n]}]
    /\ UNCHANGED <<nwPeers, nwAccess, nwManager, nwSwitches, nwPublished, nwTasks, nwScript,
                   nwBounds>>
-----------------------------------------------------------------------------
NetworkInit ==
    /\ nwManager \in NwNames
    /\ nwPeers \in [NwNames -> {"none", "on", "off"}] /\ nwPeers[nwManager] = "on"
    /\ \E client \in [NwNames -> BOOLEAN] :
          /\ \A n \in NwNames : client[n] => nwPeers[n] = "none"
          /\ nwPolicy = [n \in NwNames |-> IF client[n] THEN NewClient(1) ELSE NoClient]
    /\ nwAccess \in [NwNames -> [mode : {"unset", "unrestricted"}, allow : {{}}]
                                \cup [mode : {"restricted"}, allow : {RulesTo({"vps"})}]]
    /\ \A n \in NwNames : nwPeers[n] = "none" => nwAccess[n] = UnsetAccess
    /\ OpensManagement(nwAccess[nwManager].allow) \/ nwAccess[nwManager].mode = "unrestricted"
    /\ nwPending = NoPolicy /\ nwXray = Served(nwPolicy)
    /\ nwSwitches = [disabled |-> {}, clean |-> {}]
    /\ nwPublished = [n \in NwNames |-> Subscription(n)]
    /\ nwTasks = {} /\ nwScript = NwIdle
    /\ nwBounds = [tasks |-> MaxNwTasks, edits |-> MaxNwEdits, troubles |-> MaxNwTroubles,
                   ids |-> 2]
    /\ nwHistory = [cut |-> FALSE, unpublished |-> {}]

NetworkNext ==
    \/ PreviewNewNode \/ PreviewNodeChange \/ PreviewTransfer \/ PreviewPermission
    \/ PreviewSubscriptions \/ BeginNetwork \/ StageClients \/ ActivateXray
    \/ CommitClients \/ SwitchPublication \/ RefreshSubscriptions \/ ChangePeer
    \/ ChangeAccess \/ TransferManagement \/ KillNetwork \/ StageByHand \/ ApplyByHand

NetworkSpec == NetworkInit /\ [][NetworkNext]_networkVars
-----------------------------------------------------------------------------
NwClients == [id : 0..MaxNwTasks + 2, on : BOOLEAN, legacy : BOOLEAN,
              allow : SUBSET RulesTo(NwNames \cup {"all", "vps"})]

NwTypeOK ==
    /\ nwPeers \in [NwNames -> {"none", "on", "off"}] /\ nwManager \in NwNames
    /\ \A n \in NwNames : nwPolicy[n] \in NwClients /\ nwXray[n] \in NwClients
    /\ nwSwitches.disabled \cup nwSwitches.clean \subseteq NwNames
    /\ \A n \in NwNames : nwPublished[n].kind \in {"none", "awg", "vless"}

(* Between commands Xray serves the clients of the policy, and what is      *)
(* published says what nodes, policy and switches say, except of a name     *)
(* that was changed without publishing; so a command that failed half-way   *)
(* has left nothing behind (unless it was cut off or could not undo).       *)
NodesAreServed ==
    nwScript = NwIdle /\ ~nwHistory.cut
    => /\ nwXray = Served(nwPolicy)
       /\ \A n \in NwNames \ nwHistory.unpublished : nwPublished[n] = Subscription(n)

(* A command of the website does to the policy what its preview said, or    *)
(* nothing, or takes its own change back: it never commits with it what     *)
(* root's shell has staged.                                                 *)
OnlyPreviewedChanges ==
    [][nwScript # NwIdle =>
          nwPolicy' \in {nwPolicy, nwScript.saved.policy}
              \cup {ClientPolicy(nwPolicy, nwScript.request, id) :
                       id \in {i \in 0..MaxNwTasks + 2 : OnClients(nwScript.request)}}
      ]_networkVars
=============================================================================
