--------------------------- MODULE NetworkProofs ----------------------------
(***************************************************************************)
(* Theorems about nodes, permissions and subscriptions: for any names,     *)
(* tasks, failed steps, kills and changes by root's shell, Xray serves the *)
(* policy and the subscriptions say what there is, whatever step of a      *)
(* command fails; and a command commits nothing but what was previewed.    *)
(*                                                                         *)
(* The invariant follows a command through its script (NwScriptInv).  What *)
(* Xray serves between activation and commit is what is staged, and that is*)
(* what the command makes of the policy (NwPendingInv): the guard that     *)
(* refuses a command while root has something staged is what makes it so.  *)
(* What is published stays what it was before the command (NwShown) until  *)
(* the command publishes, so that a failure has only the policy, the       *)
(* switches or the new name to put back.  For the undoing of an addition   *)
(* the name has to be free again, also of a node of the other kind         *)
(* (NwNameInv).  A new client finds its number within the bounds, however  *)
(* many tasks have been previewed (NwCountInv).                            *)
(***************************************************************************)
EXTENDS NetworkTasks, FiniteSetTheorems, TLAPS

(* The step a command is at.                                               *)
NowOf(s) == IF s = <<>> THEN "" ELSE Head(s)

NwNow == NowOf(nwScript.steps)

NwRules == RulesTo(NwNames \cup {"all", "vps"})

NwIds == 0..MaxNwTasks + 2

(* What is left of every kind of command.                                  *)
WholeRest == {<<"stage", "activate", "commit", "publish">>, <<"activate", "commit", "publish">>,
              <<"commit", "publish">>, <<"publish">>}

CompatRest == {<<"stage", "commit", "publish">>, <<"commit", "publish">>, <<"publish">>}

ClientRest == {<<"stage", "activate", "commit">>, <<"activate", "commit">>, <<"commit">>}

SwitchRest == {<<"switch", "publish">>, <<"publish">>}

PeerRest == {<<"peer", "publish">>, <<"publish">>}

CleanOps == {"clean-enable", "clean-disable"}

(* Requests as previews and the undo of an addition make them.             *)
GoodRequest(r) ==
    /\ r = [kind |-> r.kind, op |-> r.op, name |-> r.name, rules |-> r.rules]
    /\ \/ r.kind = "" /\ r.op \in {"sync", "publish", "unpublish"}
       \/ /\ r.kind = "awg"
          /\ r.op \in {"import", "undo", "set-management"} \cup NodeOps
                        \cup PermissionOps \cup CleanOps
       \/ /\ r.kind = "vless"
          /\ r.op \in {"add", "undo"} \cup NodeOps \cup PermissionOps \cup Compat \cup CleanOps
    /\ r.op # "sync" => r.name \in NwNames
    /\ r.op \in {"allow", "batch"} => r.rules \subseteq NwRules

NwTaskInv ==
    \A t \in nwTasks :
        /\ GoodRequest(t.request) /\ t.request.op # "undo"
        /\ t.request.op \in {"add", "import"} =>
              /\ t.seen.peers[t.request.name] = "none"
              /\ t.seen.clients[t.request.name] = NoClient

NwShape ==
    /\ nwPeers \in [NwNames -> {"none", "on", "off"}]
    /\ nwManager \in NwNames
    /\ nwPolicy \in [NwNames -> NwClients] /\ nwXray \in [NwNames -> NwClients]
    /\ nwPending # NoPolicy => nwPending \in [NwNames -> NwClients]
    /\ nwSwitches \in [disabled : SUBSET NwNames, clean : SUBSET NwNames]
    /\ \A n \in NwNames : nwPublished[n].kind \in {"none", "awg", "vless"}
    /\ nwHistory = [cut |-> nwHistory.cut, unpublished |-> nwHistory.unpublished]
    /\ nwHistory.cut \in BOOLEAN

(* Every client to be has its number before the bound.                     *)
NwCountInv ==
    /\ nwBounds = [tasks |-> nwBounds.tasks, edits |-> nwBounds.edits,
                   troubles |-> nwBounds.troubles, ids |-> nwBounds.ids]
    /\ nwBounds.tasks \in Nat /\ nwBounds.ids \in Nat
    /\ IsFiniteSet(nwTasks)
    /\ nwBounds.ids + nwBounds.tasks + Cardinality(nwTasks)
         + (IF nwScript.request.op = "add" /\ NwNow = "stage" THEN 1 ELSE 0)
       <= MaxNwTasks + 2

NwScriptInv ==
    LET r == nwScript.request
        steps == nwScript.steps
    IN /\ nwScript = [request |-> r, steps |-> steps, saved |-> nwScript.saved]
       /\ nwScript = NwIdle <=> steps = <<>>
       /\ steps # <<>> =>
            /\ GoodRequest(r)
            /\ nwScript.saved.policy \in [NwNames -> NwClients]
            /\ nwScript.saved.switches \in [disabled : SUBSET NwNames, clean : SUBSET NwNames]
            /\ \/ r.op = "sync" /\ steps = <<"publish">>
               \/ r.op \in Switching /\ steps \in SwitchRest
               \/ r.op = "set-management" /\ steps = <<"transfer">>
               \/ r.kind = "awg" /\ r.op \in {"import", "undo"} /\ steps \in PeerRest
               \/ r.kind = "awg" /\ r.op \in PermissionOps /\ steps = <<"access">>
               \/ r.kind = "awg" /\ r.op \in NodeOps /\ steps = <<"peer">>
               \/ r.kind = "vless" /\ r.op \in Compat /\ steps \in CompatRest
               \/ r.kind = "vless" /\ r.op \in {"add", "undo"} /\ steps \in WholeRest
               \/ r.kind = "vless" /\ r.op \in NodeOps \cup PermissionOps /\ steps \in ClientRest

(* What is staged is what the command makes of the policy.                 *)
NwPendingInv ==
    /\ NwNow = "stage" => nwPending = NoPolicy
    /\ NwNow \in {"activate", "commit"} =>
          \E id \in NwIds : nwPending = ClientPolicy(nwPolicy, nwScript.request, id)
    /\ nwScript.request.op = "add" /\ NwNow = "publish" => nwPending = NoPolicy

(* The name of a new node is free until it is there, and again when it has *)
(* been taken back.                                                        *)
NwNameInv ==
    LET r == nwScript.request IN
    /\ r.kind = "vless" /\ r.op \in {"add", "undo"} => nwPeers[r.name] = "none"
    /\ r.kind = "awg" /\ r.op \in {"import", "undo"} => nwPolicy[r.name] = NoClient
    /\ \/ r.kind = "vless" /\ r.op = "add" /\ NwNow # "publish"
       \/ r.kind = "vless" /\ r.op = "undo" /\ NwNow = "publish"
       => nwPolicy[r.name] = NoClient
    /\ \/ r.kind = "awg" /\ r.op = "import" /\ NwNow # "publish"
       \/ r.kind = "awg" /\ r.op = "undo" /\ NwNow = "publish"
       => nwPeers[r.name] = "none"

(* What a subscription says of a node.                                     *)
SubscriptionOf(n, peer, client, switches) ==
    IF n \in switches.disabled \/ ~(peer = "on" \/ client.on) THEN NoSubscription
    ELSE IF peer = "on"
    THEN [NoSubscription EXCEPT !.kind = "awg", !.clean = n \in switches.clean]
    ELSE [kind |-> "vless", id |-> client.id, legacy |-> client.legacy,
          clean |-> n \in switches.clean]

(* What is published during a command: what was there before it.           *)
NwShown(n) ==
    LET r == nwScript.request
        s == nwScript.saved
    IN IF r.op \in Switching
       THEN SubscriptionOf(n, nwPeers[n], nwPolicy[n], s.switches)
       ELSE IF r.op \in Compat
       THEN SubscriptionOf(n, nwPeers[n], s.policy[n], nwSwitches)
       ELSE IF r.op \in {"add", "import", "undo"} /\ n = r.name THEN NoSubscription
       ELSE SubscriptionOf(n, nwPeers[n], nwPolicy[n], nwSwitches)

NwServedInv ==
    /\ nwScript.request.op \in Compat /\ NwNow \in {"stage", "commit"} =>
          nwScript.saved.policy = nwPolicy
    /\ nwScript.request.op \in Switching /\ NwNow = "switch" =>
          nwScript.saved.switches = nwSwitches
    /\ ~nwHistory.cut =>
         /\ IF NwNow = "commit" /\ nwScript.request.op \notin Compat
            THEN nwXray = Served(nwPending)
            ELSE nwXray = Served(nwPolicy)
         /\ nwScript.request.op \in Compat => nwXray = Served(nwScript.saved.policy)
         /\ \A n \in NwNames \ nwHistory.unpublished : nwPublished[n] = NwShown(n)

NwInv ==
    /\ NwTaskInv /\ NwShape /\ NwCountInv /\ NwScriptInv /\ NwPendingInv /\ NwNameInv
    /\ NwServedInv
-----------------------------------------------------------------------------
(* The steps of the commands, one by one.                                  *)
LEMMA NwTuples ==
    /\ NowOf(<<>>) = ""
    /\ NowOf(<<"publish">>) = "publish" /\ Len(<<"publish">>) = 1
    /\ NowOf(<<"transfer">>) = "transfer" /\ Len(<<"transfer">>) = 1
    /\ NowOf(<<"access">>) = "access" /\ Len(<<"access">>) = 1
    /\ NowOf(<<"peer">>) = "peer" /\ Len(<<"peer">>) = 1
    /\ NowOf(<<"commit">>) = "commit" /\ Len(<<"commit">>) = 1
    /\ NowOf(<<"switch", "publish">>) = "switch" /\ Len(<<"switch", "publish">>) # 1
    /\ Tail(<<"switch", "publish">>) = <<"publish">>
    /\ NowOf(<<"peer", "publish">>) = "peer" /\ Len(<<"peer", "publish">>) # 1
    /\ Tail(<<"peer", "publish">>) = <<"publish">>
    /\ NowOf(<<"commit", "publish">>) = "commit" /\ Len(<<"commit", "publish">>) # 1
    /\ Tail(<<"commit", "publish">>) = <<"publish">>
    /\ NowOf(<<"activate", "commit">>) = "activate" /\ Len(<<"activate", "commit">>) # 1
    /\ Tail(<<"activate", "commit">>) = <<"commit">>
BY DEF NowOf

(* The same of the scripts of three and four steps.                         *)
LEMMA NwLongTuples ==
    /\ NowOf(<<"stage", "commit", "publish">>) = "stage"
    /\ Len(<<"stage", "commit", "publish">>) # 1
    /\ Tail(<<"stage", "commit", "publish">>) = <<"commit", "publish">>
    /\ NowOf(<<"activate", "commit", "publish">>) = "activate"
    /\ Len(<<"activate", "commit", "publish">>) # 1
    /\ Tail(<<"activate", "commit", "publish">>) = <<"commit", "publish">>
    /\ NowOf(<<"stage", "activate", "commit">>) = "stage"
    /\ Len(<<"stage", "activate", "commit">>) # 1
    /\ Tail(<<"stage", "activate", "commit">>) = <<"activate", "commit">>
    /\ NowOf(<<"stage", "activate", "commit", "publish">>) = "stage"
    /\ Len(<<"stage", "activate", "commit", "publish">>) # 1
    /\ Tail(<<"stage", "activate", "commit", "publish">>) = <<"activate", "commit", "publish">>
BY DEF NowOf

(* What a command is at, what comes next, and what it then still has to do. *)
NwCourse(r, now, next) ==
    \/ r.op = "sync" /\ now = "publish" /\ next = ""
    \/ /\ r.op \in Switching
       /\ \/ now = "switch" /\ next = "publish"
          \/ now = "publish" /\ next = ""
    \/ r.op = "set-management" /\ now = "transfer" /\ next = ""
    \/ /\ r.kind = "awg" /\ r.op \in {"import", "undo"}
       /\ \/ now = "peer" /\ next = "publish"
          \/ now = "publish" /\ next = ""
    \/ r.kind = "awg" /\ r.op \in PermissionOps /\ now = "access" /\ next = ""
    \/ r.kind = "awg" /\ r.op \in NodeOps /\ now = "peer" /\ next = ""
    \/ /\ r.kind = "vless" /\ r.op \in Compat
       /\ \/ now = "stage" /\ next = "commit"
          \/ now = "commit" /\ next = "publish"
          \/ now = "publish" /\ next = ""
    \/ /\ r.kind = "vless" /\ r.op \in {"add", "undo"}
       /\ \/ now = "stage" /\ next = "activate"
          \/ now = "activate" /\ next = "commit"
          \/ now = "commit" /\ next = "publish"
          \/ now = "publish" /\ next = ""
    \/ /\ r.kind = "vless" /\ r.op \in NodeOps \cup PermissionOps
       /\ \/ now = "stage" /\ next = "activate"
          \/ now = "activate" /\ next = "commit"
          \/ now = "commit" /\ next = ""

NwFollowing(s) == IF Len(s) = 1 THEN "" ELSE NowOf(Tail(s))

(* What comes next in a script of all four steps.                           *)
LEMMA NwWhole ==
    ASSUME NEW s \in WholeRest
    PROVE  /\ Len(s) # 1 => Tail(s) \in WholeRest
           /\ s # <<>>
           /\ \/ NowOf(s) = "stage" /\ NwFollowing(s) = "activate" /\ Len(s) # 1
              \/ NowOf(s) = "activate" /\ NwFollowing(s) = "commit" /\ Len(s) # 1
              \/ NowOf(s) = "commit" /\ NwFollowing(s) = "publish" /\ Len(s) # 1
              \/ NowOf(s) = "publish" /\ NwFollowing(s) = "" /\ Len(s) = 1
<1>1. CASE s = <<"stage", "activate", "commit", "publish">>
  BY <1>1, NwTuples, NwLongTuples DEF NwFollowing, WholeRest
<1>2. CASE s = <<"activate", "commit", "publish">>
  BY <1>2, NwTuples, NwLongTuples DEF NwFollowing, WholeRest
<1>3. CASE s = <<"commit", "publish">>
  BY <1>3, NwTuples, NwLongTuples DEF NwFollowing, WholeRest
<1>4. CASE s = <<"publish">>
  BY <1>4, NwTuples, NwLongTuples DEF NwFollowing, WholeRest
<1> QED  BY <1>1, <1>2, <1>3, <1>4 DEF WholeRest

(* In one that skips Xray.                                                  *)
LEMMA NwCompatible ==
    ASSUME NEW s \in CompatRest
    PROVE  /\ Len(s) # 1 => Tail(s) \in CompatRest
           /\ s # <<>>
           /\ \/ NowOf(s) = "stage" /\ NwFollowing(s) = "commit" /\ Len(s) # 1
              \/ NowOf(s) = "commit" /\ NwFollowing(s) = "publish" /\ Len(s) # 1
              \/ NowOf(s) = "publish" /\ NwFollowing(s) = "" /\ Len(s) = 1
<1>1. CASE s = <<"stage", "commit", "publish">>
  BY <1>1, NwTuples, NwLongTuples DEF NwFollowing, CompatRest
<1>3. CASE s = <<"commit", "publish">>
  BY <1>3, NwTuples, NwLongTuples DEF NwFollowing, CompatRest
<1>4. CASE s = <<"publish">>
  BY <1>4, NwTuples, NwLongTuples DEF NwFollowing, CompatRest
<1> QED  BY <1>1, <1>3, <1>4 DEF CompatRest

(* In one that does not publish.                                            *)
LEMMA NwClient ==
    ASSUME NEW s \in ClientRest
    PROVE  /\ Len(s) # 1 => Tail(s) \in ClientRest
           /\ s # <<>>
           /\ \/ NowOf(s) = "stage" /\ NwFollowing(s) = "activate" /\ Len(s) # 1
              \/ NowOf(s) = "activate" /\ NwFollowing(s) = "commit" /\ Len(s) # 1
              \/ NowOf(s) = "commit" /\ NwFollowing(s) = "" /\ Len(s) = 1
<1>1. CASE s = <<"stage", "activate", "commit">>
  BY <1>1, NwTuples, NwLongTuples DEF NwFollowing, ClientRest
<1>3. CASE s = <<"activate", "commit">>
  BY <1>3, NwTuples, NwLongTuples DEF NwFollowing, ClientRest
<1>4. CASE s = <<"commit">>
  BY <1>4, NwTuples, NwLongTuples DEF NwFollowing, ClientRest
<1> QED  BY <1>1, <1>3, <1>4 DEF ClientRest

(* In one that switches publications.                                       *)
LEMMA NwSwitched ==
    ASSUME NEW s \in SwitchRest
    PROVE  /\ Len(s) # 1 => Tail(s) \in SwitchRest
           /\ s # <<>>
           /\ \/ NowOf(s) = "switch" /\ NwFollowing(s) = "publish" /\ Len(s) # 1
              \/ NowOf(s) = "publish" /\ NwFollowing(s) = "" /\ Len(s) = 1
<1>1. CASE s = <<"switch", "publish">>
  BY <1>1, NwTuples DEF NwFollowing, SwitchRest
<1>2. CASE s = <<"publish">>
  BY <1>2, NwTuples DEF NwFollowing, SwitchRest
<1> QED  BY <1>1, <1>2 DEF SwitchRest

(* In one that adds an AWG node.                                            *)
LEMMA NwPeered ==
    ASSUME NEW s \in PeerRest
    PROVE  /\ Len(s) # 1 => Tail(s) \in PeerRest
           /\ s # <<>>
           /\ \/ NowOf(s) = "peer" /\ NwFollowing(s) = "publish" /\ Len(s) # 1
              \/ NowOf(s) = "publish" /\ NwFollowing(s) = "" /\ Len(s) = 1
<1>1. CASE s = <<"peer", "publish">>
  BY <1>1, NwTuples DEF NwFollowing, PeerRest
<1>2. CASE s = <<"publish">>
  BY <1>2, NwTuples DEF NwFollowing, PeerRest
<1> QED  BY <1>1, <1>2 DEF PeerRest

(* What the command at hand is at.                                         *)
LEMMA NwGoing ==
    ASSUME NwScriptInv, nwScript.steps # <<>>
    PROVE  /\ NwCourse(nwScript.request, NwNow, NwFollowing(nwScript.steps))
           /\ NwFollowing(nwScript.steps) = "" <=> Len(nwScript.steps) = 1
           /\ NwNow # ""
<1> DEFINE r == nwScript.request
           s == nwScript.steps
<1>1. CASE r.op = "sync" /\ s = <<"publish">>
  BY <1>1, NwTuples DEF NwCourse, NwFollowing, NwNow
<1>2. CASE r.op \in Switching /\ s \in SwitchRest
  BY <1>2, NwSwitched DEF NwCourse, NwNow
<1>3. CASE r.op = "set-management" /\ s = <<"transfer">>
  BY <1>3, NwTuples DEF NwCourse, NwFollowing, NwNow
<1>4. CASE r.kind = "awg" /\ r.op \in {"import", "undo"} /\ s \in PeerRest
  BY <1>4, NwPeered DEF NwCourse, NwNow
<1>5. CASE r.kind = "awg" /\ r.op \in PermissionOps /\ s = <<"access">>
  BY <1>5, NwTuples DEF NwCourse, NwFollowing, NwNow
<1>6. CASE r.kind = "awg" /\ r.op \in NodeOps /\ s = <<"peer">>
  BY <1>6, NwTuples DEF NwCourse, NwFollowing, NwNow
<1>7. CASE r.kind = "vless" /\ r.op \in Compat /\ s \in CompatRest
  BY <1>7, NwCompatible DEF NwCourse, NwNow
<1>8. CASE r.kind = "vless" /\ r.op \in {"add", "undo"} /\ s \in WholeRest
  BY <1>8, NwWhole DEF NwCourse, NwNow
<1>9. CASE r.kind = "vless" /\ r.op \in NodeOps \cup PermissionOps /\ s \in ClientRest
  BY <1>9, NwClient DEF NwCourse, NwNow
<1> QED  BY <1>1, <1>2, <1>3, <1>4, <1>5, <1>6, <1>7, <1>8, <1>9 DEF NwScriptInv

(* A command that has ended.                                               *)
LEMMA NwEnded ==
    ASSUME nwScript' = NwIdle
    PROVE  /\ NwScriptInv' /\ NwNow' = "" /\ nwScript'.request = NwRequest
           /\ nwScript'.request.op = "" /\ nwScript'.request.kind = ""
<1>1. nwScript'.steps = <<>> /\ nwScript'.request = NwRequest
  BY DEF NwIdle
<1> QED  BY <1>1, NwTuples DEF NwScriptInv, NwIdle, NwNow, NwRequest, NwAsk

(* A step taken leaves the rest of the same command, or nothing.           *)
LEMMA NwGoesOn ==
    ASSUME NwScriptInv, nwScript.steps # <<>>, nwScript' = AfterNw
    PROVE  /\ NwScriptInv' /\ NwNow' = NwFollowing(nwScript.steps)
           /\ NwFollowing(nwScript.steps) = "" => nwScript' = NwIdle
           /\ NwFollowing(nwScript.steps) # "" =>
                 nwScript'.request = nwScript.request /\ nwScript'.saved = nwScript.saved
<1> DEFINE r == nwScript.request
           s == nwScript.steps
<1>1. CASE Len(s) = 1
  <2>1. nwScript' = NwIdle /\ NwFollowing(s) = ""
    BY <1>1 DEF AfterNw, NwFollowing
  <2> QED  BY <2>1, NwEnded
<1>2. CASE Len(s) # 1
  <2>1. nwScript' = [nwScript EXCEPT !.steps = Tail(s)]
    BY <1>2 DEF AfterNw
  <2>2. /\ nwScript' = [request |-> r, steps |-> Tail(s), saved |-> nwScript.saved]
        /\ nwScript'.request = r /\ nwScript'.steps = Tail(s) /\ nwScript'.saved = nwScript.saved
    BY <2>1 DEF NwScriptInv
  <2>3. NwFollowing(s) = NowOf(Tail(s)) /\ NwFollowing(s) # ""
    BY <1>2, NwGoing DEF NwFollowing
  <2>4. Tail(s) # <<>>
    BY <2>3 DEF NowOf
  <2>5. /\ s \in SwitchRest => Tail(s) \in SwitchRest
        /\ s \in PeerRest => Tail(s) \in PeerRest
        /\ s \in CompatRest => Tail(s) \in CompatRest
        /\ s \in WholeRest => Tail(s) \in WholeRest
        /\ s \in ClientRest => Tail(s) \in ClientRest
    BY <1>2, NwSwitched, NwPeered, NwCompatible, NwWhole, NwClient
  <2>6. s \notin {<<"publish">>, <<"transfer">>, <<"access">>, <<"peer">>}
    BY <1>2, NwTuples
  <2>7. \/ r.op \in Switching /\ s \in SwitchRest
        \/ r.kind = "awg" /\ r.op \in {"import", "undo"} /\ s \in PeerRest
        \/ r.kind = "vless" /\ r.op \in Compat /\ s \in CompatRest
        \/ r.kind = "vless" /\ r.op \in {"add", "undo"} /\ s \in WholeRest
        \/ r.kind = "vless" /\ r.op \in NodeOps \cup PermissionOps /\ s \in ClientRest
    BY <2>6 DEF NwScriptInv
  <2>8. \/ r.op \in Switching /\ nwScript'.steps \in SwitchRest
        \/ r.kind = "awg" /\ r.op \in {"import", "undo"} /\ nwScript'.steps \in PeerRest
        \/ r.kind = "vless" /\ r.op \in Compat /\ nwScript'.steps \in CompatRest
        \/ r.kind = "vless" /\ r.op \in {"add", "undo"} /\ nwScript'.steps \in WholeRest
        \/ r.kind = "vless" /\ r.op \in NodeOps \cup PermissionOps
             /\ nwScript'.steps \in ClientRest
    <3> HIDE DEF r, s
    <3> QED  BY <2>2, <2>5, <2>7
  <2>9. nwScript' # NwIdle
    BY <2>2, <2>4 DEF NwIdle
  <2>10. GoodRequest(r)' /\ (nwScript.saved.policy \in [NwNames -> NwClients])'
         /\ (nwScript.saved.switches \in [disabled : SUBSET NwNames, clean : SUBSET NwNames])'
    BY <2>2 DEF NwScriptInv, GoodRequest
  <2>11. NwScriptInv'
    BY <2>2, <2>4, <2>8, <2>9, <2>10 DEF NwScriptInv
  <2> QED  BY <2>2, <2>3, <2>11 DEF NwNow
<1> QED  BY <1>1, <1>2

(* Between commands there is no request.                                    *)
LEMMA NwResting ==
    ASSUME nwScript = NwIdle
    PROVE  NwNow = "" /\ nwScript.request = NwRequest /\ nwScript.request.op = ""
           /\ nwScript.request.kind = ""
<1>1. nwScript.steps = <<>> /\ nwScript.request = NwRequest
  BY DEF NwIdle
<1> QED  BY <1>1, NwTuples DEF NwIdle, NwNow, NwRequest, NwAsk

(* A client that a command makes of another one.                           *)
LEMMA ClientMade ==
    ASSUME NEW p \in [NwNames -> NwClients], NEW r, GoodRequest(r), r.kind = "vless",
           r.op \notin Switching, NEW id \in NwIds
    PROVE  /\ ClientPolicy(p, r, id) \in [NwNames -> NwClients]
           /\ \A m \in NwNames \ {r.name} : ClientPolicy(p, r, id)[m] = p[m]
           /\ r.op = "undo" => ClientPolicy(p, r, id)[r.name] = NoClient
           /\ r.op \in PermissionOps =>
                 /\ ClientPolicy(p, r, id)[r.name].id = p[r.name].id
                 /\ ClientPolicy(p, r, id)[r.name].on = p[r.name].on
                 /\ ClientPolicy(p, r, id)[r.name].legacy = p[r.name].legacy
           /\ r.op \in Compat => Served(ClientPolicy(p, r, id)) = Served(p)
<1> DEFINE q == ClientPolicy(p, r, id)
           c == p[r.name]
<1>0. r.name \in NwNames /\ c \in NwClients
  BY DEF GoodRequest, NodeOps, PermissionOps, Compat, CleanOps, Switching
<1>1. c = [id |-> c.id, on |-> c.on, legacy |-> c.legacy, allow |-> c.allow]
      /\ c.id \in NwIds /\ c.on \in BOOLEAN /\ c.legacy \in BOOLEAN /\ c.allow \subseteq NwRules
  BY <1>0 DEF NwClients, NwIds, NwRules
<1>2. NoClient \in NwClients
  BY NetworkAssumption DEF NoClient, NwClients
<1>3. CASE r.op = "add"
  <2>1. q = [p EXCEPT ![r.name] = NewClient(id)]
    BY <1>3, Zenon DEF ClientPolicy, ChangedClient, Compat
  <2>2. NewClient(id) \in NwClients
    BY DEF NewClient, NwClients, NwIds
  <2> QED  BY <1>0, <1>3, <2>1, <2>2 DEF PermissionOps, Compat
<1>4. CASE r.op \in {"remove", "undo"}
  <2>1. q = [p EXCEPT ![r.name] = NoClient]
    BY <1>4, Zenon DEF ClientPolicy, ChangedClient, Compat
  <2> QED  BY <1>0, <1>2, <1>4, <2>1 DEF PermissionOps, Compat
<1>5. CASE r.op \in {"enable", "disable"}
  <2>1. \E v \in BOOLEAN : q = [p EXCEPT ![r.name] = [c EXCEPT !.on = v]]
    <3>1. CASE r.op = "enable"
      <4>1. q = [p EXCEPT ![r.name] = [c EXCEPT !.on = TRUE]]
        BY <3>1, Zenon DEF ClientPolicy, ChangedClient, Compat
      <4> QED  BY <4>1
    <3>2. CASE r.op = "disable"
      <4>1. q = [p EXCEPT ![r.name] = [c EXCEPT !.on = FALSE]]
        BY <3>2, Zenon DEF ClientPolicy, ChangedClient, Compat
      <4> QED  BY <4>1
    <3> QED  BY <1>5, <3>1, <3>2
  <2>2. \A v \in BOOLEAN : [c EXCEPT !.on = v] \in NwClients
    BY <1>0 DEF NwClients
  <2> QED  BY <1>0, <1>5, <2>1, <2>2 DEF PermissionOps, Compat
<1>6. CASE r.op \in PermissionOps
  <2>1. \E v \in SUBSET NwRules : q = [p EXCEPT ![r.name] = [c EXCEPT !.allow = v]]
    <3>1. CASE r.op \in {"allow", "batch"}
      <4>1. q = [p EXCEPT ![r.name] = [c EXCEPT !.allow = c.allow \cup r.rules]]
        BY <3>1, Zenon DEF ClientPolicy, ChangedClient, Compat
      <4>2. c.allow \cup r.rules \in SUBSET NwRules
        BY <1>1, <3>1 DEF GoodRequest
      <4> QED  BY <4>1, <4>2
    <3>2. CASE r.op = "deny"
      <4>1. q = [p EXCEPT ![r.name] = [c EXCEPT !.allow = c.allow \ Denied(c.allow, r.rules)]]
        BY <3>2, Zenon DEF ClientPolicy, ChangedClient, Compat
      <4>2. c.allow \ Denied(c.allow, r.rules) \in SUBSET NwRules
        BY <1>1
      <4> QED  BY <4>1, <4>2
    <3> HIDE DEF q, c
    <3> QED  BY <1>6, <3>1, <3>2 DEF PermissionOps
  <2>2. PICK v \in SUBSET NwRules : q = [p EXCEPT ![r.name] = [c EXCEPT !.allow = v]]
    BY <2>1
  <2>3. [c EXCEPT !.allow = v]
          = [id |-> c.id, on |-> c.on, legacy |-> c.legacy, allow |-> v]
    BY <1>1
  <2>4. [c EXCEPT !.allow = v] \in NwClients
    BY <1>1, <2>3 DEF NwClients, NwIds, NwRules
  <2>5. q[r.name] = [id |-> c.id, on |-> c.on, legacy |-> c.legacy, allow |-> v]
    BY <1>0, <2>2, <2>3
  <2>6. q \in [NwNames -> NwClients] /\ \A m \in NwNames \ {r.name} : q[m] = p[m]
    BY <1>0, <2>2, <2>4
  <2> HIDE DEF q
  <2>7. r.op # "undo" /\ r.op \notin Compat
    BY <1>6 DEF PermissionOps, Compat
  <2>8. q[r.name].id = c.id /\ q[r.name].on = c.on /\ q[r.name].legacy = c.legacy
    BY <2>5
  <2> QED  BY <2>6, <2>7, <2>8 DEF q, c
<1>7. CASE r.op \in Compat
  <2>1. \E v \in BOOLEAN : q = [p EXCEPT ![r.name] = [c EXCEPT !.legacy = v]]
    <3>1. q = [p EXCEPT ![r.name] = [c EXCEPT !.legacy = (r.op = "compat-enable")]]
      BY <1>7, Zenon DEF ClientPolicy, ChangedClient, Compat
    <3> QED  BY <3>1
  <2>2. PICK v \in BOOLEAN : q = [p EXCEPT ![r.name] = [c EXCEPT !.legacy = v]]
    BY <2>1
  <2>3. [c EXCEPT !.legacy = v]
          = [id |-> c.id, on |-> c.on, legacy |-> v, allow |-> c.allow]
    BY <1>1
  <2>4. [c EXCEPT !.legacy = v] \in NwClients
    BY <1>1, <2>3 DEF NwClients, NwIds, NwRules
  <2>5. q[r.name] = [id |-> c.id, on |-> c.on, legacy |-> v, allow |-> c.allow]
    BY <1>0, <2>2, <2>3
  <2>6. q \in [NwNames -> NwClients] /\ \A m \in NwNames \ {r.name} : q[m] = p[m]
    BY <1>0, <2>2, <2>4
  <2> HIDE DEF q
  <2>7. q[r.name].on = c.on
    BY <2>5
  <2>8. [q[r.name] EXCEPT !.legacy = FALSE] = [c EXCEPT !.legacy = FALSE]
    <3>1. q[r.name] = [c EXCEPT !.legacy = v]
      BY <2>3, <2>5
    <3>2. [[c EXCEPT !.legacy = v] EXCEPT !.legacy = FALSE] = [c EXCEPT !.legacy = FALSE]
      BY <1>1, <2>3
    <3> QED  BY <3>1, <3>2
  <2>9. \A m \in NwNames : /\ q[m].on = p[m].on
                           /\ [q[m] EXCEPT !.legacy = FALSE] = [p[m] EXCEPT !.legacy = FALSE]
    BY <2>6, <2>7, <2>8
  <2>10. Served(q) = Served(p)
    BY <2>9, Zenon DEF Served
  <2>11. r.op # "undo" /\ r.op \notin PermissionOps
    BY <1>7 DEF PermissionOps, Compat
  <2> QED  BY <2>6, <2>10, <2>11 DEF q
<1> QED
  <2>1. r.op \in {"add", "undo"} \cup NodeOps \cup PermissionOps \cup Compat
    BY DEF GoodRequest, CleanOps, Switching
  <2> HIDE DEF q, c
  <2> QED  BY <2>1, <1>3, <1>4, <1>5, <1>6, <1>7 DEF NodeOps

(* What the model publishes is what the invariant says of it.              *)
LEMMA NwSubscription ==
    \A n : Subscription(n) = SubscriptionOf(n, nwPeers[n], nwPolicy[n], nwSwitches)
BY Zenon DEF Subscription, SubscriptionOf, IsEnabled

(* A subscription is of one of three kinds.                                 *)
LEMMA NwKinds ==
    \A n, peer, client, switches :
        SubscriptionOf(n, peer, client, switches).kind \in {"none", "awg", "vless"}
BY DEF SubscriptionOf, NoSubscription

(* What Xray serves has the shape of a policy.                             *)
LEMMA NwServes ==
    ASSUME NEW p \in [NwNames -> NwClients]
    PROVE  Served(p) \in [NwNames -> NwClients]
<1>1. NoClient \in NwClients
  BY NetworkAssumption DEF NoClient, NwClients
<1>2. \A m \in NwNames : [p[m] EXCEPT !.legacy = FALSE] \in NwClients
  BY DEF NwClients
<1> QED  BY <1>1, <1>2 DEF Served
-----------------------------------------------------------------------------
(* At the start Xray serves the policy and every subscription is published. *)
LEMMA NwInitInv == NetworkInit => NwInv
<1> SUFFICES ASSUME NetworkInit PROVE NwInv
  OBVIOUS
<1>0. /\ nwTasks = {} /\ nwScript = NwIdle /\ nwPending = NoPolicy
      /\ nwSwitches = [disabled |-> {}, clean |-> {}]
      /\ nwBounds = [tasks |-> MaxNwTasks, edits |-> MaxNwEdits, troubles |-> MaxNwTroubles,
                     ids |-> 2]
      /\ nwHistory = [cut |-> FALSE, unpublished |-> {}]
      /\ nwXray = Served(nwPolicy)
      /\ nwPublished = [n \in NwNames |-> Subscription(n)]
      /\ nwManager \in NwNames /\ nwPeers \in [NwNames -> {"none", "on", "off"}]
  BY DEF NetworkInit
<1>1. NwNow = "" /\ nwScript.request.op = "" /\ nwScript.request.kind = "" /\ NwScriptInv
  <2>1. nwScript.steps = <<>>
    BY <1>0 DEF NwIdle
  <2> QED  BY <1>0, <2>1, NwResting DEF NwScriptInv, NwIdle
<1>2. nwPolicy \in [NwNames -> NwClients]
  <2>1. NoClient \in NwClients /\ NewClient(1) \in NwClients
    <3>2. 0 \in NwIds /\ 1 \in NwIds
      BY NetworkAssumption DEF NwIds
    <3>3. NoClient \in NwClients
      BY <3>2 DEF NoClient, NwClients, NwIds
    <3>4. NewClient(1) \in NwClients
      BY <3>2 DEF NewClient, NwClients, NwIds
    <3> QED  BY <3>3, <3>4
  <2>2. PICK client \in [NwNames -> BOOLEAN] :
           nwPolicy = [n \in NwNames |-> IF client[n] THEN NewClient(1) ELSE NoClient]
    BY DEF NetworkInit
  <2> QED  BY <2>1, <2>2
<1>3. NwTaskInv
  BY <1>0 DEF NwTaskInv
<1>4. NwShape
  <2>1. \A n \in NwNames : nwPublished[n].kind \in {"none", "awg", "vless"}
    BY <1>0, NwSubscription, NwKinds
  <2> QED  BY <1>0, <1>2, <2>1, NwServes DEF NwShape
<1>5. NwCountInv
  <2>1. IsFiniteSet(nwTasks) /\ Cardinality(nwTasks) = 0
    BY <1>0, FS_EmptySet
  <2>2. ~(nwScript.request.op = "add" /\ NwNow = "stage")
    BY <1>1
  <2>3. nwBounds.tasks = MaxNwTasks /\ nwBounds.ids = 2 /\ MaxNwTasks \in Nat
    BY <1>0, NetworkAssumption
  <2>4. nwBounds = [tasks |-> nwBounds.tasks, edits |-> nwBounds.edits,
                    troubles |-> nwBounds.troubles, ids |-> nwBounds.ids]
    BY <1>0
  <2> QED  BY <2>1, <2>2, <2>3, <2>4 DEF NwCountInv
<1>6. NwPendingInv /\ NwNameInv
  BY <1>1 DEF NwPendingInv, NwNameInv
<1>7. NwServedInv
  <2>1. \A n \in NwNames : nwPublished[n] = NwShown(n)
    BY <1>0, <1>1, NwSubscription DEF NwShown, Switching, Compat
  <2> QED  BY <1>0, <1>1, <2>1 DEF NwServedInv, Switching, Compat
<1> QED  BY <1>1, <1>3, <1>4, <1>5, <1>6, <1>7 DEF NwInv
-----------------------------------------------------------------------------
(* What is left of the bounds.                                             *)
LEMMA NwSpent ==
    ASSUME NwCountInv, NEW what \in {"tasks", "edits", "troubles"}, SpendNw(what)
    PROVE  /\ nwBounds' = [tasks |-> nwBounds'.tasks, edits |-> nwBounds'.edits,
                           troubles |-> nwBounds'.troubles, ids |-> nwBounds'.ids]
           /\ nwBounds'.ids = nwBounds.ids /\ nwBounds'.tasks \in Nat
           /\ nwBounds'.tasks = IF what = "tasks" THEN nwBounds.tasks - 1 ELSE nwBounds.tasks
<1>1. /\ nwBounds = [tasks |-> nwBounds.tasks, edits |-> nwBounds.edits,
                     troubles |-> nwBounds.troubles, ids |-> nwBounds.ids]
      /\ nwBounds.tasks \in Nat
  BY DEF NwCountInv
<1>2. CASE what = "tasks"
  <2>1. nwBounds.tasks > 0 /\ nwBounds' = [nwBounds EXCEPT !.tasks = nwBounds.tasks - 1]
    BY <1>2 DEF SpendNw
  <2> QED  BY <1>1, <1>2, <2>1
<1>3. CASE what = "edits"
  <2>1. nwBounds' = [nwBounds EXCEPT !.edits = nwBounds.edits - 1]
    BY <1>3 DEF SpendNw
  <2> QED  BY <1>1, <1>3, <2>1
<1>4. CASE what = "troubles"
  <2>1. nwBounds' = [nwBounds EXCEPT !.troubles = nwBounds.troubles - 1]
    BY <1>4 DEF SpendNw
  <2> QED  BY <1>1, <1>4, <2>1
<1> QED  BY <1>2, <1>3, <1>4

(* A step that neither previews nor numbers a client.                      *)
LEMMA NwCounts ==
    ASSUME NwCountInv, nwTasks' = nwTasks,
           nwBounds' = nwBounds \/ SpendNw("edits") \/ SpendNw("troubles"),
           nwScript'.request.op = "add" /\ NwNow' = "stage" =>
               nwScript.request.op = "add" /\ NwNow = "stage"
    PROVE  NwCountInv'
<1>1. /\ nwBounds' = [tasks |-> nwBounds'.tasks, edits |-> nwBounds'.edits,
                      troubles |-> nwBounds'.troubles, ids |-> nwBounds'.ids]
      /\ nwBounds'.ids = nwBounds.ids /\ nwBounds'.tasks = nwBounds.tasks
  BY NwSpent DEF NwCountInv
<1>2. nwBounds.ids \in Nat /\ nwBounds.tasks \in Nat /\ IsFiniteSet(nwTasks)
      /\ Cardinality(nwTasks) \in Nat
  BY FS_CardinalityType DEF NwCountInv
<1> DEFINE due == nwScript.request.op = "add" /\ NwNow = "stage"
<1>3. nwBounds.ids + nwBounds.tasks + Cardinality(nwTasks) + (IF due THEN 1 ELSE 0)
        <= MaxNwTasks + 2
  BY DEF NwCountInv
<1>4. due' => due
  OBVIOUS
<1> HIDE DEF due
<1>5. nwBounds.ids + nwBounds.tasks + Cardinality(nwTasks) + (IF due' THEN 1 ELSE 0)
        <= MaxNwTasks + 2
  BY <1>2, <1>3, <1>4, NetworkAssumption
<1> QED  BY <1>1, <1>2, <1>5 DEF NwCountInv, due

(* A client's number is in its bounds.                                     *)
LEMMA NwNumber ==
    ASSUME NwCountInv
    PROVE  nwBounds.ids \in NwIds
<1>1. nwBounds.ids \in Nat /\ nwBounds.tasks \in Nat /\ Cardinality(nwTasks) \in Nat
  BY FS_CardinalityType DEF NwCountInv
<1> QED  BY <1>1, NetworkAssumption DEF NwCountInv, NwIds

(* A preview adds its task.                                                *)
LEMMA NwPreviewed ==
    ASSUME NwInv, NEW r, NwPreview(r), GoodRequest(r), r.op # "undo",
           r.op \in {"add", "import"} => nwPeers[r.name] = "none" /\ nwPolicy[r.name] = NoClient
    PROVE  NwInv'
<1>1. /\ SpendNw("tasks") /\ nwTasks' = nwTasks \cup {[request |-> r, seen |-> NwOverview]}
      /\ UNCHANGED <<nwPeers, nwAccess, nwManager, nwPolicy, nwPending, nwXray, nwSwitches,
                     nwPublished, nwScript, nwHistory>>
  BY DEF NwPreview
<1>2. NwTaskInv'
  <2> DEFINE new == [request |-> r, seen |-> NwOverview]
  <2>1. new.request = r /\ new.seen.peers = nwPeers
        /\ new.seen.clients = [n \in NwNames |-> [nwPolicy[n] EXCEPT !.id = IF @ = 0 THEN 0 ELSE 1]]
    BY DEF NwOverview
  <2>2. r.op \in {"add", "import"} => new.seen.clients[r.name] = NoClient
    <3> HAVE r.op \in {"add", "import"}
    <3>1. r.name \in NwNames /\ nwPolicy[r.name] = NoClient
      BY DEF GoodRequest
    <3>2. [NoClient EXCEPT !.id = IF @ = 0 THEN 0 ELSE 1] = NoClient
      BY DEF NoClient
    <3> HIDE DEF new
    <3> QED  BY <2>1, <3>1, <3>2
  <2>3. \A t \in nwTasks' : t \in nwTasks \/ t = new
    BY <1>1
  <2> HIDE DEF new
  <2> QED  BY <2>1, <2>2, <2>3 DEF NwInv, NwTaskInv, GoodRequest
<1>3. NwCountInv'
  <2>1. /\ nwBounds' = [tasks |-> nwBounds'.tasks, edits |-> nwBounds'.edits,
                        troubles |-> nwBounds'.troubles, ids |-> nwBounds'.ids]
        /\ nwBounds'.ids = nwBounds.ids /\ nwBounds'.tasks \in Nat
        /\ nwBounds'.tasks = nwBounds.tasks - 1
    BY <1>1, NwSpent DEF NwInv
  <2>2. nwBounds.ids \in Nat /\ nwBounds.tasks \in Nat /\ IsFiniteSet(nwTasks)
    BY DEF NwInv, NwCountInv
  <2>3. IsFiniteSet(nwTasks') /\ Cardinality(nwTasks) \in Nat /\ Cardinality(nwTasks') \in Nat
        /\ Cardinality(nwTasks') <= Cardinality(nwTasks) + 1
    <3> DEFINE t == [request |-> r, seen |-> NwOverview]
    <3>1. nwTasks' = nwTasks \cup {t}
      BY <1>1
    <3> HIDE DEF t
    <3>2. IsFiniteSet(nwTasks \cup {t}) /\ Cardinality(nwTasks) \in Nat
          /\ \/ Cardinality(nwTasks \cup {t}) = Cardinality(nwTasks)
             \/ Cardinality(nwTasks \cup {t}) = Cardinality(nwTasks) + 1
      BY <2>2, FS_AddElement, FS_CardinalityType
    <3> QED  BY <3>1, <3>2
  <2> DEFINE due == IF nwScript.request.op = "add" /\ NwNow = "stage" THEN 1 ELSE 0
  <2>4. nwBounds.ids + nwBounds.tasks + Cardinality(nwTasks) + due <= MaxNwTasks + 2
    BY DEF NwInv, NwCountInv
  <2>5. due' = due /\ due \in Nat
    BY <1>1 DEF NwNow
  <2> HIDE DEF due
  <2>6. nwBounds'.ids + nwBounds'.tasks + Cardinality(nwTasks') + due' <= MaxNwTasks + 2
    BY <2>1, <2>2, <2>3, <2>4, <2>5, NetworkAssumption
  <2> QED  BY <2>1, <2>2, <2>3, <2>6 DEF NwCountInv, due
<1>4. NwShape' /\ NwScriptInv' /\ NwNow' = NwNow
  BY <1>1 DEF NwInv, NwShape, NwScriptInv, GoodRequest, NwNow
<1>5. NwPendingInv' /\ NwNameInv'
  BY <1>1, <1>4 DEF NwInv, NwPendingInv, NwNameInv
<1>6. NwServedInv'
  BY <1>1, <1>4 DEF NwInv, NwServedInv, NwShown, Served
<1> QED  BY <1>2, <1>3, <1>4, <1>5, <1>6 DEF NwInv

(* Previews as the pages make them, by what they ask for.                  *)
LEMMA NwAsked ==
    ASSUME NwInv, NEW kind, NEW op, NEW n, NEW rules, NwPreview(NwAsk(kind, op, n, rules)),
           GoodRequest(NwAsk(kind, op, n, rules)), op # "undo",
           op \in {"add", "import"} => nwPeers[n] = "none" /\ nwPolicy[n] = NoClient
    PROVE  NwInv'
<1> DEFINE r == NwAsk(kind, op, n, rules)
<1>1. r.op = op /\ r.name = n
  BY DEF NwAsk
<1> HIDE DEF r
<1>2. NwPreview(r) /\ GoodRequest(r)
  BY DEF r
<1> QED  BY <1>1, <1>2, NwPreviewed

(* The name of a node to be is free when it is previewed.                   *)
LEMMA PreviewNewNodeStep == ASSUME NwInv, PreviewNewNode PROVE NwInv'
<1>1. PICK n \in NwNames :
        /\ KindsOf(n) = {}
        /\ \/ NwPreview(NwAsk("awg", "import", n, {}))
           \/ NwPreview(NwAsk("vless", "add", n, {}))
  BY DEF PreviewNewNode
<1>2. nwPeers[n] = "none" /\ nwPolicy[n] = NoClient
  BY <1>1 DEF KindsOf
<1>3. GoodRequest(NwAsk("awg", "import", n, {})) /\ GoodRequest(NwAsk("vless", "add", n, {}))
  BY DEF GoodRequest, NwAsk
<1> QED  BY <1>1, <1>2, <1>3, NwAsked

(* The previewed request is one of those that the script knows.             *)
LEMMA PreviewNodeChangeStep == ASSUME NwInv, PreviewNodeChange PROVE NwInv'
<1>1. PICK n \in NwNames, kind \in {"awg", "vless"},
           op \in {"enable", "disable", "remove", "compat-enable", "compat-disable",
                   "clean-enable", "clean-disable"} :
        /\ op \in {"compat-enable", "compat-disable"} => kind = "vless"
        /\ NwPreview(NwAsk(kind, op, n, {}))
  BY DEF PreviewNodeChange
<1>2. GoodRequest(NwAsk(kind, op, n, {}))
  BY <1>1 DEF GoodRequest, NwAsk, NodeOps, Compat, CleanOps, PermissionOps
<1>3. op \notin {"undo", "add", "import"}
  OBVIOUS
<1> QED  BY <1>1, <1>2, <1>3, NwAsked

(* The same of a transfer of the management rights.                         *)
LEMMA PreviewTransferStep == ASSUME NwInv, PreviewTransfer PROVE NwInv'
<1>1. PICK n \in NwNames : NwPreview(NwAsk("awg", "set-management", n, {}))
  BY DEF PreviewTransfer
<1>2. GoodRequest(NwAsk("awg", "set-management", n, {}))
  BY DEF GoodRequest, NwAsk
<1> QED  BY <1>1, <1>2, NwAsked

(* The rules of a permission are among those of all targets.                *)
LEMMA PreviewPermissionStep == ASSUME NwInv, PreviewPermission PROVE NwInv'
<1>1. PICK n \in NwNames :
        LET kind == IF nwPeers[n] = "on" THEN "awg" ELSE "vless"
            rules == RulesTo(NwTargets \ {n})
        IN \/ \E r \in rules \ ShownRules(n) : NwPreview(NwAsk(kind, "allow", n, {r}))
           \/ \E r, q \in rules \ ShownRules(n) :
                 r # q /\ NwPreview(NwAsk(kind, "batch", n, {r, q}))
           \/ \E r \in (rules \cap ShownRules(n)) \cup {[to |-> t, ports |-> ""] :
                                                    t \in NwTargets \ {n}} :
                 /\ KeepsManagement(n, {r})
                 /\ NwPreview(NwAsk(kind, "deny", n, {r}))
  BY DEF PreviewPermission
<1> DEFINE kind == IF nwPeers[n] = "on" THEN "awg" ELSE "vless"
           rules == RulesTo(NwTargets \ {n})
<1>2. rules \subseteq NwRules
  BY DEF NwRules, RulesTo, NwTargets
<1>3. kind \in {"awg", "vless"}
  OBVIOUS
<1>4. ASSUME NEW op \in PermissionOps, NEW s, NwPreview(NwAsk(kind, op, n, s)),
             op \in {"allow", "batch"} => s \subseteq NwRules
      PROVE  NwInv'
  <2> HIDE DEF kind, rules
  <2>1. GoodRequest(NwAsk(kind, op, n, s))
    BY <1>3, <1>4 DEF GoodRequest, NwAsk
  <2>2. op \notin {"undo", "add", "import"}
    BY <1>4 DEF PermissionOps
  <2> QED  BY <1>4, <2>1, <2>2, NwAsked
<1>5. CASE \E r \in rules : NwPreview(NwAsk(kind, "allow", n, {r}))
  <2> HIDE DEF kind, rules
  <2>1. PICK r \in rules : NwPreview(NwAsk(kind, "allow", n, {r}))
    BY <1>5
  <2>2. {r} \subseteq NwRules /\ "allow" \in PermissionOps
    BY <1>2, <2>1 DEF PermissionOps
  <2> QED  BY <1>4, <2>1, <2>2
<1>6. CASE \E r, q \in rules : NwPreview(NwAsk(kind, "batch", n, {r, q}))
  <2> HIDE DEF kind, rules
  <2>1. PICK r \in rules, q \in rules : NwPreview(NwAsk(kind, "batch", n, {r, q}))
    BY <1>6
  <2>2. {r, q} \subseteq NwRules /\ "batch" \in PermissionOps
    BY <1>2, <2>1 DEF PermissionOps
  <2> QED  BY <1>4, <2>1, <2>2
<1>7. CASE \E r : NwPreview(NwAsk(kind, "deny", n, {r}))
  <2> HIDE DEF kind, rules
  <2>1. PICK r : NwPreview(NwAsk(kind, "deny", n, {r}))
    BY <1>7
  <2>2. "deny" \in PermissionOps
    BY DEF PermissionOps
  <2> QED  BY <1>4, <2>1, <2>2
<1> QED  BY <1>1, <1>5, <1>6, <1>7, Zenon

(* The same of the tasks that only publish.                                 *)
LEMMA PreviewSubscriptionsStep == ASSUME NwInv, PreviewSubscriptions PROVE NwInv'
<1>1. GoodRequest(NwAsk("", "sync", "", {}))
  BY DEF GoodRequest, NwAsk
<1>2. \A n \in NwNames, op \in {"publish", "unpublish"} :
          GoodRequest(NwAsk("", op, n, {})) /\ op \notin {"undo", "add", "import"}
  BY DEF GoodRequest, NwAsk
<1> QED  BY <1>1, <1>2, NwAsked DEF PreviewSubscriptions
-----------------------------------------------------------------------------
(* What a command starts with.                                             *)
NwStarts(r, now) ==
    /\ r.op = "sync" => now = "publish"
    /\ r.op \in Switching => now = "switch"
    /\ r.kind = "awg" /\ r.op \in {"import", "undo"} => now = "peer"
    /\ r.kind = "vless" /\ r.op \notin Switching => now = "stage"
    /\ now \in {"publish", "switch", "transfer", "peer", "access", "stage"}

(* The script of a request is whole when it begins.                         *)
LEMMA NwFirst ==
    ASSUME NEW r, GoodRequest(r), NEW s, s = NwStepsOf(r)
    PROVE  /\ NwStarts(r, NowOf(s))
           /\ s # <<>>
           /\ \/ r.op = "sync" /\ s = <<"publish">>
              \/ r.op \in Switching /\ s \in SwitchRest
              \/ r.op = "set-management" /\ s = <<"transfer">>
              \/ r.kind = "awg" /\ r.op \in {"import", "undo"} /\ s \in PeerRest
              \/ r.kind = "awg" /\ r.op \in PermissionOps /\ s = <<"access">>
              \/ r.kind = "awg" /\ r.op \in NodeOps /\ s = <<"peer">>
              \/ r.kind = "vless" /\ r.op \in Compat /\ s \in CompatRest
              \/ r.kind = "vless" /\ r.op \in {"add", "undo"} /\ s \in WholeRest
              \/ r.kind = "vless" /\ r.op \in NodeOps \cup PermissionOps /\ s \in ClientRest
<1> USE DEF Switching, Compat, NodeOps, PermissionOps
<1>1. CASE r.op = "sync"
  <2>1. s = <<"publish">>
    BY <1>1, Zenon DEF NwStepsOf
  <2>2. r.kind \notin {"awg", "vless"}
    BY <1>1 DEF GoodRequest, CleanOps
  <2> QED  BY <1>1, <2>1, <2>2, NwTuples DEF NwStarts
<1>2. CASE r.op \in Switching
  <2>1. s = <<"switch", "publish">>
    BY <1>2, Zenon DEF NwStepsOf
  <2> QED  BY <1>2, <2>1, NwTuples DEF NwStarts, SwitchRest
<1>3. CASE r.op = "set-management"
  <2>1. s = <<"transfer">>
    BY <1>3, Zenon DEF NwStepsOf
  <2>2. r.kind # "vless"
    BY <1>3 DEF GoodRequest, CleanOps
  <2> QED  BY <1>3, <2>1, <2>2, NwTuples DEF NwStarts
<1>4. CASE r.kind = "awg" /\ r.op \in {"import", "undo"}
  <2>1. s = <<"peer", "publish">>
    BY <1>4, Zenon DEF NwStepsOf
  <2> QED  BY <1>4, <2>1, NwTuples DEF NwStarts, PeerRest
<1>5. CASE r.kind = "awg" /\ r.op \in PermissionOps
  <2>1. s = <<"access">>
    BY <1>5, Zenon DEF NwStepsOf
  <2> QED  BY <1>5, <2>1, NwTuples DEF NwStarts
<1>6. CASE r.kind = "awg" /\ r.op \in NodeOps
  <2>1. s = <<"peer">>
    BY <1>6, Zenon DEF NwStepsOf
  <2> QED  BY <1>6, <2>1, NwTuples DEF NwStarts
<1>7. CASE r.kind = "vless" /\ r.op \in Compat
  <2>1. s = <<"stage", "commit", "publish">>
    BY <1>7, Zenon DEF NwStepsOf
  <2> QED  BY <1>7, <2>1, NwTuples, NwLongTuples DEF NwStarts, CompatRest
<1>8. CASE r.kind = "vless" /\ r.op \in {"add", "undo"}
  <2>1. s = <<"stage", "activate", "commit", "publish">>
    BY <1>8, Zenon DEF NwStepsOf, AddSteps
  <2> QED  BY <1>8, <2>1, NwTuples, NwLongTuples DEF NwStarts, WholeRest
<1>9. CASE r.kind = "vless" /\ r.op \in NodeOps \cup PermissionOps
  <2>1. s = <<"stage", "activate", "commit">>
    BY <1>9, Zenon DEF NwStepsOf
  <2> QED  BY <1>9, <2>1, NwTuples, NwLongTuples DEF NwStarts, ClientRest
<1> QED
  BY <1>1, <1>2, <1>3, <1>4, <1>5, <1>6, <1>7, <1>8, <1>9 DEF GoodRequest, CleanOps

(* A task whose preview the host still fits, and that the script accepts.  *)
LEMMA NwAccepted ==
    ASSUME NwInv, NEW t \in nwTasks, t.seen = NwOverview, NEW r, r = t.request,
           ScriptAccepts(r)
    PROVE  /\ GoodRequest(r) /\ r.op # "undo"
           /\ r.op \in {"add", "import"} => nwPeers[r.name] = "none" /\ nwPolicy[r.name] = NoClient
           /\ r.kind = "vless" /\ r.op \notin Switching => nwPending = NoPolicy
<1>1. /\ GoodRequest(r) /\ r.op # "undo"
      /\ r.op \in {"add", "import"} => /\ t.seen.peers[r.name] = "none"
                                       /\ t.seen.clients[r.name] = NoClient
  BY DEF NwInv, NwTaskInv
<1>2. t.seen.peers = nwPeers
      /\ t.seen.clients = [n \in NwNames |-> [nwPolicy[n] EXCEPT !.id = IF @ = 0 THEN 0 ELSE 1]]
  BY DEF NwOverview
<1>3. r.kind = "vless" /\ r.op \notin Switching => nwPending = NoPolicy
  BY DEF ScriptAccepts, NoneIsStaged, OnClients
<1>4. ASSUME r.op \in {"add", "import"}
      PROVE  nwPolicy[r.name] = NoClient
  <2>1. r.name \in NwNames
    BY <1>1, <1>4 DEF GoodRequest
  <2>0. PICK c : c = nwPolicy[r.name]
    OBVIOUS
  <2>2. c = [id |-> c.id, on |-> c.on, legacy |-> c.legacy, allow |-> c.allow]
    BY <2>0, <2>1 DEF NwInv, NwShape, NwClients
  <2>3. [c EXCEPT !.id = IF @ = 0 THEN 0 ELSE 1] = NoClient
    BY <1>1, <1>2, <1>4, <2>0, <2>1
  <2>4. /\ (IF c.id = 0 THEN 0 ELSE 1) = 0 /\ c.on = FALSE /\ c.legacy = FALSE /\ c.allow = {}
    BY <2>2, <2>3 DEF NoClient
  <2>5. c.id = 0
    BY <2>4
  <2> QED  BY <2>0, <2>2, <2>4, <2>5 DEF NoClient
<1> QED  BY <1>1, <1>2, <1>3, <1>4

(* What the publication says before and after the first step of a command. *)
LEMMA NwShownAtStart ==
    ASSUME NwInv, NEW r, GoodRequest(r), NEW n \in NwNames,
           r.op \in {"add", "import", "undo"} => nwPeers[r.name] = "none"
                                                 /\ nwPolicy[r.name] = NoClient,
           nwScript'.request = r,
           nwScript'.saved.policy = nwPolicy, nwScript'.saved.switches = nwSwitches,
           UNCHANGED <<nwPeers, nwPolicy, nwSwitches>>
    PROVE  NwShown(n)' = SubscriptionOf(n, nwPeers[n], nwPolicy[n], nwSwitches)
<1>1. CASE r.op \in {"add", "import", "undo"} /\ n = r.name
  <2>1. SubscriptionOf(n, nwPeers[n], nwPolicy[n], nwSwitches) = NoSubscription
    BY <1>1 DEF SubscriptionOf, NoClient
  <2>2. r.op \notin Switching /\ r.op \notin Compat
    BY <1>1 DEF Switching, Compat
  <2> QED  BY <1>1, <2>1, <2>2 DEF NwShown
<1>2. CASE ~(r.op \in {"add", "import", "undo"} /\ n = r.name)
  BY <1>2 DEF NwShown
<1> QED  BY <1>1, <1>2

(* A command begins only if the digest of its preview still fits and the    *)
(* script accepts it: names are still free and nothing is staged.           *)
LEMMA BeginNetworkStep == ASSUME NwInv, BeginNetwork PROVE NwInv'
<1>1. PICK t \in nwTasks :
        /\ nwTasks' = nwTasks \ {t}
        /\ nwScript' = IF t.seen = NwOverview /\ ScriptAccepts(t.request)
                       THEN [request |-> t.request, steps |-> NwStepsOf(t.request),
                             saved |-> [policy |-> nwPolicy, switches |-> nwSwitches]]
                       ELSE NwIdle
  BY DEF BeginNetwork
<1>2. /\ nwScript = NwIdle
      /\ UNCHANGED <<nwPeers, nwAccess, nwManager, nwPolicy, nwPending, nwXray, nwSwitches,
                     nwPublished, nwBounds, nwHistory>>
  BY DEF BeginNetwork
<1>3. NwTaskInv' /\ NwShape'
  BY <1>1, <1>2 DEF NwInv, NwTaskInv, NwShape, GoodRequest
<1>4. NwNow = "" /\ nwScript.request.op = ""
  BY <1>2, NwResting
<1>5. /\ IsFiniteSet(nwTasks') /\ Cardinality(nwTasks') \in Nat /\ Cardinality(nwTasks) \in Nat
      /\ Cardinality(nwTasks') = Cardinality(nwTasks) - 1
  <2>1. IsFiniteSet(nwTasks)
    BY DEF NwInv, NwCountInv
  <2> QED  BY <1>1, <2>1, FS_RemoveElement, FS_CardinalityType
<1>6. /\ nwBounds.tasks \in Nat /\ nwBounds.ids \in Nat
      /\ nwBounds.ids + nwBounds.tasks + Cardinality(nwTasks) <= MaxNwTasks + 2
  <2>1. ~(nwScript.request.op = "add" /\ NwNow = "stage")
    BY <1>4
  <2>2. nwBounds.tasks \in Nat /\ nwBounds.ids \in Nat
    BY DEF NwInv, NwCountInv
  <2> QED  BY <1>5, <2>1, <2>2 DEF NwInv, NwCountInv
<1>7. NwCountInv'
  <2> DEFINE due == IF nwScript.request.op = "add" /\ NwNow = "stage" THEN 1 ELSE 0
  <2>1. due' \in 0..1
    OBVIOUS
  <2> HIDE DEF due
  <2>2. nwBounds'.ids + nwBounds'.tasks + Cardinality(nwTasks') + due' <= MaxNwTasks + 2
    BY <1>2, <1>5, <1>6, <2>1, NetworkAssumption
  <2>3. nwBounds = [tasks |-> nwBounds.tasks, edits |-> nwBounds.edits,
                    troubles |-> nwBounds.troubles, ids |-> nwBounds.ids]
    BY DEF NwInv, NwCountInv
  <2> QED  BY <1>2, <1>5, <1>6, <2>2, <2>3 DEF NwCountInv, due
<1>8. CASE nwScript' = NwIdle
  <2>1. NwScriptInv' /\ NwNow' = "" /\ nwScript' = nwScript
    BY <1>2, <1>8, NwEnded
  <2>2. NwPendingInv' /\ NwNameInv'
    BY <1>2, <1>4, <2>1 DEF NwInv, NwPendingInv, NwNameInv
  <2>3. NwServedInv'
    BY <1>2, <1>4, <2>1 DEF NwInv, NwServedInv, NwShown, Served
  <2> QED  BY <1>3, <1>7, <2>1, <2>2, <2>3 DEF NwInv
<1>9. CASE /\ t.seen = NwOverview /\ ScriptAccepts(t.request)
           /\ nwScript' = [request |-> t.request, steps |-> NwStepsOf(t.request),
                           saved |-> [policy |-> nwPolicy, switches |-> nwSwitches]]
  <2>1. PICK r : r = t.request
    OBVIOUS
  <2>2. /\ GoodRequest(r) /\ r.op # "undo"
        /\ r.op \in {"add", "import"} => nwPeers[r.name] = "none" /\ nwPolicy[r.name] = NoClient
        /\ r.kind = "vless" /\ r.op \notin Switching => nwPending = NoPolicy
    BY <1>9, <2>1, NwAccepted
  <2>3. PICK s : s = NwStepsOf(r)
    OBVIOUS
  <2>4. nwScript' = [request |-> r, steps |-> s,
                     saved |-> [policy |-> nwPolicy, switches |-> nwSwitches]]
    BY <1>9, <2>1, <2>3
  <2>5. /\ nwScript'.request = r /\ nwScript'.steps = s
        /\ nwScript'.saved.policy = nwPolicy /\ nwScript'.saved.switches = nwSwitches
        /\ nwScript' = [request |-> nwScript'.request, steps |-> nwScript'.steps,
                        saved |-> nwScript'.saved]
    BY <2>4
  <2>6. NwStarts(r, NwNow') /\ s # <<>>
    BY <2>2, <2>3, <2>5, NwFirst DEF NwNow
  <2>7. NwScriptInv'
    <3>1. nwScript' # NwIdle
      BY <2>5, <2>6 DEF NwIdle
    <3>2. /\ nwScript'.saved.policy \in [NwNames -> NwClients]
          /\ nwScript'.saved.switches \in [disabled : SUBSET NwNames, clean : SUBSET NwNames]
      BY <2>5 DEF NwInv, NwShape
    <3> QED  BY <2>2, <2>3, <2>5, <2>6, <3>1, <3>2, NwFirst DEF NwScriptInv
  <2>8. NwPendingInv'
    <3>1. NwNow' \notin {"activate", "commit"}
      BY <2>6 DEF NwStarts
    <3>2. NwNow' = "stage" => nwPending = NoPolicy
      <4> HAVE NwNow' = "stage"
      <4>1. r.op \notin Switching
        BY <2>6 DEF NwStarts
      <4>2. r.kind = "vless"
        BY <2>3, <2>5, <2>2, <4>1, NwFirst, NwTuples
           DEF NwNow, SwitchRest, PeerRest, NodeOps, PermissionOps
      <4> QED  BY <2>2, <4>1, <4>2
    <3>3. ~(r.op = "add" /\ NwNow' = "publish")
      <4>1. r.op = "add" => r.kind = "vless" /\ r.op \notin Switching
        BY <2>2 DEF GoodRequest, NodeOps, PermissionOps, Compat, CleanOps, Switching
      <4> QED  BY <2>6, <4>1 DEF NwStarts
    <3> QED  BY <1>2, <2>5, <3>1, <3>2, <3>3 DEF NwPendingInv
  <2>9. NwNameInv'
    <3>1. r.op \in {"add", "import"} => nwPeers[r.name] = "none" /\ nwPolicy[r.name] = NoClient
      BY <2>2
    <3> QED  BY <1>2, <2>2, <2>5, <3>1 DEF NwNameInv
  <2>10. NwServedInv'
    <3>1. \A n \in NwNames : NwShown(n)' = SubscriptionOf(n, nwPeers[n], nwPolicy[n], nwSwitches)
      BY <1>2, <2>2, <2>5, NwShownAtStart
    <3>2. \A n \in NwNames : NwShown(n) = SubscriptionOf(n, nwPeers[n], nwPolicy[n], nwSwitches)
      BY <1>4 DEF NwShown, Switching, Compat
    <3>3. NwNow' # "commit"
      BY <2>6 DEF NwStarts
    <3>4. ~nwHistory.cut => nwXray = Served(nwPolicy)
      BY <1>4 DEF NwInv, NwServedInv
    <3>5. Served(nwPolicy)' = Served(nwPolicy) /\ Served(nwScript.saved.policy)' = Served(nwPolicy)
      BY <1>2, <2>5 DEF Served
    <3> QED  BY <1>2, <2>5, <3>1, <3>2, <3>3, <3>4, <3>5 DEF NwInv, NwServedInv
  <2> QED  BY <1>3, <1>7, <2>7, <2>8, <2>9, <2>10 DEF NwInv
<1> QED  BY <1>1, <1>8, <1>9
-----------------------------------------------------------------------------
(* What is known of a command at one of its steps.                          *)
LEMMA NwAt ==
    ASSUME NwInv, NEW step, NextNw(step)
    PROVE  /\ nwScript.steps # <<>> /\ NwNow = step
           /\ NwCourse(nwScript.request, step, NwFollowing(nwScript.steps))
           /\ GoodRequest(nwScript.request)
           /\ nwScript.saved.policy \in [NwNames -> NwClients]
           /\ nwScript.saved.switches \in [disabled : SUBSET NwNames, clean : SUBSET NwNames]
<1>1. nwScript.steps # <<>> /\ NwNow = step
  BY DEF NextNw, NwNow, NowOf
<1> QED  BY <1>1, NwGoing DEF NwInv, NwScriptInv

(* Nothing that is shown differs from what the host would now publish, if   *)
(* the command has changed nothing, or only a new name that is gone again.  *)
LEMMA NwPlain ==
    ASSUME NEW n, nwScript.request.op \notin Switching, nwScript.request.op \notin Compat,
           nwScript.request.op \in {"add", "import", "undo"} =>
               nwPeers[nwScript.request.name] = "none"
               /\ nwPolicy[nwScript.request.name] = NoClient
    PROVE  NwShown(n) = SubscriptionOf(n, nwPeers[n], nwPolicy[n], nwSwitches)
<1>1. CASE nwScript.request.op \in {"add", "import", "undo"} /\ n = nwScript.request.name
  <2>1. SubscriptionOf(n, nwPeers[n], nwPolicy[n], nwSwitches) = NoSubscription
    BY <1>1 DEF SubscriptionOf, NoClient
  <2> QED  BY <1>1, <2>1 DEF NwShown
<1>2. CASE ~(nwScript.request.op \in {"add", "import", "undo"} /\ n = nwScript.request.name)
  BY <1>2 DEF NwShown
<1> QED  BY <1>1, <1>2

(* Between commands.                                                       *)
NwQuiet ==
    ~nwHistory.cut =>
       /\ nwXray = Served(nwPolicy)
       /\ \A n \in NwNames \ nwHistory.unpublished :
             nwPublished[n] = SubscriptionOf(n, nwPeers[n], nwPolicy[n], nwSwitches)

(* A command that has ended leaves the invariant if the host is quiet.      *)
LEMMA NwEnds ==
    ASSUME NwInv, nwTasks' = nwTasks, nwScript' = NwIdle, NwShape', NwQuiet',
           nwBounds' = nwBounds \/ SpendNw("edits") \/ SpendNw("troubles")
    PROVE  NwInv'
<1>1. NwScriptInv' /\ NwNow' = "" /\ nwScript'.request.op = "" /\ nwScript'.request.kind = ""
  BY NwEnded
<1>2. NwTaskInv'
  BY DEF NwInv, NwTaskInv, GoodRequest
<1>3. NwCountInv'
  BY <1>1, NwCounts DEF NwInv
<1>4. NwPendingInv' /\ NwNameInv'
  BY <1>1 DEF NwPendingInv, NwNameInv
<1>5. NwServedInv'
  BY <1>1 DEF NwServedInv, NwQuiet, NwShown, Switching, Compat
<1> QED  BY <1>1, <1>2, <1>3, <1>4, <1>5 DEF NwInv

(* Tasks do not change during a command.                                    *)
LEMMA NwTaskStays == ASSUME NwTaskInv, nwTasks' = nwTasks PROVE NwTaskInv'
BY DEF NwTaskInv, GoodRequest

(* What is staged is made from the policy itself, because nothing was       *)
(* staged before.                                                           *)
LEMMA StageClientsStep == ASSUME NwInv, StageClients PROVE NwInv'
<1> DEFINE r == nwScript.request
           next == NwFollowing(nwScript.steps)
<1>1. /\ NwNow = "stage" /\ nwScript.steps # <<>> /\ NwCourse(r, "stage", next)
      /\ GoodRequest(r)
  BY NwAt DEF StageClients
<1>2. /\ nwPending' = ClientPolicy(NwCandidate, r, nwBounds.ids)
      /\ nwBounds' = IF r.op = "add" THEN [nwBounds EXCEPT !.ids = @ + 1] ELSE nwBounds
      /\ nwScript' = AfterNw
      /\ UNCHANGED <<nwPeers, nwAccess, nwManager, nwPolicy, nwXray, nwSwitches, nwPublished,
                     nwTasks, nwHistory>>
  BY DEF StageClients
<1>3. r.kind = "vless" /\ r.op \notin Switching /\ next \in {"activate", "commit"}
  BY <1>1 DEF NwCourse, Switching, Compat, NodeOps, PermissionOps
<1>4. NwCandidate = nwPolicy /\ nwPolicy \in [NwNames -> NwClients] /\ nwBounds.ids \in NwIds
  BY <1>1, NwNumber DEF NwInv, NwPendingInv, NwCandidate, NwShape
<1>5. /\ NwScriptInv' /\ NwNow' = next
      /\ nwScript'.request = r /\ nwScript'.saved = nwScript.saved
  BY <1>1, <1>2, <1>3, NwGoesOn DEF NwInv
<1>6. nwPending' \in [NwNames -> NwClients]
  BY <1>1, <1>2, <1>3, <1>4, ClientMade
<1>7. NwShape'
  BY <1>2, <1>6 DEF NwInv, NwShape
<1>8. NwCountInv'
  <2>1. /\ nwBounds.ids \in Nat /\ nwBounds.tasks \in Nat /\ Cardinality(nwTasks) \in Nat
        /\ IsFiniteSet(nwTasks)
        /\ nwBounds = [tasks |-> nwBounds.tasks, edits |-> nwBounds.edits,
                       troubles |-> nwBounds.troubles, ids |-> nwBounds.ids]
    BY FS_CardinalityType DEF NwInv, NwCountInv
  <2>2. NwNow' # "stage"
    BY <1>3, <1>5
  <2>3. CASE r.op = "add"
    <3>1. nwBounds' = [tasks |-> nwBounds.tasks, edits |-> nwBounds.edits,
                       troubles |-> nwBounds.troubles, ids |-> nwBounds.ids + 1]
      BY <1>2, <2>1, <2>3
    <3>2. nwBounds.ids + nwBounds.tasks + Cardinality(nwTasks) + 1 <= MaxNwTasks + 2
      BY <1>1, <2>1, <2>3 DEF NwInv, NwCountInv
    <3>3. nwBounds'.ids + nwBounds'.tasks + Cardinality(nwTasks) + 0 <= MaxNwTasks + 2
      BY <2>1, <3>1, <3>2, NetworkAssumption
    <3>4. nwBounds'.ids \in Nat /\ nwBounds'.tasks \in Nat
      BY <2>1, <3>1
    <3>5. nwBounds' = [tasks |-> nwBounds'.tasks, edits |-> nwBounds'.edits,
                       troubles |-> nwBounds'.troubles, ids |-> nwBounds'.ids]
      BY <3>1
    <3> QED  BY <1>2, <2>1, <2>2, <3>3, <3>4, <3>5 DEF NwCountInv
  <2>4. CASE r.op # "add"
    <3>1. nwBounds' = nwBounds
      BY <1>2, <2>4
    <3> QED  BY <1>2, <2>2, <3>1, NwCounts DEF NwInv
  <2> QED  BY <2>3, <2>4
<1>9. NwPendingInv'
  <2>1. nwPending' = ClientPolicy(nwPolicy', nwScript'.request, nwBounds.ids)
    BY <1>2, <1>4, <1>5
  <2>2. \E id \in NwIds : nwPending' = ClientPolicy(nwPolicy', nwScript'.request, id)
    BY <1>4, <2>1
  <2> QED  BY <1>3, <1>5, <2>2 DEF NwPendingInv
<1>10. NwNameInv'
  BY <1>1, <1>2, <1>3, <1>5 DEF NwInv, NwNameInv
<1>11. NwServedInv'
  <2>1. r.op \in Compat <=> next = "commit"
    BY <1>1 DEF NwCourse, Switching, Compat, NodeOps, PermissionOps
  <2>2. \A n : NwShown(n)' = NwShown(n)
    BY <1>2, <1>5 DEF NwShown
  <2>3. Served(nwPolicy)' = Served(nwPolicy)
        /\ Served(nwScript.saved.policy)' = Served(nwScript.saved.policy)
    BY <1>2, <1>5 DEF Served
  <2> QED  BY <1>1, <1>2, <1>3, <1>5, <2>1, <2>2, <2>3 DEF NwInv, NwServedInv
<1> QED  BY <1>2, <1>5, <1>7, <1>8, <1>9, <1>10, <1>11, NwTaskStays DEF NwInv

(* Xray serves what is staged; if it does not come up, the policy is as it  *)
(* was, and so is Xray again.                                               *)
LEMMA ActivateXrayStep == ASSUME NwInv, ActivateXray PROVE NwInv'
<1> DEFINE r == nwScript.request
           next == NwFollowing(nwScript.steps)
<1>1. /\ NwNow = "activate" /\ nwScript.steps # <<>> /\ NwCourse(r, "activate", next)
      /\ GoodRequest(r)
  BY NwAt DEF ActivateXray
<1>2. /\ r.kind = "vless" /\ r.op \notin Switching /\ r.op \notin Compat /\ next = "commit"
      /\ r.op \in {"add", "undo"} \cup NodeOps \cup PermissionOps
  BY <1>1 DEF NwCourse, Switching, Compat, NodeOps, PermissionOps
<1>3. UNCHANGED <<nwPeers, nwAccess, nwManager, nwPolicy, nwSwitches, nwPublished, nwTasks>>
  BY DEF ActivateXray
<1>4. nwPending \in [NwNames -> NwClients]
  BY <1>1, <1>2, ClientMade DEF NwInv, NwPendingInv, NwShape
<1>5. CASE /\ nwXray' = Served(nwPending) /\ nwScript' = AfterNw
           /\ UNCHANGED <<nwPending, nwBounds, nwHistory>>
  <2>1. /\ NwScriptInv' /\ NwNow' = "commit"
        /\ nwScript'.request = r /\ nwScript'.saved = nwScript.saved
    BY <1>1, <1>2, <1>5, NwGoesOn DEF NwInv
  <2>2. NwShape'
    BY <1>3, <1>4, <1>5, NwServes DEF NwInv, NwShape
  <2>3. NwCountInv'
    BY <1>3, <1>5, <2>1, NwCounts DEF NwInv
  <2>4. NwPendingInv'
    BY <1>1, <1>3, <1>5, <2>1 DEF NwInv, NwPendingInv
  <2>5. NwNameInv'
    BY <1>1, <1>3, <2>1 DEF NwInv, NwNameInv
  <2>6. NwServedInv'
    <3>1. \A n : NwShown(n)' = NwShown(n)
      BY <1>3, <2>1 DEF NwShown
    <3>2. Served(nwPending)' = Served(nwPending)
      BY <1>5 DEF Served
    <3> QED  BY <1>1, <1>2, <1>3, <1>5, <2>1, <3>1, <3>2 DEF NwInv, NwServedInv
  <2> QED  BY <1>3, <2>1, <2>2, <2>3, <2>4, <2>5, <2>6, NwTaskStays DEF NwInv
<1>6. CASE /\ SpendNw("troubles") /\ nwPending' = NoPolicy /\ nwScript' = NwIdle
           /\ nwXray' = nwXray /\ r.op # "undo" /\ nwHistory' = nwHistory
  <2>1. r.op \in {"add", "import", "undo"} =>
            nwPeers[r.name] = "none" /\ nwPolicy[r.name] = NoClient
    BY <1>1, <1>2, <1>6 DEF NwInv, NwNameInv, NodeOps, PermissionOps
  <2>2. \A n : NwShown(n) = SubscriptionOf(n, nwPeers[n], nwPolicy[n], nwSwitches)
    BY <1>2, <2>1, NwPlain
  <2>3. NwQuiet'
    BY <1>1, <1>3, <1>6, <2>2 DEF NwInv, NwServedInv, NwQuiet, Served
  <2>4. NwShape'
    BY <1>3, <1>6 DEF NwInv, NwShape
  <2> QED  BY <1>3, <1>6, <2>3, <2>4, NwEnds
<1>7. CASE /\ SpendNw("troubles") /\ nwPending' = NoPolicy /\ nwScript' = NwIdle
           /\ nwXray' \in {nwXray, [n \in NwNames |-> NoClient]} /\ CutOff
  <2>1. nwHistory' = [cut |-> TRUE, unpublished |-> nwHistory.unpublished]
    BY <1>7 DEF CutOff, NwInv, NwShape
  <2>2. NoClient \in NwClients
    BY NetworkAssumption DEF NoClient, NwClients
  <2>3. nwXray' \in [NwNames -> NwClients]
    BY <1>7, <2>2 DEF NwInv, NwShape
  <2>4. NwShape'
    BY <1>3, <1>7, <2>1, <2>3 DEF NwInv, NwShape
  <2>5. NwQuiet'
    BY <2>1 DEF NwQuiet
  <2> QED  BY <1>3, <1>7, <2>4, <2>5, NwEnds
<1> QED  BY <1>5, <1>6, <1>7 DEF ActivateXray

(* A command that is cut off, or cannot undo, owes nothing more.           *)
LEMMA NwIsCut ==
    ASSUME NwInv, CutOff, nwTasks' = nwTasks, nwScript' = NwIdle,
           UNCHANGED <<nwPeers, nwManager, nwSwitches, nwPublished>>,
           nwPolicy' \in [NwNames -> NwClients], nwXray' \in [NwNames -> NwClients],
           nwPending' = NoPolicy \/ nwPending' = nwPending,
           nwBounds' = nwBounds \/ SpendNw("troubles")
    PROVE  NwInv'
<1>1. nwHistory' = [cut |-> TRUE, unpublished |-> nwHistory.unpublished]
  BY DEF CutOff, NwInv, NwShape
<1>2. NwShape'
  BY <1>1 DEF NwInv, NwShape
<1>3. NwQuiet'
  BY <1>1 DEF NwQuiet
<1> QED  BY <1>2, <1>3, NwEnds

(* Nothing a command has changed is left, and it is over.                  *)
LEMMA NwIsOver ==
    ASSUME NwInv, nwTasks' = nwTasks, nwScript' = NwIdle,
           UNCHANGED <<nwPeers, nwPolicy, nwSwitches, nwPublished, nwHistory>>,
           nwManager' \in NwNames,
           ~nwHistory.cut => nwXray' = Served(nwPolicy),
           nwXray' \in [NwNames -> NwClients],
           nwPending' = NoPolicy \/ nwPending' = nwPending,
           nwBounds' = nwBounds \/ SpendNw("troubles"),
           \A n \in NwNames : NwShown(n) = SubscriptionOf(n, nwPeers[n], nwPolicy[n], nwSwitches)
    PROVE  NwInv'
<1>1. NwShape'
  BY DEF NwInv, NwShape
<1>2. Served(nwPolicy)' = Served(nwPolicy)
  BY DEF Served
<1>3. NwQuiet'
  BY <1>2 DEF NwInv, NwServedInv, NwQuiet
<1> QED  BY <1>1, <1>3, NwEnds

(* The policy becomes what Xray serves already; a name changed without      *)
(* publishing is excused until the next publication.                        *)
LEMMA CommitClientsStep == ASSUME NwInv, CommitClients PROVE NwInv'
<1> DEFINE r == nwScript.request
           next == NwFollowing(nwScript.steps)
<1>1. /\ NwNow = "commit" /\ nwScript.steps # <<>> /\ NwCourse(r, "commit", next)
      /\ GoodRequest(r)
      /\ nwScript.saved.policy \in [NwNames -> NwClients]
  BY NwAt DEF CommitClients
<1>2. /\ r.kind = "vless" /\ r.op \notin Switching
      /\ r.op \in {"add", "undo"} \cup NodeOps \cup PermissionOps \cup Compat
      /\ r.op \in {"add", "undo"} \cup Compat <=> next = "publish"
      /\ next \in {"", "publish"}
  BY <1>1 DEF NwCourse, Switching, Compat, NodeOps, PermissionOps
<1>3. /\ nwPending' = NoPolicy
      /\ UNCHANGED <<nwPeers, nwAccess, nwManager, nwSwitches, nwPublished, nwTasks>>
  BY DEF CommitClients
<1>4. PICK id \in NwIds : nwPending = ClientPolicy(nwPolicy, r, id)
  BY <1>1 DEF NwInv, NwPendingInv
<1>5. /\ nwPending \in [NwNames -> NwClients]
      /\ \A m \in NwNames \ {r.name} : nwPending[m] = nwPolicy[m]
      /\ r.op = "undo" => nwPending[r.name] = NoClient
      /\ r.op \in PermissionOps =>
            /\ nwPending[r.name].id = nwPolicy[r.name].id
            /\ nwPending[r.name].on = nwPolicy[r.name].on
            /\ nwPending[r.name].legacy = nwPolicy[r.name].legacy
      /\ r.op \in Compat => Served(nwPending) = Served(nwPolicy)
  <2>1. nwPolicy \in [NwNames -> NwClients] /\ r.kind = "vless" /\ r.op \notin Switching
    BY <1>2 DEF NwInv, NwShape
  <2>2. PICK q : q = ClientPolicy(nwPolicy, r, id)
    OBVIOUS
  <2>3. PICK ask : ask = r
    OBVIOUS
  <2>4. /\ q \in [NwNames -> NwClients]
        /\ \A m \in NwNames \ {ask.name} : q[m] = nwPolicy[m]
        /\ ask.op = "undo" => q[ask.name] = NoClient
        /\ ask.op \in PermissionOps =>
              /\ q[ask.name].id = nwPolicy[ask.name].id
              /\ q[ask.name].on = nwPolicy[ask.name].on
              /\ q[ask.name].legacy = nwPolicy[ask.name].legacy
        /\ ask.op \in Compat => Served(q) = Served(nwPolicy)
    <3>1. q = ClientPolicy(nwPolicy, ask, id) /\ GoodRequest(ask) /\ ask.kind = "vless"
          /\ ask.op \notin Switching
      BY <1>1, <2>1, <2>2, <2>3
    <3> QED  BY <2>1, <3>1, ClientMade
  <2>5. nwPending = q
    BY <1>4, <2>2
  <2> QED  BY <2>3, <2>4, <2>5
<1>6. ~nwHistory.cut => nwXray = Served(nwPending)
  BY <1>1, <1>5 DEF NwInv, NwServedInv
<1>7. CASE /\ nwPolicy' = nwPending /\ nwScript' = AfterNw
           /\ nwHistory' = [nwHistory EXCEPT !.unpublished = @ \cup Untold(r)]
           /\ UNCHANGED <<nwXray, nwBounds>>
  <2>1. /\ NwScriptInv' /\ NwNow' = next
        /\ next = "" => nwScript' = NwIdle
        /\ next # "" => nwScript'.request = r /\ nwScript'.saved = nwScript.saved
    BY <1>1, <1>7, NwGoesOn DEF NwInv
  <2>2. nwHistory' = [cut |-> nwHistory.cut, unpublished |-> nwHistory.unpublished \cup Untold(r)]
    BY <1>7 DEF NwInv, NwShape
  <2>3. NwShape'
    BY <1>3, <1>5, <1>7, <2>2 DEF NwInv, NwShape
  <2>4. Served(nwPolicy)' = Served(nwPending)
    BY <1>7 DEF Served
  <2>5. CASE next = ""
    <3>1. r.op \notin {"add", "undo", "import"} /\ r.op \notin Compat
      BY <1>2, <2>5 DEF NodeOps, PermissionOps, Compat
    <3>2. \A n : NwShown(n) = SubscriptionOf(n, nwPeers[n], nwPolicy[n], nwSwitches)
      BY <1>2, <3>1, NwPlain
    <3>3. \A n \in NwNames \ nwHistory'.unpublished :
             /\ nwPending[n].id = nwPolicy[n].id /\ nwPending[n].on = nwPolicy[n].on
             /\ nwPending[n].legacy = nwPolicy[n].legacy
      <4>1. CASE r.op \in PermissionOps
        BY <1>5, <4>1
      <4>2. CASE r.op \in NodeOps
        <5>1. Untold(r) = {r.name}
          BY <4>2 DEF Untold
        <5> QED  BY <1>5, <2>2, <5>1
      <4> QED  BY <1>2, <3>1, <4>1, <4>2
    <3>4. \A n \in NwNames \ nwHistory'.unpublished :
             SubscriptionOf(n, nwPeers[n], nwPending[n], nwSwitches)
               = SubscriptionOf(n, nwPeers[n], nwPolicy[n], nwSwitches)
      BY <3>3 DEF SubscriptionOf
    <3>5. NwQuiet'
      BY <1>3, <1>6, <1>7, <2>2, <2>4, <3>2, <3>4 DEF NwInv, NwServedInv, NwQuiet
    <3> QED  BY <1>3, <1>7, <2>1, <2>3, <2>5, <3>5, NwEnds
  <2>6. CASE next = "publish"
    <3>1. nwScript'.request = r /\ nwScript'.saved = nwScript.saved /\ NwNow' = "publish"
      BY <2>1, <2>6
    <3>2. Untold(r) = {}
      BY <1>2, <2>6 DEF Untold, NodeOps, Compat
    <3>3. NwCountInv'
      BY <1>3, <1>7, <3>1, NwCounts DEF NwInv
    <3>4. NwPendingInv'
      BY <1>3, <3>1 DEF NwPendingInv
    <3>5. NwNameInv'
      BY <1>1, <1>2, <1>3, <1>5, <1>7, <3>1 DEF NwInv, NwNameInv
    <3>6. \A n \in NwNames : NwShown(n)' = NwShown(n)
      <4>1. r.op \in Compat \/ r.op \in {"add", "undo"}
        BY <1>2, <2>6
      <4> QED  BY <1>2, <1>3, <1>5, <1>7, <3>1, <4>1 DEF NwShown
    <3>7. Served(nwScript.saved.policy)' = Served(nwScript.saved.policy)
      BY <3>1 DEF Served
    <3>8. NwServedInv'
      BY <1>2, <1>3, <1>6, <1>7, <2>2, <2>4, <3>1, <3>2, <3>6, <3>7 DEF NwInv, NwServedInv
    <3> QED  BY <1>3, <2>1, <2>3, <3>3, <3>4, <3>5, <3>8, NwTaskStays DEF NwInv
  <2> QED  BY <1>2, <2>5, <2>6
<1>8. CASE /\ SpendNw("troubles") /\ nwScript' = NwIdle /\ nwXray' = Served(nwPolicy)
           /\ r.op # "undo" /\ nwHistory' = nwHistory /\ nwPolicy' = nwPolicy
  <2>1. \A n \in NwNames : NwShown(n) = SubscriptionOf(n, nwPeers[n], nwPolicy[n], nwSwitches)
    <3>1. CASE r.op \in Compat
      <4>1. nwScript.saved.policy = nwPolicy
        BY <1>1, <3>1 DEF NwInv, NwServedInv
      <4> QED  BY <1>2, <3>1, <4>1 DEF NwShown
    <3>2. CASE r.op \notin Compat
      <4>1. r.op \in {"add", "import", "undo"} =>
                nwPeers[r.name] = "none" /\ nwPolicy[r.name] = NoClient
        BY <1>1, <1>2, <1>8 DEF NwInv, NwNameInv, NodeOps, PermissionOps, Compat
      <4> QED  BY <1>2, <3>2, <4>1, NwPlain
    <3> QED  BY <3>1, <3>2
  <2>2. nwXray' \in [NwNames -> NwClients]
    BY <1>8, NwServes DEF NwInv, NwShape
  <2> QED  BY <1>3, <1>8, <2>1, <2>2, NwIsOver DEF NwInv, NwShape
<1>9. CASE /\ SpendNw("troubles") /\ nwScript' = NwIdle /\ CutOff /\ nwPolicy' = nwPolicy
           /\ nwXray' \in {Served(nwPolicy), [n \in NwNames |-> NoClient]}
  <2>1. NoClient \in NwClients
    BY NetworkAssumption DEF NoClient, NwClients
  <2>2. nwPolicy \in [NwNames -> NwClients]
    BY DEF NwInv, NwShape
  <2>3. nwXray' \in [NwNames -> NwClients]
    BY <1>9, <2>1, <2>2, NwServes
  <2> QED  BY <1>3, <1>9, <2>2, <2>3, NwIsCut
<1> QED  BY <1>7, <1>8, <1>9 DEF CommitClients, AfterCommitFails

(* The switches change, and the old ones are kept until it is published.    *)
LEMMA SwitchPublicationStep == ASSUME NwInv, SwitchPublication PROVE NwInv'
<1> DEFINE r == nwScript.request
           next == NwFollowing(nwScript.steps)
<1>1. /\ NwNow = "switch" /\ nwScript.steps # <<>> /\ NwCourse(r, "switch", next)
      /\ GoodRequest(r)
  BY NwAt DEF SwitchPublication
<1>2. r.op \in Switching /\ next = "publish" /\ r.op \notin Compat /\ r.name \in NwNames
  BY <1>1 DEF NwCourse, GoodRequest, Switching, Compat
<1>3. /\ nwScript' = AfterNw
      /\ UNCHANGED <<nwPeers, nwAccess, nwManager, nwPolicy, nwPending, nwXray, nwPublished,
                     nwTasks, nwBounds, nwHistory>>
  BY DEF SwitchPublication
<1>4. /\ NwScriptInv' /\ NwNow' = "publish"
      /\ nwScript'.request = r /\ nwScript'.saved = nwScript.saved
  BY <1>1, <1>2, <1>3, NwGoesOn DEF NwInv
<1>5. nwSwitches' \in [disabled : SUBSET NwNames, clean : SUBSET NwNames]
  <2>1. nwSwitches \in [disabled : SUBSET NwNames, clean : SUBSET NwNames]
    BY DEF NwInv, NwShape
  <2>2. \/ nwSwitches' = [nwSwitches EXCEPT !.disabled = @ \ {r.name}]
        \/ nwSwitches' = [nwSwitches EXCEPT !.disabled = @ \cup {r.name}]
        \/ nwSwitches' = [nwSwitches EXCEPT !.clean = @ \cup {r.name}]
        \/ nwSwitches' = [nwSwitches EXCEPT !.clean = @ \ {r.name}]
    BY <1>2, Zenon DEF SwitchPublication, Switching
  <2> QED  BY <1>2, <2>1, <2>2
<1>6. NwShape'
  BY <1>3, <1>5 DEF NwInv, NwShape
<1>7. NwCountInv'
  BY <1>3, <1>4, NwCounts DEF NwInv
<1>8. NwPendingInv'
  BY <1>2, <1>4 DEF NwPendingInv, Switching
<1>9. NwNameInv'
  BY <1>2, <1>4 DEF NwNameInv, Switching
<1>10. NwServedInv'
  <2>1. \A n \in NwNames : NwShown(n)' = NwShown(n)
    BY <1>2, <1>3, <1>4 DEF NwShown
  <2>2. Served(nwPolicy)' = Served(nwPolicy)
    BY <1>3 DEF Served
  <2> QED  BY <1>1, <1>2, <1>3, <1>4, <2>1, <2>2 DEF NwInv, NwServedInv
<1> QED  BY <1>3, <1>4, <1>6, <1>7, <1>8, <1>9, <1>10, NwTaskStays DEF NwInv

(* A publication tells everything there is to tell; one that fails has the  *)
(* switches or the flag put back, or undoes the new node.                   *)
LEMMA RefreshSubscriptionsStep == ASSUME NwInv, RefreshSubscriptions PROVE NwInv'
<1> DEFINE r == nwScript.request
           undo == NwAsk(r.kind, "undo", r.name, r.rules)
<1>1. /\ NwNow = "publish" /\ nwScript.steps # <<>>
      /\ NwCourse(r, "publish", NwFollowing(nwScript.steps)) /\ GoodRequest(r)
      /\ nwScript.saved.policy \in [NwNames -> NwClients]
      /\ nwScript.saved.switches \in [disabled : SUBSET NwNames, clean : SUBSET NwNames]
  BY NwAt DEF RefreshSubscriptions
<1>2. /\ r.op \in {"sync", "add", "import", "undo"} \cup Switching \cup Compat
      /\ r.op \in {"add", "import", "undo"} => r.kind \in {"awg", "vless"} /\ r.name \in NwNames
      /\ r.op = "import" => r.kind = "awg"
      /\ r.op = "add" => r.kind = "vless"
  BY <1>1 DEF NwCourse, GoodRequest, Switching, Compat, NodeOps, PermissionOps
<1>3. /\ nwPending' = NoPolicy \/ nwPending' = nwPending
      /\ r.op # "undo" => nwPending' = nwPending
      /\ UNCHANGED <<nwPeers, nwAccess, nwManager, nwXray, nwTasks>>
  BY DEF RefreshSubscriptions
<1>4. /\ ~nwHistory.cut => nwXray = Served(nwPolicy)
      /\ ~nwHistory.cut /\ r.op \in Compat => nwXray = Served(nwScript.saved.policy)
      /\ ~nwHistory.cut => \A n \in NwNames \ nwHistory.unpublished : nwPublished[n] = NwShown(n)
  BY <1>1 DEF NwInv, NwServedInv
<1>5. CASE /\ nwPublished' = [n \in NwNames |-> Subscription(n)]
           /\ nwHistory' = [nwHistory EXCEPT !.unpublished = {}]
           /\ nwScript' = NwIdle /\ UNCHANGED <<nwPolicy, nwSwitches, nwBounds>>
  <2>1. nwHistory' = [cut |-> nwHistory.cut, unpublished |-> {}]
    BY <1>5 DEF NwInv, NwShape
  <2>2. \A n \in NwNames :
           nwPublished'[n] = SubscriptionOf(n, nwPeers[n], nwPolicy[n], nwSwitches)
    BY <1>5, NwSubscription
  <2>3. \A n \in NwNames : nwPublished'[n].kind \in {"none", "awg", "vless"}
    BY <2>2, NwKinds
  <2>4. NwShape'
    BY <1>3, <1>5, <2>1, <2>3 DEF NwInv, NwShape
  <2>5. Served(nwPolicy)' = Served(nwPolicy)
    BY <1>5 DEF Served
  <2>6. NwQuiet'
    BY <1>3, <1>4, <1>5, <2>1, <2>2, <2>5 DEF NwQuiet
  <2> QED  BY <1>3, <1>5, <2>4, <2>6, NwEnds
<1>6. CASE /\ nwBounds' = nwBounds \/ SpendNw("troubles")
           /\ nwScript' = UndoNode /\ r.op \in {"add", "import"}
           /\ UNCHANGED <<nwPolicy, nwSwitches, nwPublished, nwHistory>>
  <2>1. r.op \notin Compat /\ r.op \notin Switching /\ r.op # "undo"
    BY <1>6 DEF Compat, Switching
  <2>2. PICK ask : ask = undo
    OBVIOUS
  <2>3. /\ ask = [kind |-> ask.kind, op |-> ask.op, name |-> ask.name, rules |-> ask.rules]
        /\ ask.kind = r.kind /\ ask.op = "undo" /\ ask.name = r.name
    BY <2>2 DEF NwAsk
  <2>4. GoodRequest(ask)
    BY <1>2, <1>6, <2>3 DEF GoodRequest
  <2>5. PICK s : s = NwStepsOf(ask)
    OBVIOUS
  <2>6. nwScript' = [request |-> ask, steps |-> s, saved |-> nwScript.saved]
    BY <1>6, <2>2, <2>5 DEF UndoNode
  <2>7. /\ nwScript'.request = ask /\ nwScript'.steps = s /\ nwScript'.saved = nwScript.saved
        /\ nwScript' = [request |-> nwScript'.request, steps |-> nwScript'.steps,
                        saved |-> nwScript'.saved]
    BY <2>6
  <2>8. NwStarts(ask, NwNow') /\ s # <<>>
    BY <2>4, <2>5, <2>7, NwFirst DEF NwNow
  <2>9. /\ r.kind = "awg" => NwNow' = "peer"
        /\ r.kind = "vless" => NwNow' = "stage"
        /\ NwNow' \in {"peer", "stage"}
    BY <1>2, <1>6, <2>3, <2>8 DEF NwStarts, Switching
  <2>10. NwScriptInv'
    <3>1. nwScript' # NwIdle
      BY <2>7, <2>8 DEF NwIdle
    <3> QED  BY <1>1, <2>4, <2>5, <2>7, <2>8, <3>1, NwFirst DEF NwScriptInv
  <2>11. NwShape'
    BY <1>3, <1>6 DEF NwInv, NwShape
  <2>12. NwCountInv'
    <3>1. nwScript'.request.op # "add"
      BY <2>3, <2>7
    <3> QED  BY <1>3, <1>6, <3>1, NwCounts DEF NwInv
  <2>13. NwPendingInv'
    <3>1. r.kind = "vless" => nwPending = NoPolicy
      BY <1>1, <1>2, <1>6 DEF NwInv, NwPendingInv
    <3> QED  BY <1>3, <2>1, <2>3, <2>7, <2>9, <3>1, <1>2, <1>6 DEF NwPendingInv
  <2>14. NwNameInv'
    BY <1>2, <1>3, <1>6, <2>3, <2>7, <2>9 DEF NwInv, NwNameInv
  <2>15. NwServedInv'
    <3>1. "undo" \notin Compat /\ "undo" \notin Switching
      BY DEF Compat, Switching
    <3>2. \A n : NwShown(n)' = NwShown(n)
      BY <1>3, <1>6, <2>1, <2>3, <2>7, <3>1 DEF NwShown
    <3>3. Served(nwPolicy)' = Served(nwPolicy)
      BY <1>6 DEF Served
    <3> QED  BY <1>3, <1>4, <1>6, <2>3, <2>7, <2>9, <3>1, <3>2, <3>3 DEF NwServedInv
  <2> QED  BY <1>3, <2>10, <2>11, <2>12, <2>13, <2>14, <2>15, NwTaskStays DEF NwInv
<1>7. CASE /\ nwBounds' = nwBounds \/ SpendNw("troubles")
           /\ nwScript' = NwIdle /\ r.op \notin {"add", "import"}
           /\ nwPolicy' = IF r.op \in Compat THEN nwScript.saved.policy ELSE nwPolicy
           /\ nwSwitches' = IF r.op \in Switching THEN nwScript.saved.switches ELSE nwSwitches
           /\ UNCHANGED <<nwPublished, nwHistory>>
  <2>1. CASE r.op \in Compat
    <3>1. nwPolicy' = nwScript.saved.policy /\ nwSwitches' = nwSwitches /\ r.op \notin Switching
      BY <1>7, <2>1 DEF Compat, Switching
    <3>2. NwShape'
      BY <1>1, <1>3, <1>7, <3>1 DEF NwInv, NwShape
    <3>3. \A n : NwShown(n) =
                    SubscriptionOf(n, nwPeers[n], nwScript.saved.policy[n], nwSwitches)
      BY <2>1, <3>1 DEF NwShown
    <3>4. Served(nwPolicy)' = Served(nwScript.saved.policy)
      BY <3>1 DEF Served
    <3>5. NwQuiet'
      BY <1>3, <1>4, <1>7, <2>1, <3>1, <3>3, <3>4 DEF NwQuiet
    <3> QED  BY <1>3, <1>7, <3>2, <3>5, NwEnds
  <2>2. CASE r.op \in Switching
    <3>1. nwPolicy' = nwPolicy /\ nwSwitches' = nwScript.saved.switches
      BY <1>7, <2>2 DEF Compat, Switching
    <3>2. NwShape'
      BY <1>1, <1>3, <1>7, <3>1 DEF NwInv, NwShape
    <3>3. \A n : NwShown(n) =
                    SubscriptionOf(n, nwPeers[n], nwPolicy[n], nwScript.saved.switches)
      BY <2>2 DEF NwShown
    <3>4. Served(nwPolicy)' = Served(nwPolicy)
      BY <3>1 DEF Served
    <3>5. NwQuiet'
      BY <1>3, <1>4, <1>7, <3>1, <3>3, <3>4 DEF NwQuiet
    <3> QED  BY <1>3, <1>7, <3>2, <3>5, NwEnds
  <2>3. CASE r.op \notin Compat /\ r.op \notin Switching
    <3>1. nwPolicy' = nwPolicy /\ nwSwitches' = nwSwitches
      BY <1>7, <2>3
    <3>2. r.op \in {"add", "import", "undo"} =>
              nwPeers[r.name] = "none" /\ nwPolicy[r.name] = NoClient
      BY <1>1, <1>2, <1>7 DEF NwInv, NwNameInv
    <3>3. \A n : NwShown(n) = SubscriptionOf(n, nwPeers[n], nwPolicy[n], nwSwitches)
      BY <2>3, <3>2, NwPlain
    <3> QED  BY <1>3, <1>4, <1>7, <3>1, <3>3, NwIsOver DEF NwInv, NwShape
  <2> QED  BY <2>1, <2>2, <2>3
<1> QED  BY <1>5, <1>6, <1>7 DEF RefreshSubscriptions, Compat, Switching

(* The peer of a name changes; a new one has no other life as a client.     *)
LEMMA ChangePeerStep == ASSUME NwInv, ChangePeer PROVE NwInv'
<1> DEFINE r == nwScript.request
           next == NwFollowing(nwScript.steps)
<1>1. /\ NwNow = "peer" /\ nwScript.steps # <<>> /\ NwCourse(r, "peer", next)
      /\ GoodRequest(r)
  BY NwAt DEF ChangePeer
<1>2. /\ r.kind = "awg" /\ r.op \in {"import", "undo"} \cup NodeOps /\ r.name \in NwNames
      /\ r.op \in {"import", "undo"} => next = "publish"
      /\ r.op \in NodeOps => next = ""
      /\ r.op \notin Compat /\ r.op \notin Switching /\ r.op # "add"
  BY <1>1 DEF NwCourse, GoodRequest, Switching, Compat, NodeOps, PermissionOps
<1>3. UNCHANGED <<nwManager, nwPolicy, nwXray, nwSwitches, nwPublished, nwTasks>>
  BY DEF ChangePeer
<1>4. Served(nwPolicy)' = Served(nwPolicy)
  BY <1>3 DEF Served
<1>5. ~nwHistory.cut => /\ nwXray = Served(nwPolicy)
                        /\ \A n \in NwNames \ nwHistory.unpublished : nwPublished[n] = NwShown(n)
  BY <1>1 DEF NwInv, NwServedInv
<1>6. /\ r.op = "import" => nwPeers[r.name] = "none"
      /\ r.op \in {"import", "undo"} => nwPolicy[r.name] = NoClient
  BY <1>1, <1>2 DEF NwInv, NwNameInv
<1>7. CASE /\ nwPeers' = [nwPeers EXCEPT ![r.name] = CASE r.op \in {"remove", "undo"} -> "none"
                                                       [] r.op = "disable" -> "off"
                                                       [] r.op \in {"enable", "import"} -> "on"]
           /\ nwHistory' = [nwHistory EXCEPT !.unpublished = @ \cup Untold(r)]
           /\ nwScript' = AfterNw /\ UNCHANGED <<nwPending, nwBounds>>
  <2>1. \E v \in {"none", "off", "on"} :
           nwPeers' = [nwPeers EXCEPT ![r.name] = v] /\ (r.op = "undo" => v = "none")
    <3>1. CASE r.op \in {"remove", "undo"}
      <4>1. nwPeers' = [nwPeers EXCEPT ![r.name] = "none"]
        BY <1>7, <3>1, Zenon
      <4> QED  BY <4>1
    <3>2. CASE r.op = "disable"
      <4>1. nwPeers' = [nwPeers EXCEPT ![r.name] = "off"]
        BY <1>7, <3>2, Zenon
      <4> QED  BY <3>2, <4>1
    <3>3. CASE r.op \in {"enable", "import"}
      <4>1. nwPeers' = [nwPeers EXCEPT ![r.name] = "on"]
        BY <1>7, <3>3, Zenon
      <4> QED  BY <3>3, <4>1
    <3> QED  BY <1>2, <3>1, <3>2, <3>3 DEF NodeOps
  <2>2. /\ nwPeers' \in [NwNames -> {"none", "on", "off"}]
        /\ \A n \in NwNames \ {r.name} : nwPeers'[n] = nwPeers[n]
        /\ r.op = "undo" => nwPeers'[r.name] = "none"
    <3>1. nwPeers \in [NwNames -> {"none", "on", "off"}]
      BY DEF NwInv, NwShape
    <3>2. PICK v \in {"none", "off", "on"} :
             nwPeers' = [nwPeers EXCEPT ![r.name] = v] /\ (r.op = "undo" => v = "none")
      BY <2>1
    <3>3. PICK m \in NwNames : m = r.name
      BY <1>2
    <3>4. nwPeers' = [nwPeers EXCEPT ![m] = v]
      BY <3>2, <3>3
    <3>5. /\ nwPeers' \in [NwNames -> {"none", "on", "off"}]
          /\ \A n \in NwNames \ {m} : nwPeers'[n] = nwPeers[n]
          /\ nwPeers'[m] = v
      BY <3>1, <3>4
    <3> QED  BY <3>2, <3>3, <3>5
  <2>3. nwHistory' = [cut |-> nwHistory.cut, unpublished |-> nwHistory.unpublished \cup Untold(r)]
    BY <1>7 DEF NwInv, NwShape
  <2>4. NwShape'
    BY <1>3, <1>7, <2>2, <2>3 DEF NwInv, NwShape
  <2>5. /\ NwScriptInv' /\ NwNow' = next
        /\ next = "" => nwScript' = NwIdle
        /\ next # "" => nwScript'.request = r /\ nwScript'.saved = nwScript.saved
    BY <1>1, <1>7, NwGoesOn DEF NwInv
  <2>6. CASE r.op \in NodeOps
    <3>1. Untold(r) = {r.name} /\ r.op \notin {"add", "import", "undo"}
      BY <2>6 DEF Untold, NodeOps
    <3>2. \A n : NwShown(n) = SubscriptionOf(n, nwPeers[n], nwPolicy[n], nwSwitches)
      BY <1>2, <3>1, NwPlain
    <3>3. \A n \in NwNames \ nwHistory'.unpublished : nwPeers'[n] = nwPeers[n]
      BY <2>2, <2>3, <3>1
    <3>4. NwQuiet'
      BY <1>3, <1>4, <1>5, <2>3, <3>2, <3>3 DEF NwQuiet
    <3> QED  BY <1>2, <1>3, <1>7, <2>4, <2>5, <2>6, <3>4, NwEnds
  <2>7. CASE r.op \in {"import", "undo"}
    <3>1. nwScript'.request = r /\ nwScript'.saved = nwScript.saved /\ NwNow' = "publish"
      BY <1>2, <2>5, <2>7
    <3>2. Untold(r) = {}
      BY <2>7 DEF Untold, NodeOps
    <3>3. NwCountInv'
      BY <1>2, <1>3, <1>7, <3>1, NwCounts DEF NwInv
    <3>4. NwPendingInv'
      BY <1>2, <3>1 DEF NwPendingInv
    <3>5. NwNameInv'
      BY <1>2, <1>3, <1>6, <2>2, <2>7, <3>1 DEF NwNameInv
    <3>6. \A n \in NwNames : NwShown(n)' = NwShown(n)
      BY <1>2, <1>3, <2>2, <2>7, <3>1 DEF NwShown
    <3>7. NwServedInv'
      BY <1>2, <1>3, <1>4, <1>5, <2>3, <3>1, <3>2, <3>6 DEF NwServedInv
    <3> QED  BY <1>3, <2>4, <2>5, <3>3, <3>4, <3>5, <3>7, NwTaskStays DEF NwInv
  <2> QED  BY <1>2, <2>6, <2>7
<1>8. CASE /\ SpendNw("troubles") /\ nwScript' = NwIdle /\ r.op = "undo" /\ CutOff
           /\ nwPending' = NoPolicy /\ UNCHANGED nwPeers
  <2>1. nwPolicy' \in [NwNames -> NwClients] /\ nwXray' \in [NwNames -> NwClients]
    BY <1>3 DEF NwInv, NwShape
  <2> QED  BY <1>3, <1>8, <2>1, NwIsCut
<1>9. CASE /\ SpendNw("troubles") /\ nwScript' = NwIdle /\ r.op # "undo"
           /\ UNCHANGED <<nwPending, nwHistory, nwPeers>>
  <2>1. \A n : NwShown(n) = SubscriptionOf(n, nwPeers[n], nwPolicy[n], nwSwitches)
    BY <1>2, <1>6, <1>9, NwPlain
  <2>2. nwXray' \in [NwNames -> NwClients] /\ nwManager' \in NwNames
    BY <1>3 DEF NwInv, NwShape
  <2> QED  BY <1>3, <1>5, <1>9, <2>1, <2>2, NwIsOver
<1> QED  BY <1>7, <1>8, <1>9 DEF ChangePeer

(* Permissions of AWG nodes are not published.                              *)
LEMMA ChangeAccessStep == ASSUME NwInv, ChangeAccess PROVE NwInv'
<1> DEFINE r == nwScript.request
<1>1. /\ NwNow = "access" /\ nwScript.steps # <<>>
      /\ NwCourse(r, "access", NwFollowing(nwScript.steps))
  BY NwAt DEF ChangeAccess
<1>2. r.op \notin Compat /\ r.op \notin Switching /\ r.op \notin {"add", "import", "undo"}
  BY <1>1 DEF NwCourse, Switching, Compat, PermissionOps
<1>3. /\ nwScript' = NwIdle
      /\ UNCHANGED <<nwPeers, nwManager, nwPolicy, nwPending, nwXray, nwSwitches, nwPublished,
                     nwTasks, nwHistory>>
  BY DEF ChangeAccess
<1>4. \A n : NwShown(n) = SubscriptionOf(n, nwPeers[n], nwPolicy[n], nwSwitches)
  BY <1>2, NwPlain
<1>5. /\ ~nwHistory.cut => nwXray = Served(nwPolicy)
      /\ nwXray \in [NwNames -> NwClients] /\ nwManager \in NwNames
  BY <1>1 DEF NwInv, NwServedInv, NwShape
<1>6. /\ ~nwHistory.cut => nwXray' = Served(nwPolicy)
      /\ nwXray' \in [NwNames -> NwClients] /\ nwManager' \in NwNames
      /\ nwPending' = nwPending
      /\ UNCHANGED <<nwPeers, nwPolicy, nwSwitches, nwPublished, nwHistory>>
      /\ nwTasks' = nwTasks /\ nwScript' = NwIdle
  BY <1>3, <1>5
<1>7. nwBounds' = nwBounds \/ SpendNw("troubles")
  BY DEF ChangeAccess
<1> HIDE DEF r
<1> QED  BY <1>4, <1>6, <1>7, NwIsOver

(* Nor are the management rights.                                           *)
LEMMA TransferManagementStep == ASSUME NwInv, TransferManagement PROVE NwInv'
<1> DEFINE r == nwScript.request
<1>1. /\ NwNow = "transfer" /\ nwScript.steps # <<>> /\ GoodRequest(r)
      /\ NwCourse(r, "transfer", NwFollowing(nwScript.steps))
  BY NwAt DEF TransferManagement
<1>2. /\ r.op \notin Compat /\ r.op \notin Switching /\ r.op \notin {"add", "import", "undo"}
      /\ r.name \in NwNames
  BY <1>1 DEF NwCourse, GoodRequest, Switching, Compat, PermissionOps
<1>3. /\ nwScript' = NwIdle /\ nwManager' \in {nwManager, r.name}
      /\ UNCHANGED <<nwPeers, nwPolicy, nwPending, nwXray, nwSwitches, nwPublished,
                     nwTasks, nwBounds, nwHistory>>
  BY DEF TransferManagement
<1>4. \A n : NwShown(n) = SubscriptionOf(n, nwPeers[n], nwPolicy[n], nwSwitches)
  BY <1>2, NwPlain
<1>5. /\ ~nwHistory.cut => nwXray = Served(nwPolicy)
      /\ nwXray \in [NwNames -> NwClients] /\ nwManager \in NwNames
  BY <1>1 DEF NwInv, NwServedInv, NwShape
<1> QED  BY <1>2, <1>3, <1>4, <1>5, NwIsOver

(* A killed command owes nothing more.                                      *)
LEMMA KillNetworkStep == ASSUME NwInv, KillNetwork PROVE NwInv'
<1>1. nwPolicy' \in [NwNames -> NwClients] /\ nwXray' \in [NwNames -> NwClients]
  BY DEF KillNetwork, NwInv, NwShape
<1> QED  BY <1>1, NwIsCut DEF KillNetwork

(* Between commands the invariant says what it says of the host.           *)
LEMMA NwIsQuiet == ASSUME NwInv, nwScript = NwIdle PROVE NwQuiet
<1>1. NwNow = "" /\ nwScript.request.op = ""
  BY NwResting
<1>2. \A n : NwShown(n) = SubscriptionOf(n, nwPeers[n], nwPolicy[n], nwSwitches)
  BY <1>1 DEF NwShown, Switching, Compat
<1> QED  BY <1>1, <1>2 DEF NwInv, NwServedInv, NwQuiet

(* Root's shell stages a policy between commands; nothing else changes.     *)
LEMMA StageByHandStep == ASSUME NwInv, StageByHand PROVE NwInv'
<1>1. /\ nwScript = NwIdle /\ SpendNw("edits")
      /\ UNCHANGED <<nwPeers, nwAccess, nwManager, nwPolicy, nwXray, nwSwitches, nwPublished,
                     nwTasks, nwScript, nwHistory>>
  BY DEF StageByHand
<1>2. PICK r \in ShellRequests : nwPending' = ClientPolicy(NwCandidate, r, MaxNwTasks + 2)
  BY DEF StageByHand
<1>3. PICK op \in {"add", "remove", "disable"}, n \in NwNames : r = NwAsk("vless", op, n, {})
  BY DEF ShellRequests
<1>4. /\ r = [kind |-> r.kind, op |-> r.op, name |-> r.name, rules |-> r.rules]
      /\ r.kind = "vless" /\ r.op = op /\ r.name = n
  BY <1>3 DEF NwAsk
<1>5. GoodRequest(r) /\ r.op \notin Switching
  BY <1>4 DEF GoodRequest, NodeOps, Switching
<1>6. NwCandidate \in [NwNames -> NwClients]
  BY DEF NwInv, NwShape, NwCandidate
<1>7. MaxNwTasks + 2 \in NwIds
  BY NetworkAssumption DEF NwIds
<1>8. nwPending' \in [NwNames -> NwClients]
  BY <1>2, <1>4, <1>5, <1>6, <1>7, ClientMade
<1>9. NwShape'
  BY <1>1, <1>8 DEF NwInv, NwShape
<1>10. NwQuiet'
  BY <1>1, NwIsQuiet DEF NwQuiet, Served
<1> QED  BY <1>1, <1>9, <1>10, NwEnds

(* It applies it to Xray and to the policy at once.                         *)
LEMMA ApplyByHandStep == ASSUME NwInv, ApplyByHand PROVE NwInv'
<1>1. /\ nwScript = NwIdle /\ nwPending # NoPolicy
      /\ nwXray' = Served(nwPending) /\ nwPolicy' = nwPending /\ nwPending' = NoPolicy
      /\ nwHistory' = [nwHistory EXCEPT !.unpublished =
                           @ \cup {n \in NwNames : nwPending[n] # nwPolicy[n]}]
      /\ UNCHANGED <<nwPeers, nwAccess, nwManager, nwSwitches, nwPublished, nwTasks, nwScript,
                     nwBounds>>
  BY DEF ApplyByHand
<1>2. nwPending \in [NwNames -> NwClients]
  BY <1>1 DEF NwInv, NwShape
<1>3. nwHistory' = [cut |-> nwHistory.cut,
                    unpublished |-> nwHistory.unpublished
                                      \cup {n \in NwNames : nwPending[n] # nwPolicy[n]}]
  BY <1>1 DEF NwInv, NwShape
<1>4. NwShape'
  BY <1>1, <1>2, <1>3, NwServes DEF NwInv, NwShape
<1>5. NwQuiet
  BY <1>1, NwIsQuiet
<1>6. Served(nwPolicy)' = Served(nwPending)
  BY <1>1 DEF Served
<1>7. \A n \in NwNames \ nwHistory'.unpublished :
         n \notin nwHistory.unpublished /\ nwPending[n] = nwPolicy[n]
  BY <1>3
<1>8. NwQuiet'
  BY <1>1, <1>3, <1>5, <1>6, <1>7 DEF NwQuiet
<1> QED  BY <1>1, <1>4, <1>8, NwEnds
-----------------------------------------------------------------------------
(* Every step keeps the invariant.                                          *)
LEMMA NetworkStep == ASSUME NwInv, [NetworkNext]_networkVars PROVE NwInv'
<1>1. CASE UNCHANGED networkVars
  <2> USE <1>1 DEF networkVars
  <2>1. NwTaskInv' /\ NwShape' /\ NwCountInv' /\ NwScriptInv'
    BY DEF NwInv, NwTaskInv, NwShape, NwCountInv, NwScriptInv, GoodRequest, NwNow
  <2>2. NwPendingInv' /\ NwNameInv'
    BY DEF NwInv, NwPendingInv, NwNameInv, NwNow
  <2>3. NwServedInv'
    BY DEF NwInv, NwServedInv, NwShown, Served, NwNow
  <2> QED  BY <2>1, <2>2, <2>3 DEF NwInv
<1>2. CASE NetworkNext
  BY <1>2, PreviewNewNodeStep, PreviewNodeChangeStep, PreviewTransferStep,
     PreviewPermissionStep, PreviewSubscriptionsStep, BeginNetworkStep, StageClientsStep,
     ActivateXrayStep, CommitClientsStep, SwitchPublicationStep, RefreshSubscriptionsStep,
     ChangePeerStep, ChangeAccessStep, TransferManagementStep, KillNetworkStep,
     StageByHandStep, ApplyByHandStep DEF NetworkNext
<1> QED  BY <1>1, <1>2

(* The invariant of the network's commands and of root's shell.            *)
LEMMA NetworkInvariant == NetworkSpec => []NwInv
<1> QED  BY NwInitInv, NetworkStep, PTL DEF NetworkSpec

(* What a step makes of the policy during a command.                       *)
LEMMA NwPreviewedOnly ==
    ASSUME NwInv, [NetworkNext]_networkVars, nwScript # NwIdle
    PROVE  nwPolicy' \in {nwPolicy, nwScript.saved.policy}
               \cup {ClientPolicy(nwPolicy, nwScript.request, id) :
                        id \in {i \in 0..MaxNwTasks + 2 : OnClients(nwScript.request)}}
<1>1. nwPolicy' = nwPolicy \/ CommitClients \/ RefreshSubscriptions
  <2>1. ~StageByHand /\ ~ApplyByHand /\ ~BeginNetwork
    BY DEF StageByHand, ApplyByHand, BeginNetwork
  <2>2. \A r : NwPreview(r) => nwPolicy' = nwPolicy
    BY DEF NwPreview
  <2>3. PreviewNewNode \/ PreviewNodeChange \/ PreviewTransfer \/ PreviewPermission
          \/ PreviewSubscriptions => nwPolicy' = nwPolicy
    BY <2>2, Zenon DEF PreviewNewNode, PreviewNodeChange, PreviewTransfer, PreviewPermission,
                PreviewSubscriptions
  <2>4. StageClients \/ ActivateXray \/ SwitchPublication \/ ChangePeer \/ ChangeAccess
          \/ TransferManagement \/ KillNetwork => nwPolicy' = nwPolicy
    BY Zenon DEF StageClients, ActivateXray, SwitchPublication, ChangePeer, ChangeAccess,
                 TransferManagement, KillNetwork
  <2>5. UNCHANGED networkVars => nwPolicy' = nwPolicy
    BY DEF networkVars
  <2> QED  BY <2>1, <2>3, <2>4, <2>5 DEF NetworkNext
<1>2. CASE CommitClients
  <2>1. NwNow = "commit" /\ NwCourse(nwScript.request, "commit", NwFollowing(nwScript.steps))
    BY <1>2, NwAt DEF CommitClients
  <2>2. OnClients(nwScript.request)
    BY <2>1 DEF OnClients, NwCourse, Switching, Compat, NodeOps, PermissionOps
  <2>3. PICK id \in NwIds : nwPending = ClientPolicy(nwPolicy, nwScript.request, id)
    BY <2>1 DEF NwInv, NwPendingInv
  <2>4. nwPolicy' = nwPolicy \/ nwPolicy' = nwPending
    BY <1>2 DEF CommitClients
  <2> QED  BY <2>2, <2>3, <2>4 DEF NwIds
<1>3. CASE RefreshSubscriptions
  BY <1>3 DEF RefreshSubscriptions
<1> QED  BY <1>1, <1>2, <1>3

(* Policies, switches and peers keep their shape, and every client its      *)
(* number within the bound.                                                 *)
THEOREM NetworkTypesCorrect == NetworkSpec => []NwTypeOK
<1>1. NwInv => NwTypeOK
  BY DEF NwInv, NwShape, NwTypeOK
<1> QED  BY <1>1, NetworkInvariant, PTL

(* Between commands Xray serves the clients of the policy, and what is      *)
(* published says what nodes, policy and switches say (except of a name     *)
(* that was changed without publishing): whatever step of a command fails,  *)
(* the command puts back what it had done.                                  *)
THEOREM NodesStayServed == NetworkSpec => []NodesAreServed
<1>1. NwInv => NodesAreServed
  <2> SUFFICES ASSUME NwInv, nwScript = NwIdle, ~nwHistory.cut
               PROVE  /\ nwXray = Served(nwPolicy)
                      /\ \A n \in NwNames \ nwHistory.unpublished :
                            nwPublished[n] = Subscription(n)
    BY DEF NodesAreServed
  <2> QED  BY NwIsQuiet, NwSubscription DEF NwQuiet
<1> QED  BY <1>1, NetworkInvariant, PTL

(* A command of the website commits what its preview said, or nothing, or   *)
(* takes its own change back: never what root's shell has staged.           *)
THEOREM OnlyPreviewed == NetworkSpec => OnlyPreviewedChanges
<1>1. NwInv /\ [NetworkNext]_networkVars =>
        [nwScript # NwIdle =>
            nwPolicy' \in {nwPolicy, nwScript.saved.policy}
                \cup {ClientPolicy(nwPolicy, nwScript.request, id) :
                         id \in {i \in 0..MaxNwTasks + 2 : OnClients(nwScript.request)}}
        ]_networkVars
  BY NwPreviewedOnly
<1> QED  BY <1>1, NetworkInvariant, PTL DEF NetworkSpec, OnlyPreviewedChanges
=============================================================================
