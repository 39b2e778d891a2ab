----------------------------- MODULE ProxyTasks -----------------------------
(***************************************************************************)
(* Airports and exits (lib/server_kit_proxy_resources.py): tasks that      *)
(* change the catalogue, the relay that gives every node an identity for   *)
(* each of its exits, and the subscriptions that name those identities.    *)
(* The script writes the catalogue, refreshes the relay, publishes, and    *)
(* takes the catalogue back when one of the refreshes fails.               *)
(***************************************************************************)
EXTENDS Integers, Sequences, FiniteSets

CONSTANTS
    ProxyNodes,         \* nodes that subscribe
    ExitNames,          \* names of exits: [token, spelling]
    AirportNames,
    MaxExits,           \* MAX_EXITS
    MaxAirports,        \* MAX_AIRPORTS
    MaxProxyTasks,      \* previews: bounds the model
    MaxProxyTroubles    \* failed refreshes and kills: bounds the model

ASSUME ProxyAssumption ==
    /\ {MaxProxyTasks, MaxProxyTroubles} \subseteq Nat
    /\ MaxAirports \in Nat \ {0} /\ MaxExits \in Nat \ {0, 1}  \* ProxyInit has one and two

VARIABLES
    pxConfig,       \* clash-inputs.json
    pxRelay,        \* the identities Xray serves: exits of every node
    pxPublished,    \* the identities in the published subscriptions
    pxTasks,        \* previewed tasks
    pxScript,       \* the update that holds the change lock
    pxBounds,       \* what is left of the bounds
    pxCut           \* history: an update was killed, or could not undo

proxyVars == <<pxConfig, pxRelay, pxPublished, pxTasks, pxScript, pxBounds, pxCut>>

NoExit == 0

NoProxyScript == [step |-> "none", old |-> <<>>]

SpendPx(what) ==
    /\ pxBounds[what] > 0
    /\ pxBounds' = [pxBounds EXCEPT ![what] = @ - 1]

ExitIds(c) == {c.exits[i].id : i \in DOMAIN c.exits}

NewId(c) == CHOOSE id \in 1..(Len(c.exits) + 1) : id \notin ExitIds(c)

NewAirportId(c) ==
    CHOOSE id \in 1..(Cardinality(c.airports) + 1) : \A a \in c.airports : a.id # id

(* What a node is given: its own choice, an empty one included, or else    *)
(* the default exit.                                                       *)
SelectedExits(c, n) ==
    IF n \in DOMAIN c.selections THEN c.selections[n] ELSE {c.default} \ {NoExit}

(* Unique names, and unique names once published; a name without any       *)
(* letter or digit of ASCII cannot be published.                           *)
PublishToken(name) == name.token

NamesAreUnique(c) ==
    /\ \A i, j \in DOMAIN c.exits :
          i # j => PublishToken(c.exits[i].name) # PublishToken(c.exits[j].name)
    /\ \A i \in DOMAIN c.exits : PublishToken(c.exits[i].name) # "none"
    /\ \A a, b \in c.airports : a.name = b.name => a = b

ConsistentConfig(c) ==
    /\ NamesAreUnique(c)
    /\ Cardinality(c.airports) <= MaxAirports /\ Len(c.exits) <= MaxExits
    /\ IF c.exits = <<>> THEN c.default = NoExit ELSE c.default \in ExitIds(c)
    /\ \A n \in DOMAIN c.selections : c.selections[n] \subseteq ExitIds(c)
-----------------------------------------------------------------------------
(* Operations on the catalogue; each applies or is refused.                *)

PxRequest == [op |-> "", id |-> NoExit, name |-> [token |-> "", spelling |-> ""],
              on |-> FALSE, kind |-> "kept", first |-> FALSE, node |-> "", ids |-> {}]

AirportRequest(op, id, token, on) ==
    [PxRequest EXCEPT !.op = op, !.id = id, !.name.token = token, !.on = on]

ExitRequest(op, id, name, kind, first) ==
    [PxRequest EXCEPT !.op = op, !.id = id, !.name = name, !.kind = kind, !.first = first]

SelectionRequest(n, ids) == [PxRequest EXCEPT !.op = "node_exits_set", !.node = n, !.ids = ids]

AirportRequests ==
    {AirportRequest("airport_add", NoExit, n, on) : n \in AirportNames, on \in BOOLEAN}
    \cup {AirportRequest("airport_update", a.id, n, PxRequest.on) :
             a \in pxConfig.airports, n \in AirportNames}
    \cup {AirportRequest("airport_delete", a.id, PxRequest.name.token, PxRequest.on) :
             a \in pxConfig.airports}

(* An update without a proxy keeps the stored one.                          *)
ExitRequests ==
    {ExitRequest("exit_add", NoExit, n, k, f) :
        n \in ExitNames, k \in {"socks5", "other"}, f \in BOOLEAN}
    \cup {ExitRequest("exit_update", id, n, k, PxRequest.first) :
             id \in ExitIds(pxConfig), n \in ExitNames, k \in {"kept", "socks5"}}
    \cup {ExitRequest(op, id, PxRequest.name, "kept", PxRequest.first) :
             op \in {"exit_delete", "exit_set_default"}, id \in ExitIds(pxConfig)}

SelectionRequests ==
    {SelectionRequest(n, S) : n \in ProxyNodes, S \in SUBSET ExitIds(pxConfig)}

ApplyAirport(c, r) ==
    [c EXCEPT !.airports =
        CASE r.op = "airport_add" ->
                 @ \cup {[id |-> NewAirportId(c), name |-> r.name.token, on |-> r.on]}
          [] r.op = "airport_update" ->
                 {IF a.id = r.id THEN [a EXCEPT !.name = r.name.token, !.on = r.on] ELSE a :
                     a \in @}
          [] OTHER -> {a \in @ : a.id # r.id}]

AddExit(c, r) ==
    LET new == [id |-> NewId(c), name |-> r.name, kind |-> r.kind]
    IN [c EXCEPT !.exits = Append(@, new),
                 !.default = IF c.exits = <<>> \/ r.first THEN new.id ELSE @]

ChangedExit(e, r) ==
    [e EXCEPT !.name = r.name, !.kind = IF r.kind = "kept" THEN @ ELSE r.kind]

ChangedExits(exits, r) ==
    [i \in DOMAIN exits |-> IF exits[i].id # r.id THEN exits[i] ELSE ChangedExit(exits[i], r)]

UpdateExit(c, r) ==
    [c EXCEPT !.exits = ChangedExits(@, r), !.default = IF r.first THEN r.id ELSE @]

FaultWithoutExit(c, id) ==
    LET left == [n \in DOMAIN c.selections |-> c.selections[n] \ {id}]
    IN [n \in {m \in DOMAIN left : left[m] # {}} |-> left[n]]

(* A choice that becomes empty stays a choice: the node leaves by the VPS. *)
WithoutExit(c, id) == [n \in DOMAIN c.selections |-> c.selections[n] \ {id}]

(* All exits but the one at k; ids are unique, so an id has one position.  *)
WithoutPosition(exits, k) == SubSeq(exits, 1, k - 1) \o SubSeq(exits, k + 1, Len(exits))

DeleteExit(c, r) ==
    LET left == WithoutPosition(c.exits, CHOOSE i \in DOMAIN c.exits : c.exits[i].id = r.id)
    IN [c EXCEPT !.exits = left,
                 !.default = IF @ = r.id THEN left[1].id ELSE @,
                 !.selections = WithoutExit(c, r.id)]

SetNodeExits(c, r) ==
    [c EXCEPT !.selections =
        [n \in DOMAIN @ \cup {r.node} |-> IF n = r.node THEN r.ids ELSE @[n]]]

KnownTarget(c, r) ==
    CASE r.op \in {"airport_update", "airport_delete"} -> \E a \in c.airports : a.id = r.id
      [] r.op \in {"exit_update", "exit_delete", "exit_set_default"} -> r.id \in ExitIds(c)
      [] r.op = "node_exits_set" -> r.ids \subseteq ExitIds(c)
      [] OTHER -> TRUE

Operable(c, r) ==
    /\ KnownTarget(c, r)
    /\ r.op = "exit_delete" => Len(c.exits) > 1

Applied(c, r) ==
    CASE r.op \in {"airport_add", "airport_update", "airport_delete"} -> ApplyAirport(c, r)
      [] r.op = "exit_add" -> AddExit(c, r)
      [] r.op = "exit_update" -> UpdateExit(c, r)
      [] r.op = "exit_set_default" -> [c EXCEPT !.default = r.id]
      [] r.op = "exit_delete" -> DeleteExit(c, r)
      [] OTHER -> SetNodeExits(c, r)
-----------------------------------------------------------------------------
(* The revision of the overview is a digest of the whole catalogue.        *)
ProxyOverview == pxConfig

NameIsFree(c, r) ==
    CASE r.op \in {"airport_add", "airport_update"} ->
             \A a \in c.airports : a.name = r.name.token => a.id = r.id
      [] r.op \in {"exit_add", "exit_update"} ->
             \A i \in DOMAIN c.exits : c.exits[i].name = r.name => c.exits[i].id = r.id
      [] OTHER -> TRUE

PreviewProxy ==
    /\ SpendPx("tasks")
    /\ \E r \in AirportRequests \cup ExitRequests \cup SelectionRequests :
          /\ KnownTarget(pxConfig, r) /\ NameIsFree(pxConfig, r)
          /\ pxTasks' = pxTasks \cup {[request |-> r, seen |-> ProxyOverview]}
    /\ UNCHANGED <<pxConfig, pxRelay, pxPublished, pxScript, pxCut>>

InvalidateProxy ==
    /\ pxScript = NoProxyScript
    /\ \E t \in pxTasks : t.seen # ProxyOverview /\ pxTasks' = pxTasks \ {t}
    /\ UNCHANGED <<pxConfig, pxRelay, pxPublished, pxScript, pxBounds, pxCut>>

(* update: the changed catalogue is written aside, checked as a whole and   *)
(* put in place; an invalid one changes nothing.                           *)
WriteProxy ==
    /\ pxScript = NoProxyScript
    /\ \E t \in pxTasks :
          /\ t.seen = ProxyOverview
          /\ pxTasks' = pxTasks \ {t}
          /\ LET new == Applied(pxConfig, t.request)
             IN IF Operable(pxConfig, t.request) /\ ConsistentConfig(new)
                THEN /\ pxConfig' = new
                     /\ pxScript' = [step |-> "relay", old |-> pxConfig]
                ELSE UNCHANGED <<pxConfig, pxScript>>
    /\ UNCHANGED <<pxRelay, pxPublished, pxBounds, pxCut>>

(* Every exit of the catalogue has to be one the relay can use.            *)
RelayAccepts(c) ==
    /\ c.default \in ExitIds(c)
    /\ \A i \in DOMAIN c.exits : c.exits[i].kind = "socks5"

Identities(c) == [n \in ProxyNodes |-> SelectedExits(c, n)]

FaultAfterPublishFailed == NoProxyScript

(* Publishing failed, but the relay has the new identities already.        *)
AfterPublishFailed == [pxScript EXCEPT !.step = "undo"]

RefreshRelay ==
    /\ pxScript.step = "relay"
    /\ \/ /\ RelayAccepts(pxConfig)
          /\ pxRelay' = Identities(pxConfig)
          /\ pxScript' = [pxScript EXCEPT !.step = "publish"]
          /\ UNCHANGED <<pxConfig, pxBounds>>
       \/ /\ IF RelayAccepts(pxConfig) THEN SpendPx("troubles") ELSE UNCHANGED pxBounds
          /\ pxConfig' = pxScript.old
          /\ pxScript' = [pxScript EXCEPT !.step = "undo"]
          /\ UNCHANGED pxRelay
    /\ UNCHANGED <<pxPublished, pxTasks, pxCut>>

(* A failure of the second refresh is ignored.                             *)
UndoRelay ==
    /\ pxScript.step = "undo"
    /\ pxScript' = NoProxyScript
    /\ \/ pxRelay' = Identities(pxConfig) /\ UNCHANGED <<pxBounds, pxCut>>
       \/ SpendPx("troubles") /\ pxCut' = TRUE /\ UNCHANGED pxRelay
    /\ UNCHANGED <<pxConfig, pxPublished, pxTasks>>

PublishProxy ==
    /\ pxScript.step = "publish"
    /\ \/ /\ pxPublished' = Identities(pxConfig)
          /\ pxScript' = NoProxyScript
          /\ pxCut' = FALSE
          /\ UNCHANGED <<pxConfig, pxBounds>>
       \/ /\ SpendPx("troubles")
          /\ pxConfig' = pxScript.old
          /\ pxScript' = AfterPublishFailed
          /\ UNCHANGED <<pxPublished, pxCut>>
    /\ UNCHANGED <<pxRelay, pxTasks>>

(* The agent kills an update that takes more than 240 seconds.             *)
KillProxy ==
    /\ pxScript # NoProxyScript
    /\ SpendPx("troubles")
    /\ pxScript' = NoProxyScript
    /\ pxCut' = TRUE
    /\ UNCHANGED <<pxConfig, pxRelay, pxPublished, pxTasks>>
-----------------------------------------------------------------------------
ProxyInit ==
    /\ \E first, second \in ExitNames, own \in {{}} \cup {{n} : n \in ProxyNodes} :
          /\ first.token \notin {second.token, "none"} /\ second.token # "none"
          /\ pxConfig = [airports |-> {[id |-> 1, name |-> a, on |-> TRUE] : a \in
                                           {CHOOSE x \in AirportNames : TRUE}},
                         exits |-> <<[id |-> 1, name |-> first, kind |-> "socks5"],
                                     [id |-> 2, name |-> second, kind |-> "socks5"]>>,
                         default |-> 1, selections |-> [n \in own |-> {2}]]
    /\ pxRelay = Identities(pxConfig) /\ pxPublished = Identities(pxConfig)
    /\ pxTasks = {} /\ pxScript = NoProxyScript /\ pxCut = FALSE
    /\ pxBounds = [tasks |-> MaxProxyTasks, troubles |-> MaxProxyTroubles]

ProxyNext ==
    \/ PreviewProxy \/ InvalidateProxy \/ WriteProxy
    \/ RefreshRelay \/ UndoRelay \/ PublishProxy \/ KillProxy

ProxySpec == ProxyInit /\ [][ProxyNext]_proxyVars
-----------------------------------------------------------------------------
ProxyTypeOK ==
    /\ ConsistentConfig(pxConfig)
    /\ pxRelay \in [ProxyNodes -> SUBSET (1..MaxExits)]
    /\ pxPublished \in [ProxyNodes -> SUBSET (1..MaxExits)]

(* The relay serves every identity that a published subscription names,     *)
(* and both name what the catalogue says, after whatever has failed and was *)
(* taken back; unless an update was killed or could not be taken back.      *)
PublishedExitsAreServed ==
    pxScript = NoProxyScript /\ ~pxCut
    => pxRelay = Identities(pxConfig) /\ pxPublished = pxRelay

(* A node that has chosen its exits never leaves by one it did not choose:  *)
(* neither a deleted exit nor another default moves it to one.               *)
ChoiceIsKept ==
    [][\A n \in ProxyNodes :
          /\ n \in DOMAIN pxConfig.selections
          /\ \A t \in pxTasks \ pxTasks' : t.request.node # n
          /\ pxScript = NoProxyScript
          => SelectedExits(pxConfig', n) \subseteq SelectedExits(pxConfig, n)]_proxyVars
=============================================================================
