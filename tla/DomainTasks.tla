---------------------------- MODULE DomainTasks ----------------------------
(***************************************************************************)
(* Names of the host: the forced resolutions of nodes and addresses        *)
(* (lib/server_kit_node_domains.py), the stable endpoint and the dynamic   *)
(* DNS record (lib/server_kit_duckdns.py).  Administrators preview changes *)
(* of all three in the control plane; the tasks run one after the other,   *)
(* each after a comparison of the facts its own preview has recorded.      *)
(***************************************************************************)
EXTENDS Integers, Sequences, FiniteSets

CONSTANTS
    DomainNodes, DomainAddresses,
    OutsideAddresses,       \* those that are not in the AWG network
    HostNames,              \* names, each a sequence of labels
    DomainChoices,          \* domains an administrator may enter
    MaxDomains,             \* MAX_DOMAINS_PER_NODE
    MaxDomainTasks,         \* previews: bounds the model
    MaxDomainEdits,         \* nodes that come and go: bounds the model
    MaxDomainTroubles       \* failed steps and kills: bounds the model

ASSUME DomainAssumption ==
    /\ DomainNodes \cap DomainAddresses = {}
    /\ OutsideAddresses \subseteq DomainAddresses
    /\ \A h \in HostNames : h \in Seq(STRING) /\ h # <<>>
    /\ DomainChoices \subseteq [wild : BOOLEAN, name : HostNames]
    /\ {MaxDomains, MaxDomainTasks, MaxDomainEdits, MaxDomainTroubles} \subseteq Nat

VARIABLES
    dnPeers,        \* the nodes AWG knows, enabled or not
    dnConfig,       \* node-domains.json: the domains of every owner
    dnEndpoint,     \* public-endpoint.json
    dnWindow,       \* the rollback window of the endpoint: what it restores
    dynDns,         \* duckdns.json
    dnsTimer,       \* server-kit-duckdns.timer is enabled
    xrayHosts,      \* the domains Xray resolves, by owner
    clashHosts,     \* the domains the published subscriptions resolve
    dnTasks,        \* previewed tasks
    dnScript,       \* the script that holds the change lock
    dnBounds,       \* what is left of the bounds
    dnHistory       \* history: a script was cut off; nodes that left meanwhile

dnVars == <<dnPeers, dnConfig, dnEndpoint, dnWindow, dynDns, dnsTimer,
            xrayHosts, clashHosts, dnTasks, dnScript, dnBounds, dnHistory>>

Owners == DomainNodes \cup DomainAddresses

NoName == <<>>

DomainSets == {D \in SUBSET DomainChoices : Cardinality(D) <= MaxDomains}

NoWindowOpen == [open |-> FALSE]

NoDns == [provider |-> "none", fqdn |-> NoName, enabled |-> FALSE]

DnIdle == [op |-> "none", owner |-> "", step |-> "", old |-> <<>>]

SpendDn(what) ==
    /\ dnBounds[what] > 0
    /\ dnBounds' = [dnBounds EXCEPT ![what] = @ - 1]

(* Xray takes a wildcard for the name itself and everything below it.      *)
IsBelow(host, zone) ==
    /\ Len(zone) <= Len(host)
    /\ SubSeq(host, Len(host) - Len(zone) + 1, Len(host)) = zone

Covers(d, host) == d.wild /\ host # NoName /\ IsBelow(host, d.name)

(* validate_wildcard_conflicts                                             *)
NoConflict(D, hosts) == \A d \in D, h \in hosts : ~Covers(d, h)

AllDomains == UNION {dnConfig[o] : o \in Owners}

TakenBy(others) == UNION {dnConfig[o] : o \in others}

ReservedHosts == {dnEndpoint, dynDns.fqdn}

(* The records that still name a node.                                     *)
RenderedFor(nodes) ==
    [o \in Owners |-> IF o \in DomainNodes \ nodes THEN {} ELSE dnConfig[o]]

Rendered == RenderedFor(dnPeers)

FaultRefreshedHosts ==
    LET kept == UNION {xrayHosts[o] : o \in OutsideAddresses}
    IN [o \in Owners |-> (Rendered[o] \ kept) \cup
           (IF o \in OutsideAddresses THEN xrayHosts[o] ELSE {})]

(* apply_internal_domain_hosts: the rendered names replace what Xray knows  *)
(* of the AWG network; what it knows of other addresses is kept, unless the *)
(* name is rendered anew.                                                   *)
RefreshedHosts ==
    LET served == UNION {Rendered[o] : o \in Owners}
    IN [o \in Owners |-> Rendered[o] \cup
           (IF o \in OutsideAddresses THEN xrayHosts[o] \ served ELSE {})]
-----------------------------------------------------------------------------
(* Previews: the guards of the control plane, and the facts whose digest    *)
(* is compared again before the task runs.                                  *)

DnOverview == [peers |-> dnPeers, config |-> dnConfig]

EndpointFacts == [fqdn |-> dnEndpoint, pending |-> dnWindow.open]

DnsFacts == [provider |-> dynDns.provider, fqdn |-> dynDns.fqdn,
             enabled |-> dynDns.enabled]

DnFacts(op) ==
    CASE op \in {"node", "address"} -> DnOverview
      [] op = "endpoint" -> EndpointFacts
      [] OTHER -> DnsFacts

AddDnTask(op, owner, D, host) ==
    /\ SpendDn("tasks")
    /\ dnTasks' = dnTasks \cup
           {[op |-> op, owner |-> owner, domains |-> D, host |-> host, seen |-> DnFacts(op)]}
    /\ UNCHANGED <<dnPeers, dnConfig, dnEndpoint, dnWindow, dynDns, dnsTimer,
                   xrayHosts, clashHosts, dnScript, dnHistory>>

PreviewNodeDomains ==
    \E n \in dnPeers, D \in DomainSets :
        /\ NoConflict(D, ReservedHosts)
        /\ D \cap TakenBy(Owners \ {n}) = {}
        /\ AddDnTask("node", n, D, NoName)

PreviewAddressDomains ==
    \E a \in DomainAddresses, D \in DomainSets :
        /\ NoConflict(D, ReservedHosts)
        /\ D \cap TakenBy(Owners \ {a}) = {}
        /\ AddDnTask("address", a, D, NoName)

(* Only the domains of nodes are compared with the new endpoint here.      *)
PreviewEndpoint ==
    \E h \in HostNames \cup {NoName} :
        /\ ~dnWindow.open
        /\ NoConflict(TakenBy(dnPeers), {h})
        /\ AddDnTask("endpoint", "", {}, h)

(* DuckDNS updates the name of the endpoint, DNSPod one of its own.        *)
PreviewDns ==
    \/ AddDnTask("duckdns", "", {}, NoName)
    \/ \E h \in HostNames :
          NoConflict(TakenBy(dnPeers), {h}) /\ AddDnTask("dnspod", "", {}, h)
    \/ \E op \in {"disable", "delete"} : AddDnTask(op, "", {}, NoName)
-----------------------------------------------------------------------------
(* Execution.  While a window is open no other task is started.            *)

Runnable(t) ==
    /\ t \in dnTasks
    /\ dnScript = DnIdle
    /\ ~dnWindow.open

StillSeen(t) == t.seen = DnFacts(t.op)

Invalidate ==
    /\ \E t \in dnTasks :
          /\ Runnable(t) /\ ~StillSeen(t)
          /\ dnTasks' = dnTasks \ {t}
    /\ UNCHANGED <<dnPeers, dnConfig, dnEndpoint, dnWindow, dynDns, dnsTimer,
                   xrayHosts, clashHosts, dnScript, dnBounds, dnHistory>>

FaultNodeAllowed(t) ==
    /\ t.owner \in dnPeers
    /\ t.domains \cap TakenBy(Owners \ {t.owner}) = {}

(* set_domains: nothing of the preview is trusted.                         *)
NodeAllowed(t) ==
    /\ t.owner \in dnPeers
    /\ NoConflict(t.domains, ReservedHosts)
    /\ t.domains \cap TakenBy(Owners \ {t.owner}) = {}

(* set_address_domains                                                     *)
AddressAllowed(t) ==
    /\ NoConflict(t.domains, ReservedHosts)
    /\ t.domains \cap TakenBy(Owners \ {t.owner}) = {}

WriteDomains ==
    \E t \in dnTasks :
        /\ Runnable(t) /\ StillSeen(t)
        /\ \/ t.op = "node" /\ NodeAllowed(t)
           \/ t.op = "address" /\ AddressAllowed(t)
        /\ dnTasks' = dnTasks \ {t}
        /\ dnConfig' = [dnConfig EXCEPT ![t.owner] = t.domains]
        /\ dnScript' = [op |-> t.op, owner |-> t.owner, step |-> "xray", old |-> dnConfig]
        /\ UNCHANGED <<dnPeers, dnEndpoint, dnWindow, dynDns, dnsTimer,
                       xrayHosts, clashHosts, dnBounds, dnHistory>>

RefreshXray ==
    /\ dnScript.step \in {"xray", "undo"}
    /\ \/ /\ xrayHosts' = RefreshedHosts
          /\ dnScript' = IF dnScript.step = "undo" THEN DnIdle
                         ELSE [dnScript EXCEPT !.step = "clash"]
          /\ UNCHANGED <<dnConfig, dnBounds, dnHistory>>
       \/ /\ SpendDn("troubles")
          /\ dnConfig' = IF dnScript.step = "undo" THEN dnConfig ELSE dnScript.old
          /\ dnHistory' = [dnHistory EXCEPT !.cut = @ \/ dnScript.step = "undo"]
          /\ dnScript' = DnIdle
          /\ UNCHANGED xrayHosts
    /\ UNCHANGED <<dnPeers, dnEndpoint, dnWindow, dynDns, dnsTimer, clashHosts,
                   dnTasks>>

(* Xray has the new names already, so it is refreshed again.               *)
AfterClashFailed == [dnScript EXCEPT !.step = "undo"]

RefreshClash ==
    /\ dnScript.step = "clash"
    /\ \/ /\ clashHosts' = Rendered
          /\ dnScript' = DnIdle
          /\ dnHistory' = [cut |-> FALSE, left |-> dnHistory.left \ dnPeers]
          /\ UNCHANGED <<dnConfig, dnBounds>>
       \/ /\ SpendDn("troubles")
          /\ dnConfig' = dnScript.old
          /\ dnScript' = AfterClashFailed
          /\ UNCHANGED <<clashHosts, dnHistory>>
    /\ UNCHANGED <<dnPeers, dnEndpoint, dnWindow, dynDns, dnsTimer, xrayHosts,
                   dnTasks>>

(* A new endpoint is published at once, and restored with the subscriptions *)
(* of the time when the window opened.                                      *)
ApplyEndpoint ==
    /\ \E t \in dnTasks :
          /\ Runnable(t) /\ StillSeen(t) /\ t.op = "endpoint"
          /\ NoConflict(AllDomains, {t.host})
          /\ dnTasks' = dnTasks \ {t}
          /\ dnWindow' = [open |-> TRUE, fqdn |-> dnEndpoint, clash |-> clashHosts]
          /\ dnEndpoint' = t.host
          /\ clashHosts' = Rendered
    /\ UNCHANGED <<dnPeers, dnConfig, dynDns, dnsTimer, xrayHosts, dnScript,
                   dnBounds, dnHistory>>

CloseEndpointWindow ==
    /\ dnWindow.open /\ dnScript = DnIdle
    /\ \/ UNCHANGED <<dnEndpoint, clashHosts>>
       \/ dnEndpoint' = dnWindow.fqdn /\ clashHosts' = dnWindow.clash
    /\ dnWindow' = NoWindowOpen
    /\ UNCHANGED <<dnPeers, dnConfig, dynDns, dnsTimer, xrayHosts, dnTasks,
                   dnScript, dnBounds, dnHistory>>
-----------------------------------------------------------------------------
(* Dynamic DNS.  configure asks the provider first, writes the file next,   *)
(* and enables the timer last.                                              *)

DnsTarget(t) == IF t.op = "duckdns" THEN dnEndpoint ELSE t.host

(* A record of someone else, an address that is not public, a bad answer.  *)
ProviderRefuses == SpendDn("troubles")

ConfigureDns ==
    \E t \in dnTasks :
        /\ Runnable(t) /\ StillSeen(t) /\ t.op \in {"duckdns", "dnspod"}
        /\ LET host == DnsTarget(t)
           IN /\ host # NoName
              /\ NoConflict(AllDomains, {host})
              /\ \/ /\ dynDns' = [provider |-> t.op, fqdn |-> host, enabled |-> TRUE]
                    /\ dnScript' = [DnIdle EXCEPT !.op = "configure", !.step = "timer"]
                    /\ UNCHANGED dnBounds
                 \/ /\ ProviderRefuses
                    /\ UNCHANGED <<dynDns, dnScript>>
        /\ dnTasks' = dnTasks \ {t}
        /\ UNCHANGED <<dnPeers, dnConfig, dnEndpoint, dnWindow, dnsTimer, xrayHosts,
                       clashHosts, dnHistory>>

EnableTimer ==
    /\ dnScript.step = "timer" /\ dnScript.op = "configure"
    /\ \/ dnsTimer' = TRUE /\ UNCHANGED <<dynDns, dnBounds>>
       \/ /\ SpendDn("troubles")
          /\ dynDns' = [dynDns EXCEPT !.enabled = FALSE]
          /\ UNCHANGED dnsTimer
    /\ dnScript' = DnIdle
    /\ UNCHANGED <<dnPeers, dnConfig, dnEndpoint, dnWindow, xrayHosts, clashHosts,
                   dnTasks, dnHistory>>

FaultDeletedDns == [dynDns EXCEPT !.provider = "none", !.enabled = FALSE]

DeletedDns == NoDns

(* set_disabled and delete: the file first, the timer next.                *)
StopDns ==
    \E t \in dnTasks :
        /\ Runnable(t) /\ StillSeen(t) /\ t.op \in {"disable", "delete"}
        /\ dynDns' = IF t.op = "delete" THEN DeletedDns ELSE [dynDns EXCEPT !.enabled = FALSE]
        /\ dnScript' = [DnIdle EXCEPT !.op = t.op, !.step = "timer"]
        /\ dnTasks' = dnTasks \ {t}
        /\ UNCHANGED <<dnPeers, dnConfig, dnEndpoint, dnWindow, dnsTimer,
                       xrayHosts, clashHosts, dnBounds, dnHistory>>

DisableTimer ==
    /\ dnScript.step = "timer" /\ dnScript.op \in {"disable", "delete"}
    /\ \/ dnsTimer' = FALSE /\ UNCHANGED dnBounds
       \/ SpendDn("troubles") /\ UNCHANGED dnsTimer
    /\ dnScript' = DnIdle
    /\ UNCHANGED <<dnPeers, dnConfig, dnEndpoint, dnWindow, dynDns, xrayHosts,
                   clashHosts, dnTasks, dnHistory>>

-----------------------------------------------------------------------------
(* Nodes come and go.  A removal drops the records of the node (delete_node *)
(* with its errors ignored; the timer of the enrolments never calls it) and *)
(* refreshes nothing; a new node is published.                              *)

RemoveDomainNode ==
    /\ dnScript = DnIdle
    /\ SpendDn("edits")
    /\ \E n \in dnPeers :
          /\ dnPeers' = dnPeers \ {n}
          /\ \/ dnConfig' = [dnConfig EXCEPT ![n] = {}]
             \/ UNCHANGED dnConfig
          /\ dnHistory' = [dnHistory EXCEPT !.left = @ \cup {n}]
    /\ UNCHANGED <<dnEndpoint, dnWindow, dynDns, dnsTimer, xrayHosts, clashHosts,
                   dnTasks, dnScript>>

JoinDomainNode ==
    /\ dnScript = DnIdle /\ ~dnWindow.open
    /\ SpendDn("edits")
    /\ \E n \in DomainNodes \ dnPeers : dnPeers' = dnPeers \cup {n}
    /\ clashHosts' = RenderedFor(dnPeers')
    /\ UNCHANGED <<dnConfig, dnEndpoint, dnWindow, dynDns, dnsTimer, xrayHosts,
                   dnTasks, dnScript, dnHistory>>

KillDomainScript ==
    /\ dnScript # DnIdle
    /\ SpendDn("troubles")
    /\ dnScript' = DnIdle
    /\ dnHistory' = [dnHistory EXCEPT !.cut = TRUE]
    /\ UNCHANGED <<dnPeers, dnConfig, dnEndpoint, dnWindow, dynDns, dnsTimer,
                   xrayHosts, clashHosts, dnTasks>>
-----------------------------------------------------------------------------
DnInit ==
    /\ dnPeers = DomainNodes
    /\ dnConfig = [o \in Owners |-> {}]
    /\ dnEndpoint = NoName /\ dnWindow = NoWindowOpen
    /\ dynDns = NoDns /\ dnsTimer = FALSE
    /\ xrayHosts = dnConfig /\ clashHosts = dnConfig
    /\ dnTasks = {} /\ dnScript = DnIdle
    /\ dnBounds = [tasks |-> MaxDomainTasks, edits |-> MaxDomainEdits, troubles |-> MaxDomainTroubles]
    /\ dnHistory = [cut |-> FALSE, left |-> {}]

DnNext ==
    \/ PreviewNodeDomains \/ PreviewAddressDomains \/ PreviewEndpoint \/ PreviewDns
    \/ Invalidate \/ WriteDomains \/ RefreshXray \/ RefreshClash
    \/ ApplyEndpoint \/ CloseEndpointWindow
    \/ ConfigureDns \/ EnableTimer \/ StopDns \/ DisableTimer
    \/ RemoveDomainNode \/ JoinDomainNode \/ KillDomainScript

DnSpec == DnInit /\ [][DnNext]_dnVars
-----------------------------------------------------------------------------
DnTypeOK ==
    /\ dnPeers \subseteq DomainNodes
    /\ dnConfig \in [Owners -> DomainSets]
    /\ dnEndpoint \in HostNames \cup {NoName}
    /\ Cardinality(dnTasks) <= MaxDomainTasks
    /\ dnScript # DnIdle => ~dnWindow.open
    /\ dynDns.provider = "none" <=> dynDns.fqdn = NoName

(* No wildcard that is saved captures the endpoint or the dynamic name of   *)
(* the host, although tasks that were previewed side by side compare        *)
(* different facts and an endpoint may be rolled back.                      *)
HostKeepsItsNames == NoConflict(AllDomains, ReservedHosts)

(* The subscriptions resolve what is saved and nothing else.  Xray resolves *)
(* what is saved to its owner alone, and nothing else in the AWG network:   *)
(* also after a step has failed and was undone, and when a name moves to    *)
(* another owner; unless a script was cut off or could not undo.            *)
ViewsFollowConfig ==
    dnScript = DnIdle /\ ~dnHistory.cut
    => \A o \in (dnPeers \cup DomainAddresses) \ dnHistory.left :
           /\ clashHosts[o] = dnConfig[o]
           /\ dnConfig[o] \subseteq xrayHosts[o]
           /\ o \notin OutsideAddresses => xrayHosts[o] = dnConfig[o]
           /\ \A p \in Owners \ {o} : dnConfig[o] \cap xrayHosts[p] = {}

(* The forced resolutions of Xray are replaced: a name that was taken from  *)
(* its owner is no longer resolved to it.                                   *)
XrayForgets ==
    dnScript = DnIdle /\ ~dnHistory.cut
    => \A o \in (dnPeers \cup DomainAddresses) \ dnHistory.left : xrayHosts[o] \subseteq dnConfig[o]
=============================================================================
