-------------------------- MODULE HostChangeProofs --------------------------
(***************************************************************************)
(* Theorems about the parts of the host that tasks of the website change,  *)
(* for any names, tasks, failed steps and kills.                           *)
(*                                                                         *)
(* Domains: no domain that is saved captures a name of the host, and both  *)
(* views resolve what is saved.  What has to be clear includes the endpoint*)
(* that an open window would bring back, and the catalogue that the undo of*)
(* a change would (DnNamesInv).  Xray keeps names it once knew for addresses*)
(* outside the AWG network, so that a saved name has one owner there rests *)
(* on the catalogue being exclusive (Exclusive).                           *)
(*                                                                         *)
(* Proxy exits: relay and publication name what the catalogue says, because*)
(* the relay is refreshed first and an update that fails puts the old      *)
(* catalogue back (PxServedInv); a node that has chosen its exits never    *)
(* leaves by another.                                                      *)
(*                                                                         *)
(* Services: a link of the configuration, and one the server gives out, has*)
(* its file, because a file comes before its link and goes after it        *)
(* (SvFilesInv).  This needs root's menu to keep out of the tasks' way.    *)
(*                                                                         *)
(* Each part's types need an invariant of their own: how often something   *)
(* was previewed or rotated (DnCountInv, SvCountInv), that ids of exits are*)
(* unique so that one below the limit is free (GoodCatalogue), and that no *)
(* service is ever taken off the host (SvTypeInv).                         *)
(*                                                                         *)
(* At the end, all six parts in the host that TLC's run composes of them.  *)
(***************************************************************************)
EXTENDS MCHostChanges, PortProofs, RootLoginProofs, NetworkProofs

-----------------------------------------------------------------------------
(* Domains                                                                 *)

(* No domain of a catalogue captures a name of the host.                   *)
ClearOf(C, h) == \A o \in Owners : \A d \in C[o] : ~Covers(d, h)

(* The nodes whose names follow the catalogue, and all addresses.          *)
FollowedOwners == (dnPeers \cup DomainAddresses) \ dnHistory.left

(* A view resolves what a catalogue holds.                                 *)
Shows(view, C) == \A o \in FollowedOwners : view[o] = C[o]

(* Xray resolves what a catalogue holds to its owner alone, and inside the  *)
(* AWG network nothing else.                                                *)
Resolves(S, view, C) ==
    \A o \in S : /\ C[o] \subseteq view[o]
                 /\ o \notin OutsideAddresses => view[o] = C[o]
                 /\ \A p \in Owners \ {o} : C[o] \cap view[p] = {}

(* No name of a catalogue has two owners.                                  *)
Exclusive(C) == \A o, p \in Owners : o # p => C[o] \cap C[p] = {}

DnTaskInv ==
    \A t \in dnTasks :
        /\ t.op \in {"node", "address"} => t.owner \in Owners /\ t.domains \in DomainSets
        /\ t.host \in HostNames \cup {NoName}

DnShape ==
    /\ dnPeers \subseteq DomainNodes
    /\ dnConfig \in [Owners -> DomainSets]
    /\ dnEndpoint \in HostNames \cup {NoName}
    /\ dnWindow.open \in BOOLEAN
    /\ dnWindow.open => dnWindow.fqdn \in HostNames \cup {NoName}
    /\ dynDns = [provider |-> dynDns.provider, fqdn |-> dynDns.fqdn, enabled |-> dynDns.enabled]
    /\ dynDns.fqdn \in HostNames \cup {NoName}
    /\ dnScript = [op |-> dnScript.op, owner |-> dnScript.owner, step |-> dnScript.step,
                   old |-> dnScript.old]
    /\ dnScript.step \in {"", "timer", "xray", "clash", "undo"}
    /\ dnScript = DnIdle <=> dnScript.step = ""
    /\ dnScript.step # "" => ~dnWindow.open
    /\ dnScript.step \in {"xray", "clash", "undo"} => dnScript.old \in [Owners -> DomainSets]
    /\ dnHistory = [cut |-> dnHistory.cut, left |-> dnHistory.left]
    /\ dnHistory.cut \in BOOLEAN
    /\ DomainNodes \ dnPeers \subseteq dnHistory.left

DnNamesInv ==
    /\ ClearOf(dnConfig, dnEndpoint) /\ ClearOf(dnConfig, dynDns.fqdn)
    /\ dnWindow.open => ClearOf(dnConfig, dnWindow.fqdn)
    /\ dnScript.step \in {"xray", "clash"} =>
          ClearOf(dnScript.old, dnEndpoint) /\ ClearOf(dnScript.old, dynDns.fqdn)
    /\ Exclusive(dnConfig)
    /\ dnScript.step \in {"xray", "clash"} => Exclusive(dnScript.old)

DnViewsInv ==
    /\ ~dnHistory.cut /\ dnScript.step \in {"", "timer"} =>
          Resolves(FollowedOwners, xrayHosts, dnConfig) /\ Shows(clashHosts, dnConfig)
    /\ ~dnHistory.cut /\ dnWindow.open => Shows(dnWindow.clash, dnConfig)
    /\ ~dnHistory.cut /\ dnScript.step = "xray" =>
          Resolves(FollowedOwners, xrayHosts, dnScript.old) /\ Shows(clashHosts, dnScript.old)
    /\ ~dnHistory.cut /\ dnScript.step = "clash" => Shows(clashHosts, dnScript.old)
    /\ dnScript.step = "clash" =>
          Resolves(dnPeers \cup DomainAddresses, xrayHosts, dnConfig)
    /\ ~dnHistory.cut /\ dnScript.step = "undo" => Shows(clashHosts, dnConfig)

DnInv == DnTaskInv /\ DnShape /\ DnNamesInv /\ DnViewsInv
-----------------------------------------------------------------------------
(* No wildcard captures the empty name.                                    *)
LEMMA NoNameIsClear == \A C : ClearOf(C, NoName)
BY DEF ClearOf, Covers

(* What the code compares is the union of the records.                     *)
LEMMA AllAreClear ==
    ASSUME NEW h
    PROVE  NoConflict(AllDomains, {h}) <=> ClearOf(dnConfig, h)
<1>1. \A d : d \in AllDomains <=> \E o \in Owners : d \in dnConfig[o]
  BY DEF AllDomains
<1> QED  BY <1>1 DEF NoConflict, ClearOf, Exclusive

(* The property is what the invariant says of the two names.               *)
LEMMA NamesAreClear ==
    HostKeepsItsNames <=> ClearOf(dnConfig, dnEndpoint) /\ ClearOf(dnConfig, dynDns.fqdn)
<1>1. \A d : d \in AllDomains <=> \E o \in Owners : d \in dnConfig[o]
  BY DEF AllDomains
<1> QED  BY <1>1 DEF NoConflict, ClearOf, Exclusive, HostKeepsItsNames, ReservedHosts

(* No domains at all are a record.                                         *)
LEMMA NoDomains == {} \in DomainSets
<1>1. Cardinality({}) = 0
  BY FS_EmptySet
<1> QED  BY <1>1, DomainAssumption DEF DomainSets

(* At the start the host's names are clear, and both views show the         *)
(* catalogue.                                                               *)
LEMMA DnInitInv == DnInit => DnInv
<1> SUFFICES ASSUME DnInit PROVE DnInv
  OBVIOUS
<1> USE DEF DnInit
<1>1. DnTaskInv
  BY DEF DnTaskInv
<1>2. DnShape
  BY NoDomains DEF DnShape, DnIdle, NoWindowOpen, NoDns
<1>3. DnNamesInv
  <2>1. \A h : ClearOf(dnConfig, h)
    BY DEF ClearOf
  <2>2. Exclusive(dnConfig)
    BY DEF Exclusive
  <2> QED  BY <2>1, <2>2 DEF DnNamesInv, DnIdle, NoWindowOpen
<1>4. DnViewsInv
  BY DEF DnViewsInv, Shows, Resolves, DnIdle, NoWindowOpen
<1> QED  BY <1>1, <1>2, <1>3, <1>4 DEF DnInv

(* The invariants of the names and the views read nothing of the tasks.     *)
LEMMA NamesAndViewsKept ==
    ASSUME DnNamesInv, DnViewsInv,
           UNCHANGED <<dnPeers, dnConfig, dnEndpoint, dnWindow, dynDns, xrayHosts, clashHosts,
                       dnScript, dnHistory>>
    PROVE  DnNamesInv' /\ DnViewsInv'
<1>1. DnNamesInv'
  BY DEF DnNamesInv, ClearOf, Exclusive
<1>2. FollowedOwners' = FollowedOwners
  BY DEF FollowedOwners
<1>3. DnViewsInv'
  BY <1>2 DEF DnViewsInv, Shows, Resolves
<1> QED  BY <1>1, <1>3

(* Previews add a task and touch nothing else.                             *)
LEMMA DnPreviewStep ==
    ASSUME DnInv,
           PreviewNodeDomains \/ PreviewAddressDomains \/ PreviewEndpoint \/ PreviewDns
    PROVE  DnInv'
<1>1. \E op, owner, D, host :
         /\ AddDnTask(op, owner, D, host)
         /\ op \in {"node", "address"} => owner \in Owners /\ D \in DomainSets
         /\ host \in HostNames \cup {NoName}
  <2>0. dnPeers \subseteq Owners /\ DomainAddresses \subseteq Owners
    BY DEF DnInv, DnShape, Owners
  <2>1. CASE PreviewNodeDomains
    <3>1. PICK n \in dnPeers, D \in DomainSets : AddDnTask("node", n, D, NoName)
      BY <2>1 DEF PreviewNodeDomains
    <3> QED  BY <3>1, <2>0
  <2>2. CASE PreviewAddressDomains
    <3>1. PICK n \in DomainAddresses, D \in DomainSets : AddDnTask("address", n, D, NoName)
      BY <2>2 DEF PreviewAddressDomains
    <3> QED  BY <3>1, <2>0
  <2>3. CASE PreviewEndpoint
    <3>1. PICK h \in HostNames \cup {NoName} : AddDnTask("endpoint", "", {}, h)
      BY <2>3 DEF PreviewEndpoint
    <3> QED  BY <3>1
  <2>4. CASE PreviewDns
    <3>1. \E op \in {"duckdns", "dnspod", "disable", "delete"}, h \in HostNames \cup {NoName} :
              AddDnTask(op, "", {}, h)
      BY <2>4 DEF PreviewDns
    <3>2. PICK op \in {"duckdns", "dnspod", "disable", "delete"}, h \in HostNames \cup {NoName} :
              AddDnTask(op, "", {}, h)
      BY <3>1
    <3>3. op \notin {"node", "address"}
      OBVIOUS
    <3> QED  BY <3>2, <3>3
  <2> QED  BY <2>1, <2>2, <2>3, <2>4
<1>2. PICK op, owner, D, host :
         /\ AddDnTask(op, owner, D, host)
         /\ op \in {"node", "address"} => owner \in Owners /\ D \in DomainSets
         /\ host \in HostNames \cup {NoName}
  BY <1>1
<1>3. UNCHANGED <<dnPeers, dnConfig, dnEndpoint, dnWindow, dynDns, xrayHosts, clashHosts,
                  dnScript, dnHistory>>
  BY <1>2 DEF AddDnTask
<1>4. DnTaskInv'
  BY <1>2 DEF AddDnTask, DnInv, DnTaskInv, Owners
<1>5. DnShape'
  BY <1>3 DEF DnInv, DnShape
<1>6. DnNamesInv' /\ DnViewsInv'
  BY <1>3, NamesAndViewsKept DEF DnInv
<1> QED  BY <1>4, <1>5, <1>6 DEF DnInv

(* A task that ends leaves the others.                                     *)
LEMMA TasksLeft ==
    ASSUME DnTaskInv, dnTasks' \subseteq dnTasks
    PROVE  DnTaskInv'
BY DEF DnTaskInv, Owners

(* Only the tasks change: those whose facts no longer hold are gone.        *)
LEMMA InvalidateStep == ASSUME DnInv, Invalidate PROVE DnInv'
<1>1. DnTaskInv'
  BY TasksLeft DEF DnInv, Invalidate
<1>2. DnShape'
  BY DEF Invalidate, DnInv, DnShape
<1>3. DnNamesInv' /\ DnViewsInv'
  BY NamesAndViewsKept DEF DnInv, Invalidate
<1> QED  BY <1>1, <1>2, <1>3 DEF DnInv

(* What is written was compared with the names in force now; what was there *)
(* is kept for the undo, and it was clear too.                              *)
LEMMA WriteDomainsStep == ASSUME DnInv, WriteDomains PROVE DnInv'
<1>1. PICK t \in dnTasks :
        /\ dnScript = DnIdle /\ ~dnWindow.open
        /\ t.owner \in Owners /\ t.domains \in DomainSets
        /\ NoConflict(t.domains, ReservedHosts)
        /\ t.domains \cap TakenBy(Owners \ {t.owner}) = {}
        /\ t.op \in {"node", "address"}
        /\ dnTasks' = dnTasks \ {t}
        /\ dnConfig' = [dnConfig EXCEPT ![t.owner] = t.domains]
        /\ dnScript' = [op |-> t.op, owner |-> t.owner, step |-> "xray", old |-> dnConfig]
  BY DEF WriteDomains, Runnable, NodeAllowed, AddressAllowed, DnInv, DnTaskInv
<1>2. UNCHANGED <<dnPeers, dnEndpoint, dnWindow, dynDns, xrayHosts, clashHosts, dnHistory>>
  BY DEF WriteDomains
<1>3. dnConfig \in [Owners -> DomainSets] /\ dnScript.step = ""
  BY <1>1 DEF DnInv, DnShape
<1>4. /\ dnScript'.op = t.op /\ dnScript'.owner = t.owner /\ dnScript'.step = "xray"
      /\ dnScript'.old = dnConfig
  BY <1>1
<1>5. \A d \in t.domains : ~Covers(d, dnEndpoint) /\ ~Covers(d, dynDns.fqdn)
  BY <1>1 DEF NoConflict, ReservedHosts
<1>6. dnConfig' \in [Owners -> DomainSets]
  BY <1>1, <1>3
<1>7. dnScript' # DnIdle
  <2>1. DnIdle.step = ""
    BY DEF DnIdle
  <2> QED  BY <1>4, <2>1
<1>8. DnTaskInv'
  BY <1>1, TasksLeft DEF DnInv
<1>9. DnShape'
  BY <1>1, <1>2, <1>3, <1>4, <1>6, <1>7 DEF DnInv, DnShape
<1>13. Exclusive(dnConfig')
  <2>1. \A o \in Owners \ {t.owner} : t.domains \cap dnConfig[o] = {}
    BY <1>1 DEF TakenBy
  <2> QED  BY <1>1, <1>3, <2>1 DEF DnInv, DnNamesInv, Exclusive
<1>10. ClearOf(dnConfig, dnEndpoint)' /\ ClearOf(dnConfig, dynDns.fqdn)'
  BY <1>1, <1>2, <1>3, <1>5 DEF DnInv, DnNamesInv, ClearOf, Exclusive, Owners
<1>11. DnNamesInv'
  <2>1. ClearOf(dnScript.old, dnEndpoint)' /\ ClearOf(dnScript.old, dynDns.fqdn)'
    BY <1>2, <1>4 DEF DnInv, DnNamesInv, ClearOf, Exclusive, Owners
  <2>2. Exclusive(dnConfig)' /\ Exclusive(dnScript.old)'
    BY <1>4, <1>13 DEF DnInv, DnNamesInv, Exclusive
  <2> QED  BY <1>1, <1>2, <1>10, <2>1, <2>2 DEF DnNamesInv
<1>12. DnViewsInv'
  BY <1>1, <1>2, <1>3, <1>4 DEF DnInv, DnViewsInv, Shows, Resolves, FollowedOwners
<1> QED  BY <1>8, <1>9, <1>11, <1>12 DEF DnInv

(* What is rendered is the record of every node that is there and of every *)
(* address.                                                                *)
LEMMA RenderedShows ==
    ASSUME dnPeers \subseteq DomainNodes
    PROVE  \A o \in dnPeers \cup DomainAddresses : Rendered[o] = dnConfig[o]
BY DomainAssumption DEF Rendered, RenderedFor, Owners

(* A refresh resolves every record, each name to its owner alone: what is    *)
(* kept of other addresses is none of the rendered names.                   *)
LEMMA RefreshedResolves ==
    ASSUME dnPeers \subseteq DomainNodes, Exclusive(dnConfig)
    PROVE  Resolves(dnPeers \cup DomainAddresses, RefreshedHosts, dnConfig)
<1> SUFFICES ASSUME NEW o \in dnPeers \cup DomainAddresses
             PROVE  /\ dnConfig[o] \subseteq RefreshedHosts[o]
                    /\ o \notin OutsideAddresses => RefreshedHosts[o] = dnConfig[o]
                    /\ \A p \in Owners \ {o} : dnConfig[o] \cap RefreshedHosts[p] = {}
  BY DEF Resolves
<1> DEFINE served == UNION {Rendered[q] : q \in Owners}
           kept(q) == IF q \in OutsideAddresses THEN xrayHosts[q] \ served ELSE {}
<1>1. o \in Owners /\ Rendered[o] = dnConfig[o] /\ dnConfig[o] \subseteq served
  BY RenderedShows, DomainAssumption DEF Owners
<1>2. \A q \in Owners : RefreshedHosts[q] = Rendered[q] \cup kept(q)
  BY DEF RefreshedHosts
<1>3. \A p \in Owners : Rendered[p] \subseteq dnConfig[p] /\ kept(p) \cap served = {}
  BY DEF Rendered, RenderedFor
<1>4. \A p \in Owners \ {o} : dnConfig[o] \cap dnConfig[p] = {}
  BY <1>1 DEF Exclusive
<1>5. o \notin OutsideAddresses => kept(o) = {}
  OBVIOUS
<1> HIDE DEF served, kept
<1> QED  BY <1>1, <1>2, <1>3, <1>4, <1>5

(* Xray shows the new catalogue, or the old one comes back with its names   *)
(* still clear; Clash has seen neither.                                     *)
LEMMA RefreshXrayStep == ASSUME DnInv, RefreshXray PROVE DnInv'
<1>0. /\ dnScript.step \in {"xray", "undo"} /\ dnScript # DnIdle /\ ~dnWindow.open
      /\ dnHistory = [cut |-> dnHistory.cut, left |-> dnHistory.left]
      /\ dnHistory.cut \in BOOLEAN
  BY DEF RefreshXray, DnInv, DnShape
<1>1. UNCHANGED <<dnPeers, dnEndpoint, dnWindow, dynDns, clashHosts, dnTasks>>
  BY DEF RefreshXray
<1>2. DnTaskInv'
  BY <1>1 DEF DnInv, DnTaskInv, Owners
<1>3. DnIdle.step = ""
  BY DEF DnIdle
<1>4. CASE xrayHosts' = RefreshedHosts /\ UNCHANGED <<dnConfig, dnHistory>>
           /\ dnScript.step = "undo" /\ dnScript' = DnIdle
  <2>1. DnShape'
    BY <1>1, <1>3, <1>4 DEF DnInv, DnShape, DnIdle
  <2>2. DnNamesInv'
    BY <1>1, <1>3, <1>4 DEF DnInv, DnNamesInv, ClearOf, Exclusive
  <2>3. Resolves(FollowedOwners, xrayHosts, dnConfig)'
    BY <1>1, <1>4, RefreshedResolves DEF Resolves, FollowedOwners, DnInv, DnShape, DnNamesInv
  <2>4. DnViewsInv'
    BY <1>0, <1>1, <1>3, <1>4, <2>3 DEF DnInv, DnViewsInv, Shows, Resolves, FollowedOwners
  <2> QED  BY <1>2, <2>1, <2>2, <2>4 DEF DnInv
<1>5. CASE xrayHosts' = RefreshedHosts /\ UNCHANGED <<dnConfig, dnHistory>>
           /\ dnScript.step = "xray" /\ dnScript' = [dnScript EXCEPT !.step = "clash"]
  <2>0. /\ dnScript'.step = "clash" /\ dnScript'.old = dnScript.old
        /\ dnScript'.op = dnScript.op /\ dnScript'.owner = dnScript.owner
        /\ dnScript' = [op |-> dnScript.op, owner |-> dnScript.owner, step |-> "clash",
                        old |-> dnScript.old]
    BY <1>5 DEF DnInv, DnShape
  <2>1. DnShape'
    BY <1>1, <1>3, <1>5, <2>0 DEF DnInv, DnShape
  <2>2. DnNamesInv'
    BY <1>1, <1>0, <1>5, <2>0 DEF DnInv, DnNamesInv, ClearOf, Exclusive
  <2>3. Resolves(dnPeers \cup DomainAddresses, xrayHosts, dnConfig)'
    BY <1>1, <1>5, RefreshedResolves DEF DnInv, DnShape, DnNamesInv, Resolves
  <2>4. DnViewsInv'
    BY <1>0, <1>1, <1>5, <2>0, <2>3 DEF DnInv, DnViewsInv, Shows, Resolves, FollowedOwners
  <2> QED  BY <1>2, <2>1, <2>2, <2>4 DEF DnInv
<1>6. CASE /\ dnScript.step = "xray" /\ dnConfig' = dnScript.old
           /\ dnHistory'.cut = dnHistory.cut /\ dnHistory'.left = dnHistory.left
           /\ dnHistory' = dnHistory
           /\ dnScript' = DnIdle /\ UNCHANGED xrayHosts
  <2>1. DnShape'
    BY <1>1, <1>3, <1>6 DEF DnInv, DnShape, DnIdle
  <2>2. DnNamesInv'
    BY <1>0, <1>1, <1>3, <1>6 DEF DnInv, DnNamesInv, ClearOf, Exclusive
  <2>4. DnViewsInv'
    BY <1>0, <1>1, <1>3, <1>6 DEF DnInv, DnViewsInv, Shows, Resolves, FollowedOwners
  <2> QED  BY <1>2, <2>1, <2>2, <2>4 DEF DnInv
<1>7. CASE /\ dnScript.step = "undo" /\ dnConfig' = dnConfig
           /\ dnHistory'.cut /\ dnHistory'.left = dnHistory.left
           /\ dnHistory' = [cut |-> TRUE, left |-> dnHistory.left]
           /\ dnScript' = DnIdle /\ UNCHANGED xrayHosts
  <2>1. DnShape'
    BY <1>1, <1>3, <1>7 DEF DnInv, DnShape, DnIdle
  <2>2. DnNamesInv'
    BY <1>0, <1>1, <1>3, <1>7 DEF DnInv, DnNamesInv, ClearOf, Exclusive
  <2>4. DnViewsInv'
    BY <1>0, <1>1, <1>3, <1>7 DEF DnInv, DnViewsInv, Shows, Resolves, FollowedOwners
  <2> QED  BY <1>2, <2>1, <2>2, <2>4 DEF DnInv
<1> QED
  <2>1. \/ xrayHosts' = RefreshedHosts /\ UNCHANGED <<dnConfig, dnHistory>>
           /\ dnScript' = IF dnScript.step = "undo" THEN DnIdle
                          ELSE [dnScript EXCEPT !.step = "clash"]
        \/ /\ dnConfig' = IF dnScript.step = "undo" THEN dnConfig ELSE dnScript.old
           /\ dnHistory' = [dnHistory EXCEPT !.cut = @ \/ dnScript.step = "undo"]
           /\ dnScript' = DnIdle /\ UNCHANGED xrayHosts
    BY DEF RefreshXray
  <2>2. CASE xrayHosts' = RefreshedHosts /\ UNCHANGED <<dnConfig, dnHistory>>
           /\ dnScript' = IF dnScript.step = "undo" THEN DnIdle
                          ELSE [dnScript EXCEPT !.step = "clash"]
    BY <2>2, <1>0, <1>4, <1>5
  <2>3. CASE /\ dnConfig' = IF dnScript.step = "undo" THEN dnConfig ELSE dnScript.old
             /\ dnHistory' = [dnHistory EXCEPT !.cut = @ \/ dnScript.step = "undo"]
             /\ dnScript' = DnIdle /\ UNCHANGED xrayHosts
    <3>1. dnHistory' = [cut |-> dnHistory.cut \/ dnScript.step = "undo",
                        left |-> dnHistory.left]
      BY <1>0, <2>3
    <3>2. CASE dnScript.step = "undo"
      BY <3>1, <3>2, <2>3, <1>7
    <3>3. CASE dnScript.step = "xray"
      <4>1. dnHistory' = dnHistory
        BY <3>1, <3>3, <1>0
      <4> QED  BY <4>1, <3>3, <2>3, <1>6
    <3> QED  BY <1>0, <3>2, <3>3
  <2> QED  BY <2>1, <2>2, <2>3

(* Clash follows Xray; if it fails the old catalogue is back and Clash      *)
(* shows it.                                                                *)
LEMMA RefreshClashStep == ASSUME DnInv, RefreshClash PROVE DnInv'
<1>0. /\ dnScript.step = "clash" /\ ~dnWindow.open
      /\ dnHistory = [cut |-> dnHistory.cut, left |-> dnHistory.left]
      /\ dnHistory.cut \in BOOLEAN
  BY DEF RefreshClash, DnInv, DnShape
<1>1. UNCHANGED <<dnPeers, dnEndpoint, dnWindow, dynDns, xrayHosts, dnTasks>>
  BY DEF RefreshClash
<1>2. DnTaskInv'
  BY <1>1 DEF DnInv, DnTaskInv, Owners
<1>3. DnIdle.step = ""
  BY DEF DnIdle
<1>4. CASE /\ clashHosts' = Rendered /\ dnScript' = DnIdle /\ dnConfig' = dnConfig
           /\ dnHistory' = [cut |-> FALSE, left |-> dnHistory.left \ dnPeers]
  <2>1. DnShape'
    BY <1>1, <1>3, <1>4 DEF DnInv, DnShape, DnIdle
  <2>2. DnNamesInv'
    BY <1>0, <1>1, <1>3, <1>4 DEF DnInv, DnNamesInv, ClearOf, Exclusive
  <2>3. Shows(clashHosts, dnConfig)' /\ Resolves(FollowedOwners, xrayHosts, dnConfig)'
    BY <1>0, <1>1, <1>4, RenderedShows DEF Shows, Resolves, FollowedOwners, DnInv, DnShape, DnViewsInv
  <2>4. DnViewsInv'
    BY <1>0, <1>1, <1>3, <1>4, <2>3 DEF DnViewsInv
  <2> QED  BY <1>2, <2>1, <2>2, <2>4 DEF DnInv
<1>5. CASE /\ dnConfig' = dnScript.old /\ dnScript' = AfterClashFailed
           /\ UNCHANGED <<clashHosts, dnHistory>>
  <2>0. /\ dnScript'.step = "undo" /\ dnScript'.old = dnScript.old
        /\ dnScript' = [op |-> dnScript.op, owner |-> dnScript.owner, step |-> "undo",
                        old |-> dnScript.old]
    BY <1>5 DEF DnInv, DnShape, AfterClashFailed
  <2>1. DnShape'
    BY <1>0, <1>1, <1>3, <1>5, <2>0 DEF DnInv, DnShape
  <2>2. DnNamesInv'
    BY <1>0, <1>1, <1>5, <2>0 DEF DnInv, DnNamesInv, ClearOf, Exclusive
  <2>4. DnViewsInv'
    BY <1>0, <1>1, <1>5, <2>0 DEF DnInv, DnViewsInv, Shows, Resolves, FollowedOwners
  <2> QED  BY <1>2, <2>1, <2>2, <2>4 DEF DnInv
<1> QED  BY <1>4, <1>5 DEF RefreshClash

(* A new endpoint is clear of the catalogue, and so is the one kept for its *)
(* rollback.                                                                *)
LEMMA ApplyEndpointStep == ASSUME DnInv, ApplyEndpoint PROVE DnInv'
<1>1. PICK t \in dnTasks :
        /\ dnScript = DnIdle /\ ~dnWindow.open
        /\ NoConflict(AllDomains, {t.host})
        /\ dnTasks' = dnTasks \ {t}
        /\ dnWindow' = [open |-> TRUE, fqdn |-> dnEndpoint, clash |-> clashHosts]
        /\ dnEndpoint' = t.host
        /\ clashHosts' = Rendered
  BY DEF ApplyEndpoint, Runnable
<1>2. UNCHANGED <<dnPeers, dnConfig, dynDns, xrayHosts, dnScript, dnHistory>>
  BY DEF ApplyEndpoint
<1>3. t.host \in HostNames \cup {NoName} /\ dnScript.step = ""
  BY <1>1 DEF DnInv, DnTaskInv, DnShape
<1>4. dnWindow'.open /\ dnWindow'.fqdn = dnEndpoint /\ dnWindow'.clash = clashHosts
  BY <1>1
<1>5. DnTaskInv'
  BY <1>1, TasksLeft DEF DnInv
<1>6. DnShape'
  BY <1>1, <1>2, <1>3, <1>4 DEF DnInv, DnShape
<1>7. DnNamesInv'
  <2>1. ClearOf(dnConfig, t.host)
    BY <1>1, AllAreClear
  <2> QED  BY <1>1, <1>2, <1>3, <1>4, <2>1 DEF DnInv, DnNamesInv, ClearOf, Exclusive
<1>8. Shows(clashHosts, dnConfig)'
  BY <1>1, <1>2, RenderedShows DEF Shows, Resolves, FollowedOwners, DnInv, DnShape
<1>9. DnViewsInv'
  BY <1>2, <1>3, <1>4, <1>8 DEF DnInv, DnViewsInv, Shows, Resolves, FollowedOwners
<1> QED  BY <1>5, <1>6, <1>7, <1>9 DEF DnInv

(* A rolled back endpoint was kept clear while its window was open.         *)
LEMMA CloseEndpointStep == ASSUME DnInv, CloseEndpointWindow PROVE DnInv'
<1>1. /\ dnWindow.open /\ dnScript = DnIdle /\ dnWindow' = NoWindowOpen
      /\ \/ UNCHANGED <<dnEndpoint, clashHosts>>
         \/ dnEndpoint' = dnWindow.fqdn /\ clashHosts' = dnWindow.clash
      /\ UNCHANGED <<dnPeers, dnConfig, dynDns, xrayHosts, dnTasks, dnScript, dnHistory>>
  BY DEF CloseEndpointWindow
<1>2. dnWindow'.open = FALSE /\ dnScript.step = ""
  BY <1>1 DEF NoWindowOpen, DnInv, DnShape
<1>3. DnTaskInv'
  BY <1>1 DEF DnInv, DnTaskInv, Owners
<1>4. DnShape'
  BY <1>1, <1>2 DEF DnInv, DnShape
<1>5. DnNamesInv'
  BY <1>1, <1>2 DEF DnInv, DnNamesInv, ClearOf, Exclusive
<1>6. DnViewsInv'
  <2>1. /\ ~dnHistory.cut => Resolves(FollowedOwners, xrayHosts, dnConfig) /\ Shows(clashHosts, dnConfig)
        /\ ~dnHistory.cut => Shows(dnWindow.clash, dnConfig)
    BY <1>1, <1>2 DEF DnInv, DnViewsInv
  <2>2. ~dnHistory.cut => Shows(clashHosts, dnConfig)'
    BY <1>1, <2>1 DEF Shows, Resolves, FollowedOwners
  <2>3. ~dnHistory.cut => Resolves(FollowedOwners, xrayHosts, dnConfig)'
    BY <1>1, <2>1 DEF Shows, Resolves, FollowedOwners
  <2> QED  BY <1>1, <1>2, <2>2, <2>3 DEF DnViewsInv
<1> QED  BY <1>3, <1>4, <1>5, <1>6 DEF DnInv

(* A dynamic name is compared with the catalogue of now.                    *)
LEMMA ConfigureDnsStep == ASSUME DnInv, ConfigureDns PROVE DnInv'
<1>1. PICK t \in dnTasks :
        /\ dnScript = DnIdle /\ ~dnWindow.open
        /\ NoConflict(AllDomains, {DnsTarget(t)})
        /\ dnTasks' = dnTasks \ {t}
        /\ \/ /\ dynDns' = [provider |-> t.op, fqdn |-> DnsTarget(t), enabled |-> TRUE]
              /\ dnScript' = [DnIdle EXCEPT !.op = "configure", !.step = "timer"]
           \/ UNCHANGED <<dynDns, dnScript>>
  BY DEF ConfigureDns, Runnable
<1>2. UNCHANGED <<dnPeers, dnConfig, dnEndpoint, dnWindow, xrayHosts, clashHosts, dnHistory>>
  BY DEF ConfigureDns
<1>3. DnsTarget(t) \in HostNames \cup {NoName} /\ dnScript.step = ""
  BY <1>1 DEF DnInv, DnTaskInv, DnShape, DnsTarget
<1>4. DnTaskInv'
  BY <1>1, TasksLeft DEF DnInv
<1>5. ClearOf(dnConfig, DnsTarget(t))
  BY <1>1, AllAreClear
<1>6. CASE UNCHANGED <<dynDns, dnScript>>
  <2>1. DnShape'
    BY <1>2, <1>6 DEF DnInv, DnShape
  <2> QED  BY <1>2, <1>4, <1>6, <2>1, NamesAndViewsKept DEF DnInv
<1>7. CASE /\ dynDns' = [provider |-> t.op, fqdn |-> DnsTarget(t), enabled |-> TRUE]
           /\ dnScript' = [DnIdle EXCEPT !.op = "configure", !.step = "timer"]
  <2>1. /\ dnScript' = [op |-> "configure", owner |-> "", step |-> "timer", old |-> <<>>]
        /\ dnScript'.step = "timer"
    BY <1>7 DEF DnIdle
  <2>2. dnScript' # DnIdle /\ dynDns'.fqdn = DnsTarget(t)
    <3>1. DnIdle.step = ""
      BY DEF DnIdle
    <3> QED  BY <1>7, <2>1, <3>1
  <2>3. DnShape'
    BY <1>1, <1>2, <1>3, <1>7, <2>1, <2>2 DEF DnInv, DnShape
  <2>4. DnNamesInv'
    <3>1. Exclusive(dnConfig')
      BY <1>2 DEF DnInv, DnNamesInv
    <3>2. ClearOf(dnConfig', dnEndpoint') /\ ClearOf(dnConfig', dynDns'.fqdn)
      BY <1>2, <1>5, <2>2 DEF DnInv, DnNamesInv
    <3> QED  BY <1>1, <1>2, <2>1, <3>1, <3>2 DEF DnNamesInv
  <2>5. DnViewsInv'
    BY <1>1, <1>2, <1>3, <2>1 DEF DnInv, DnViewsInv, Shows, Resolves, FollowedOwners
  <2> QED  BY <1>4, <2>3, <2>4, <2>5 DEF DnInv
<1> QED  BY <1>1, <1>6, <1>7

(* Without a dynamic name less has to be clear.                             *)
LEMMA StopDnsStep == ASSUME DnInv, StopDns PROVE DnInv'
<1>1. PICK t \in dnTasks :
        /\ dnScript = DnIdle /\ ~dnWindow.open
        /\ dnTasks' = dnTasks \ {t}
        /\ dynDns' = IF t.op = "delete" THEN DeletedDns ELSE [dynDns EXCEPT !.enabled = FALSE]
        /\ dnScript' = [DnIdle EXCEPT !.op = t.op, !.step = "timer"]
  BY DEF StopDns, Runnable
<1>2. UNCHANGED <<dnPeers, dnConfig, dnEndpoint, dnWindow, xrayHosts, clashHosts, dnHistory>>
  BY DEF StopDns
<1>3. dnScript.step = ""
  BY <1>1 DEF DnInv, DnShape
<1>4. DnTaskInv'
  BY <1>1, TasksLeft DEF DnInv
<1>5. /\ dynDns'.fqdn \in {dynDns.fqdn, NoName}
      /\ dynDns' = [provider |-> dynDns'.provider, fqdn |-> dynDns'.fqdn,
                    enabled |-> dynDns'.enabled]
  <2>1. CASE t.op = "delete"
    BY <1>1, <2>1 DEF DeletedDns, NoDns
  <2>2. CASE t.op # "delete"
    <3>1. dynDns' = [provider |-> dynDns.provider, fqdn |-> dynDns.fqdn, enabled |-> FALSE]
      BY <1>1, <2>2 DEF DnInv, DnShape
    <3> QED  BY <3>1
  <2> QED  BY <2>1, <2>2
<1>6. /\ dnScript' = [op |-> t.op, owner |-> "", step |-> "timer", old |-> <<>>]
      /\ dnScript'.step = "timer" /\ dnScript'.op = t.op
      /\ dnScript'.owner = "" /\ dnScript'.old = <<>>
  BY <1>1 DEF DnIdle
<1>7. dnScript' # DnIdle
  BY <1>6 DEF DnIdle
<1>8. DnShape'
  BY <1>1, <1>2, <1>3, <1>5, <1>6, <1>7 DEF DnInv, DnShape
<1>9. DnNamesInv'
  <2>1. ClearOf(dnConfig, dynDns'.fqdn)
    BY <1>5, NoNameIsClear DEF DnInv, DnNamesInv
  <2> QED  BY <1>1, <1>2, <1>6, <2>1 DEF DnInv, DnNamesInv, ClearOf, Exclusive
<1>10. DnViewsInv'
  BY <1>1, <1>2, <1>3, <1>6 DEF DnInv, DnViewsInv, Shows, Resolves, FollowedOwners
<1> QED  BY <1>4, <1>8, <1>9, <1>10 DEF DnInv

(* The timer touches no name.                                               *)
LEMMA DnsTimerStep == ASSUME DnInv, EnableTimer \/ DisableTimer PROVE DnInv'
<1>1. /\ dnScript.step = "timer" /\ dnScript' = DnIdle
      /\ dynDns' = dynDns \/ dynDns' = [dynDns EXCEPT !.enabled = FALSE]
      /\ UNCHANGED <<dnPeers, dnConfig, dnEndpoint, dnWindow, xrayHosts, clashHosts, dnTasks,
                     dnHistory>>
  BY DEF EnableTimer, DisableTimer
<1>2. /\ dynDns'.fqdn = dynDns.fqdn
      /\ dynDns' = [provider |-> dynDns'.provider, fqdn |-> dynDns'.fqdn,
                    enabled |-> dynDns'.enabled]
  <2>1. CASE dynDns' = dynDns
    BY <2>1 DEF DnInv, DnShape
  <2>2. CASE dynDns' = [dynDns EXCEPT !.enabled = FALSE]
    <3>1. dynDns' = [provider |-> dynDns.provider, fqdn |-> dynDns.fqdn, enabled |-> FALSE]
      BY <2>2 DEF DnInv, DnShape
    <3> QED  BY <3>1
  <2> QED  BY <1>1, <2>1, <2>2
<1>3. DnIdle.step = ""
  BY DEF DnIdle
<1>4. DnTaskInv'
  BY <1>1 DEF DnInv, DnTaskInv, Owners
<1>5. DnShape'
  BY <1>1, <1>2, <1>3 DEF DnInv, DnShape, DnIdle
<1>6. DnNamesInv'
  BY <1>1, <1>2, <1>3 DEF DnInv, DnNamesInv, ClearOf, Exclusive
<1>7. DnViewsInv'
  BY <1>1, <1>3 DEF DnInv, DnViewsInv, Shows, Resolves, FollowedOwners
<1> QED  BY <1>4, <1>5, <1>6, <1>7 DEF DnInv

(* A node that leaves may stay in the views, which promise nothing of it    *)
(* any more.                                                                *)
LEMMA RemoveNodeStep == ASSUME DnInv, RemoveDomainNode PROVE DnInv'
<1>1. PICK n \in dnPeers :
        /\ dnPeers' = dnPeers \ {n}
        /\ dnConfig' = [dnConfig EXCEPT ![n] = {}] \/ dnConfig' = dnConfig
        /\ dnHistory' = [dnHistory EXCEPT !.left = @ \cup {n}]
  BY DEF RemoveDomainNode
<1>2. /\ dnScript = DnIdle
      /\ UNCHANGED <<dnEndpoint, dnWindow, dynDns, xrayHosts, clashHosts, dnTasks, dnScript>>
  BY DEF RemoveDomainNode
<1>3. dnHistory' = [cut |-> dnHistory.cut, left |-> dnHistory.left \cup {n}]
  BY <1>1 DEF DnInv, DnShape
<1>4. dnScript.step = "" /\ dnConfig \in [Owners -> DomainSets]
  BY <1>2 DEF DnInv, DnShape
<1>5. dnConfig' \in [Owners -> DomainSets]
  BY <1>1, <1>4, NoDomains
<1>6. \A o \in Owners : dnConfig'[o] \subseteq dnConfig[o] /\ (o # n => dnConfig'[o] = dnConfig[o])
  BY <1>1, <1>4
<1>7. DnTaskInv'
  BY <1>2 DEF DnInv, DnTaskInv, Owners
<1>8. DnShape'
  BY <1>1, <1>2, <1>3, <1>4, <1>5 DEF DnInv, DnShape
<1>9. DnNamesInv'
  BY <1>2, <1>4, <1>6 DEF DnInv, DnNamesInv, ClearOf, Exclusive, Owners
<1>10. FollowedOwners' \subseteq FollowedOwners \ {n} /\ FollowedOwners \subseteq Owners
  BY <1>1, <1>3 DEF FollowedOwners, Owners, DnInv, DnShape
<1>11. DnViewsInv'
  <2>1. \A o \in FollowedOwners' : o \in FollowedOwners /\ dnConfig'[o] = dnConfig[o]
    BY <1>6, <1>10
  <2>2. \A o \in Owners : dnConfig'[o] \subseteq dnConfig[o]
    BY <1>6
  <2>3. ASSUME Resolves(FollowedOwners, xrayHosts, dnConfig)
        PROVE  Resolves(FollowedOwners', xrayHosts', dnConfig')
    BY <1>2, <2>1, <2>3 DEF Resolves
  <2>4. ASSUME NEW view, Shows(view, dnConfig)
        PROVE  Shows(view, dnConfig)'
    BY <2>1, <2>4 DEF Shows
  <2>5. ~dnHistory.cut => /\ Resolves(FollowedOwners, xrayHosts, dnConfig)
                          /\ Shows(clashHosts, dnConfig)
                          /\ dnWindow.open => Shows(dnWindow.clash, dnConfig)
    BY <1>4 DEF DnInv, DnViewsInv
  <2>6. dnHistory'.cut = dnHistory.cut
    BY <1>3
  <2> QED  BY <1>2, <1>4, <2>3, <2>4, <2>5, <2>6 DEF DnViewsInv, Shows
<1> QED  BY <1>7, <1>8, <1>9, <1>11 DEF DnInv

(* A node that joins is one of which the views promise nothing; Clash is    *)
(* rendered with it.                                                        *)
LEMMA JoinNodeStep == ASSUME DnInv, JoinDomainNode PROVE DnInv'
<1>1. PICK n \in DomainNodes \ dnPeers : dnPeers' = dnPeers \cup {n}
  BY DEF JoinDomainNode
<1>2. /\ dnScript = DnIdle /\ ~dnWindow.open /\ clashHosts' = RenderedFor(dnPeers')
      /\ UNCHANGED <<dnConfig, dnEndpoint, dnWindow, dynDns, xrayHosts, dnTasks, dnScript,
                     dnHistory>>
  BY DEF JoinDomainNode
<1>3. dnScript.step = "" /\ n \in dnHistory.left /\ dnPeers \subseteq DomainNodes
  BY <1>1, <1>2 DEF DnInv, DnShape
<1>4. FollowedOwners' = FollowedOwners
  BY <1>1, <1>2, <1>3 DEF FollowedOwners
<1>5. Shows(clashHosts, dnConfig)'
  BY <1>1, <1>2, <1>3, DomainAssumption DEF Shows, Resolves, FollowedOwners, RenderedFor, Owners
<1>6. DnTaskInv'
  BY <1>2 DEF DnInv, DnTaskInv, Owners
<1>7. DnShape'
  BY <1>1, <1>2, <1>3 DEF DnInv, DnShape
<1>8. DnNamesInv'
  BY <1>2, <1>3 DEF DnInv, DnNamesInv, ClearOf, Exclusive
<1>9. DnViewsInv'
  BY <1>2, <1>3, <1>4, <1>5 DEF DnInv, DnViewsInv, Shows, Resolves
<1> QED  BY <1>6, <1>7, <1>8, <1>9 DEF DnInv

(* A killed command leaves clear names; nothing is promised of the views.   *)
LEMMA KillDomainStep == ASSUME DnInv, KillDomainScript PROVE DnInv'
<1>1. /\ dnScript # DnIdle /\ dnScript' = DnIdle
      /\ dnHistory' = [dnHistory EXCEPT !.cut = TRUE]
      /\ UNCHANGED <<dnPeers, dnConfig, dnEndpoint, dnWindow, dynDns, xrayHosts, clashHosts,
                     dnTasks>>
  BY DEF KillDomainScript
<1>2. dnHistory' = [cut |-> TRUE, left |-> dnHistory.left] /\ DnIdle.step = ""
  BY <1>1 DEF DnInv, DnShape, DnIdle
<1>3. DnTaskInv'
  BY <1>1 DEF DnInv, DnTaskInv, Owners
<1>4. DnShape'
  BY <1>1, <1>2 DEF DnInv, DnShape, DnIdle
<1>5. DnNamesInv'
  BY <1>1, <1>2 DEF DnInv, DnNamesInv, ClearOf, Exclusive
<1>6. DnViewsInv'
  BY <1>1, <1>2 DEF DnInv, DnShape, DnViewsInv, Shows, Resolves, FollowedOwners
<1> QED  BY <1>3, <1>4, <1>5, <1>6 DEF DnInv

(* Every step keeps the invariant.                                          *)
LEMMA DnStep == ASSUME DnInv, [DnNext]_dnVars PROVE DnInv'
<1>1. CASE UNCHANGED dnVars
  <2>1. DnTaskInv' /\ DnShape'
    BY <1>1 DEF dnVars, DnInv, DnTaskInv, DnShape, Owners
  <2> QED  BY <1>1, <2>1, NamesAndViewsKept DEF dnVars, DnInv
<1> QED
  BY <1>1, DnPreviewStep, InvalidateStep, WriteDomainsStep, RefreshXrayStep, RefreshClashStep,
     ApplyEndpointStep, CloseEndpointStep, ConfigureDnsStep, StopDnsStep, DnsTimerStep,
     RemoveNodeStep, JoinNodeStep, KillDomainStep DEF DnNext

(* The invariant holds in every behaviour.                                  *)
LEMMA DnInvariance == DnSpec => []DnInv
BY DnInitInv, DnStep, PTL DEF DnSpec

(* No wildcard that is saved ever captures the endpoint or the dynamic name *)
(* of the host: the checks under the lock keep it so against tasks that    *)
(* were previewed side by side, an undone change of a node's names and an  *)
(* endpoint that is rolled back.                                           *)
THEOREM NamesStayReachable == DnSpec => []HostKeepsItsNames
<1>1. DnInv => HostKeepsItsNames
  BY NamesAreClear DEF DnInv, DnNamesInv
<1> QED  BY <1>1, DnInvariance, PTL

(* The subscriptions resolve what is saved, and Xray resolves it to its     *)
(* owner alone and nothing else inside the AWG network, also after a step   *)
(* has failed and was taken back or an endpoint was rolled back.            *)
THEOREM ViewsAreCurrent == DnSpec => []ViewsFollowConfig
<1>1. DnInv => ViewsFollowConfig
  <2>1. SUFFICES ASSUME DnInv, dnScript = DnIdle, ~dnHistory.cut
                 PROVE  Resolves(FollowedOwners, xrayHosts, dnConfig) /\ Shows(clashHosts, dnConfig)
    BY DEF ViewsFollowConfig, Shows, Resolves, FollowedOwners
  <2> QED  BY <2>1 DEF DnInv, DnShape, DnViewsInv
<1> QED  BY <1>1, DnInvariance, PTL
-----------------------------------------------------------------------------
(* The types of the domains                                                *)

(* The previews that were made and those that still may be.                *)
DnCountInv ==
    /\ IsFiniteSet(dnTasks)
    /\ dnBounds = [tasks |-> dnBounds.tasks, edits |-> dnBounds.edits,
                   troubles |-> dnBounds.troubles]
    /\ dnBounds.tasks \in Nat
    /\ Cardinality(dnTasks) + dnBounds.tasks <= MaxDomainTasks

(* A provider has a name to update.                                        *)
DnProviderInv == dynDns.provider = "none" <=> dynDns.fqdn = NoName

(* A task that ends leaves fewer, and no step but a preview spends previews. *)
LEMMA TasksCounted ==
    ASSUME DnCountInv, dnTasks' = dnTasks \/ \E t : dnTasks' = dnTasks \ {t},
           dnBounds' = dnBounds \/ SpendDn("edits") \/ SpendDn("troubles")
    PROVE  DnCountInv'
<1>1. IsFiniteSet(dnTasks') /\ Cardinality(dnTasks') <= Cardinality(dnTasks)
  <2>1. IsFiniteSet(dnTasks) /\ dnTasks' \in SUBSET dnTasks
    BY DEF DnCountInv
  <2> QED  BY <2>1, FS_Subset
<1>2. Cardinality(dnTasks) \in Nat /\ Cardinality(dnTasks') \in Nat
  BY <1>1, FS_CardinalityType DEF DnCountInv
<1>3. /\ dnBounds' = [tasks |-> dnBounds'.tasks, edits |-> dnBounds'.edits,
                      troubles |-> dnBounds'.troubles]
      /\ dnBounds'.tasks = dnBounds.tasks
  <2>1. CASE dnBounds' = dnBounds
    BY <2>1 DEF DnCountInv
  <2>2. CASE SpendDn("edits")
    BY <2>2 DEF SpendDn, DnCountInv
  <2>3. CASE SpendDn("troubles")
    BY <2>3 DEF SpendDn, DnCountInv
  <2> QED  BY <2>1, <2>2, <2>3
<1>4. MaxDomainTasks \in Nat
  BY DomainAssumption
<1> QED  BY <1>1, <1>2, <1>3, <1>4 DEF DnCountInv

(* A preview adds one task at most.                                        *)
LEMMA PreviewCounted ==
    ASSUME DnCountInv, NEW op, NEW owner, NEW D, NEW host, AddDnTask(op, owner, D, host)
    PROVE  DnCountInv'
<1>1. PICK t : dnTasks' = dnTasks \cup {t}
  BY DEF AddDnTask
<1>2. /\ dnBounds.tasks > 0 /\ dnBounds'.tasks = dnBounds.tasks - 1
      /\ dnBounds' = [tasks |-> dnBounds'.tasks, edits |-> dnBounds'.edits,
                      troubles |-> dnBounds'.troubles]
  BY DEF AddDnTask, SpendDn, DnCountInv
<1>3. /\ IsFiniteSet(dnTasks') /\ Cardinality(dnTasks) \in Nat /\ Cardinality(dnTasks') \in Nat
      /\ Cardinality(dnTasks') <= Cardinality(dnTasks) + 1
  <2>1. IsFiniteSet(dnTasks)
    BY DEF DnCountInv
  <2>2. /\ IsFiniteSet(dnTasks \cup {t})
        /\ Cardinality(dnTasks \cup {t}) = IF t \in dnTasks THEN Cardinality(dnTasks)
                                           ELSE Cardinality(dnTasks) + 1
    BY <2>1, FS_AddElement
  <2>3. Cardinality(dnTasks) \in Nat /\ Cardinality(dnTasks \cup {t}) \in Nat
    BY <2>1, <2>2, FS_CardinalityType
  <2> QED  BY <1>1, <2>2, <2>3
<1>4. MaxDomainTasks \in Nat
  BY DomainAssumption
<1> QED  BY <1>2, <1>3, <1>4 DEF DnCountInv

(* Every step keeps both.                                                  *)
LEMMA DnCountStep ==
    ASSUME DnShape, DnCountInv, DnProviderInv, [DnNext]_dnVars
    PROVE  DnCountInv' /\ DnProviderInv'
<1>0. dynDns = [provider |-> dynDns.provider, fqdn |-> dynDns.fqdn, enabled |-> dynDns.enabled]
  BY DEF DnShape
<1>1. ASSUME UNCHANGED dynDns PROVE DnProviderInv'
  BY <1>1 DEF DnProviderInv
<1>2. ASSUME NEW op, NEW owner, NEW D, NEW host, AddDnTask(op, owner, D, host)
      PROVE  DnCountInv' /\ DnProviderInv'
  <2>1. UNCHANGED dynDns
    BY <1>2 DEF AddDnTask
  <2> QED  BY <1>1, <1>2, <2>1, PreviewCounted
<1>3. CASE PreviewNodeDomains \/ PreviewAddressDomains \/ PreviewEndpoint \/ PreviewDns
  <2>1. \E op, owner, D, host : AddDnTask(op, owner, D, host)
    BY <1>3 DEF PreviewNodeDomains, PreviewAddressDomains, PreviewEndpoint, PreviewDns
  <2> QED  BY <1>2, <2>1
<1>4. CASE Invalidate \/ WriteDomains \/ ApplyEndpoint \/ CloseEndpointWindow
  <2>1. UNCHANGED dynDns
    BY <1>4 DEF Invalidate, WriteDomains, ApplyEndpoint, CloseEndpointWindow
  <2>2. dnBounds' = dnBounds /\ (dnTasks' = dnTasks \/ \E t : dnTasks' = dnTasks \ {t})
    BY <1>4 DEF Invalidate, WriteDomains, ApplyEndpoint, CloseEndpointWindow
  <2> QED  BY <1>1, <2>1, <2>2, TasksCounted
<1>5. CASE RefreshXray \/ RefreshClash \/ RemoveDomainNode \/ JoinDomainNode \/ KillDomainScript
  <2>1. UNCHANGED <<dynDns, dnTasks>>
    BY <1>5 DEF RefreshXray, RefreshClash, RemoveDomainNode, JoinDomainNode, KillDomainScript
  <2>2. dnBounds' = dnBounds \/ SpendDn("edits") \/ SpendDn("troubles")
    BY <1>5 DEF RefreshXray, RefreshClash, RemoveDomainNode, JoinDomainNode, KillDomainScript
  <2> QED  BY <1>1, <2>1, <2>2, TasksCounted
<1>6. CASE ConfigureDns
  <2>1. PICK t \in dnTasks :
           /\ t.op \in {"duckdns", "dnspod"} /\ DnsTarget(t) # NoName
           /\ \/ dynDns' = [provider |-> t.op, fqdn |-> DnsTarget(t), enabled |-> TRUE]
                 /\ dnBounds' = dnBounds
              \/ SpendDn("troubles") /\ dynDns' = dynDns
           /\ dnTasks' = dnTasks \ {t}
    BY <1>6 DEF ConfigureDns, ProviderRefuses
  <2>2. DnProviderInv'
    BY <1>1, <2>1 DEF DnProviderInv, NoName
  <2>3. DnCountInv'
    BY <2>1, TasksCounted
  <2> QED  BY <2>2, <2>3
<1>7. CASE EnableTimer \/ DisableTimer
  <2>1. /\ dynDns' = dynDns \/ dynDns' = [dynDns EXCEPT !.enabled = FALSE]
        /\ dnBounds' = dnBounds \/ SpendDn("troubles")
        /\ dnTasks' = dnTasks
    BY <1>7 DEF EnableTimer, DisableTimer
  <2>2. DnProviderInv'
    BY <1>0, <2>1 DEF DnProviderInv, NoName
  <2>3. DnCountInv'
    BY <2>1, TasksCounted
  <2> QED  BY <2>2, <2>3
<1>8. CASE StopDns
  <2>1. /\ dynDns' = DeletedDns \/ dynDns' = [dynDns EXCEPT !.enabled = FALSE]
        /\ dnBounds' = dnBounds /\ \E t : dnTasks' = dnTasks \ {t}
    BY <1>8 DEF StopDns
  <2>2. DnProviderInv'
    BY <1>0, <2>1 DEF DnProviderInv, NoName, DeletedDns, NoDns
  <2>3. DnCountInv'
    BY <2>1, TasksCounted
  <2> QED  BY <2>2, <2>3
<1>9. CASE UNCHANGED dnVars
  <2>1. UNCHANGED <<dynDns, dnTasks, dnBounds>>
    BY <1>9 DEF dnVars
  <2> QED  BY <1>1, <2>1, TasksCounted
<1> QED
  BY <1>3, <1>4, <1>5, <1>6, <1>7, <1>8, <1>9 DEF DnNext

(* Types of the domains, their tasks and the dynamic name.                 *)
THEOREM DomainTypesCorrect == DnSpec => []DnTypeOK
<1>1. DnInit => DnCountInv /\ DnProviderInv
  BY FS_EmptySet, DomainAssumption DEF DnInit, DnCountInv, DnProviderInv, NoDns, NoName
<1>2. DnInv /\ DnCountInv /\ DnProviderInv => DnTypeOK
  <2> SUFFICES ASSUME DnInv, DnCountInv, DnProviderInv
               PROVE  DnTypeOK
    OBVIOUS
  <2>1. Cardinality(dnTasks) <= MaxDomainTasks
    BY FS_CardinalityType, DomainAssumption DEF DnCountInv
  <2> QED  BY <2>1 DEF DnInv, DnShape, DnTypeOK, DnProviderInv
<1>3. DnInv /\ [DnNext]_dnVars /\ DnCountInv /\ DnProviderInv => DnCountInv' /\ DnProviderInv'
  BY DnCountStep DEF DnInv
<1> QED  BY <1>1, <1>2, <1>3, DnInvariance, PTL DEF DnSpec
-----------------------------------------------------------------------------
(* Proxy exits                                                             *)

(* A catalogue has four parts; the choices are a function.                 *)
IsCatalogue(c) ==
    /\ c = [airports |-> c.airports, exits |-> c.exits, default |-> c.default,
            selections |-> c.selections]
    /\ c.selections = [n \in DOMAIN c.selections |-> c.selections[n]]

PxScriptInv ==
    /\ pxScript = [step |-> pxScript.step, old |-> pxScript.old]
    /\ pxScript.step \in {"none", "relay", "publish", "undo"}
    /\ pxScript = NoProxyScript <=> pxScript.step = "none"
    /\ pxScript.step \in {"relay", "publish"} => IsCatalogue(pxScript.old)
    /\ IsCatalogue(pxConfig)
    /\ pxCut \in BOOLEAN

(* What is published follows the catalogue that was there before a refresh *)
(* of the relay, and the relay is refreshed first.                         *)
PxServedInv ==
    /\ ~pxCut /\ pxScript.step = "none" =>
          pxRelay = Identities(pxConfig) /\ pxPublished = Identities(pxConfig)
    /\ ~pxCut /\ pxScript.step = "relay" =>
          pxRelay = Identities(pxScript.old) /\ pxPublished = Identities(pxScript.old)
    /\ pxScript.step = "publish" => pxRelay = Identities(pxConfig)
    /\ ~pxCut /\ pxScript.step = "publish" => pxPublished = Identities(pxScript.old)
    /\ ~pxCut /\ pxScript.step = "undo" => pxPublished = Identities(pxConfig)

PxInv == PxScriptInv /\ PxServedInv
-----------------------------------------------------------------------------
(* A catalogue with another part.                                          *)
WithExits(c, e) == [c EXCEPT !.exits = e]

WithDefault(c, d) == [c EXCEPT !.default = d]

WithChoices(c, s) == [c EXCEPT !.selections = s]

(* Another part is all that changes.                                       *)
LEMMA OnePart ==
    ASSUME NEW c, NEW v, IsCatalogue(c)
    PROVE  /\ IsCatalogue(WithExits(c, v)) /\ WithExits(c, v).selections = c.selections
           /\ IsCatalogue(WithDefault(c, v)) /\ WithDefault(c, v).selections = c.selections
           /\ (v = [n \in DOMAIN v |-> v[n]] => IsCatalogue(WithChoices(c, v)))
           /\ WithChoices(c, v).selections = v
<1>1. WithExits(c, v) = [airports |-> c.airports, exits |-> v, default |-> c.default,
                         selections |-> c.selections]
  BY DEF IsCatalogue, WithExits
<1>2. WithDefault(c, v) = [airports |-> c.airports, exits |-> c.exits, default |-> v,
                           selections |-> c.selections]
  BY DEF IsCatalogue, WithDefault
<1>3. WithChoices(c, v) = [airports |-> c.airports, exits |-> c.exits, default |-> c.default,
                           selections |-> v]
  BY DEF IsCatalogue, WithChoices
<1> QED  BY <1>1, <1>2, <1>3 DEF IsCatalogue

(* Which choices an operation changes: its own, and a deleted exit goes.   *)
LEMMA AirportKeeps ==
    ASSUME NEW c, NEW r, IsCatalogue(c)
    PROVE  IsCatalogue(ApplyAirport(c, r)) /\ ApplyAirport(c, r).selections = c.selections
<1>1. \E v : ApplyAirport(c, r) = [c EXCEPT !.airports = v]
  BY Zenon DEF ApplyAirport
<1>2. PICK v : ApplyAirport(c, r) = [c EXCEPT !.airports = v]
  BY <1>1
<1>3. [c EXCEPT !.airports = v] = [airports |-> v, exits |-> c.exits, default |-> c.default,
                                    selections |-> c.selections]
  BY DEF IsCatalogue
<1> QED  BY <1>2, <1>3 DEF IsCatalogue

(* An exit that is added leaves the form of the catalogue.                  *)
LEMMA AddKeeps ==
    ASSUME NEW c, NEW r, IsCatalogue(c)
    PROVE  IsCatalogue(AddExit(c, r)) /\ AddExit(c, r).selections = c.selections
<1>1. \E e, d : AddExit(c, r) = WithDefault(WithExits(c, e), d)
  BY Zenon DEF AddExit, WithExits, WithDefault
<1> QED  BY <1>1, OnePart

(* So does one that is changed.                                             *)
LEMMA UpdateKeeps ==
    ASSUME NEW c, NEW r, IsCatalogue(c)
    PROVE  IsCatalogue(UpdateExit(c, r)) /\ UpdateExit(c, r).selections = c.selections
<1>1. \E e, d : UpdateExit(c, r) = WithDefault(WithExits(c, e), d)
  BY Zenon DEF UpdateExit, WithExits, WithDefault
<1> QED  BY <1>1, OnePart

(* And one that is deleted, although choices go with it.                    *)
LEMMA DeleteKeeps ==
    ASSUME NEW c, NEW r, IsCatalogue(c)
    PROVE  /\ IsCatalogue(DeleteExit(c, r))
           /\ DeleteExit(c, r).selections = WithoutExit(c, r.id)
<1>1. \E e, d : DeleteExit(c, r)
                  = WithChoices(WithDefault(WithExits(c, e), d), WithoutExit(c, r.id))
  BY Zenon DEF DeleteExit, WithExits, WithDefault, WithChoices
<1>2. WithoutExit(c, r.id) = [n \in DOMAIN c.selections |-> c.selections[n] \ {r.id}]
  BY DEF WithoutExit
<1>3. WithoutExit(c, r.id)
        = [n \in DOMAIN WithoutExit(c, r.id) |-> WithoutExit(c, r.id)[n]]
  BY <1>2
<1> QED  BY <1>1, <1>3, OnePart

(* And a choice of a node.                                                  *)
LEMMA SetKeeps ==
    ASSUME NEW c, NEW r, IsCatalogue(c)
    PROVE  /\ IsCatalogue(SetNodeExits(c, r))
           /\ DOMAIN SetNodeExits(c, r).selections = DOMAIN c.selections \cup {r.node}
           /\ \A n \in DOMAIN c.selections \ {r.node} :
                 SetNodeExits(c, r).selections[n] = c.selections[n]
<1> DEFINE S == [n \in DOMAIN c.selections \cup {r.node} |->
                    IF n = r.node THEN r.ids ELSE c.selections[n]]
<1>1. SetNodeExits(c, r) = [c EXCEPT !.selections = S]
  BY DEF SetNodeExits
<1>2. [c EXCEPT !.selections = S]
        = [airports |-> c.airports, exits |-> c.exits, default |-> c.default, selections |-> S]
  BY DEF IsCatalogue
<1> QED  BY <1>1, <1>2 DEF IsCatalogue

(* An update is one of these.                                               *)
LEMMA AppliedIs ==
    ASSUME NEW c, NEW r
    PROVE  \/ Applied(c, r) = ApplyAirport(c, r)
           \/ Applied(c, r) = AddExit(c, r)
           \/ Applied(c, r) = UpdateExit(c, r)
           \/ Applied(c, r) = [c EXCEPT !.default = r.id]
           \/ Applied(c, r) = DeleteExit(c, r)
           \/ Applied(c, r) = SetNodeExits(c, r)
BY Zenon DEF Applied

(* A node that has chosen keeps a choice without further exits, whatever    *)
(* operation is applied, but one on its own choice.                        *)
LEMMA AppliedKeeps ==
    ASSUME NEW c, NEW r, IsCatalogue(c)
    PROVE  /\ IsCatalogue(Applied(c, r))
           /\ \A n \in DOMAIN c.selections :
                 n # r.node => SelectedExits(Applied(c, r), n) \subseteq SelectedExits(c, n)
<1>1. CASE Applied(c, r) = ApplyAirport(c, r)
  BY <1>1, AirportKeeps DEF SelectedExits
<1>2. CASE Applied(c, r) = AddExit(c, r)
  BY <1>2, AddKeeps DEF SelectedExits
<1>3. CASE Applied(c, r) = UpdateExit(c, r)
  BY <1>3, UpdateKeeps DEF SelectedExits
<1>4. CASE Applied(c, r) = [c EXCEPT !.default = r.id]
  <2>1. Applied(c, r) = [airports |-> c.airports, exits |-> c.exits, default |-> r.id,
                         selections |-> c.selections]
    BY <1>4 DEF IsCatalogue
  <2> QED  BY <2>1 DEF IsCatalogue, SelectedExits
<1>5. CASE Applied(c, r) = DeleteExit(c, r)
  <2>1. WithoutExit(c, r.id) = [n \in DOMAIN c.selections |-> c.selections[n] \ {r.id}]
    BY DEF WithoutExit
  <2>2. \A n \in DOMAIN c.selections :
            SelectedExits(DeleteExit(c, r), n) = c.selections[n] \ {r.id}
    BY <2>1, DeleteKeeps DEF SelectedExits
  <2> QED  BY <1>5, <2>2, DeleteKeeps DEF SelectedExits
<1>6. CASE Applied(c, r) = SetNodeExits(c, r)
  BY <1>6, SetKeeps DEF SelectedExits
<1> QED  BY <1>1, <1>2, <1>3, <1>4, <1>5, <1>6, AppliedIs
-----------------------------------------------------------------------------
(* At the start relay and publication have the identities of the catalogue. *)
LEMMA PxInitInv == ProxyInit => PxInv
<1> SUFFICES ASSUME ProxyInit PROVE PxInv
  OBVIOUS
<1>1. PICK first, second, own :
        pxConfig = [airports |-> {[id |-> 1, name |-> a, on |-> TRUE] : a \in
                                      {CHOOSE x \in AirportNames : TRUE}},
                    exits |-> <<[id |-> 1, name |-> first, kind |-> "socks5"],
                                [id |-> 2, name |-> second, kind |-> "socks5"]>>,
                    default |-> 1, selections |-> [n \in own |-> {2}]]
  BY DEF ProxyInit
<1>2. IsCatalogue(pxConfig)
  BY <1>1 DEF IsCatalogue
<1>3. /\ pxRelay = Identities(pxConfig) /\ pxPublished = Identities(pxConfig)
      /\ pxScript = NoProxyScript /\ pxCut = FALSE
  BY DEF ProxyInit
<1> QED  BY <1>2, <1>3 DEF PxInv, PxScriptInv, PxServedInv, NoProxyScript

(* The catalogue that is written keeps its form; the old one, with what the *)
(* relay serves, is kept.                                                   *)
LEMMA WriteProxyStep == ASSUME PxInv, WriteProxy PROVE PxInv'
<1>1. PICK t \in pxTasks :
        \/ /\ pxConfig' = Applied(pxConfig, t.request)
           /\ pxScript' = [step |-> "relay", old |-> pxConfig]
        \/ UNCHANGED <<pxConfig, pxScript>>
  BY DEF WriteProxy
<1>2. pxScript = NoProxyScript /\ UNCHANGED <<pxRelay, pxPublished, pxCut>>
  BY DEF WriteProxy
<1>3. CASE UNCHANGED <<pxConfig, pxScript>>
  BY <1>2, <1>3 DEF PxInv, PxScriptInv, PxServedInv
<1>4. CASE /\ pxConfig' = Applied(pxConfig, t.request)
           /\ pxScript' = [step |-> "relay", old |-> pxConfig]
  <2>1. pxScript'.step = "relay" /\ pxScript'.old = pxConfig /\ NoProxyScript.step = "none"
    BY <1>4 DEF NoProxyScript
  <2>2. IsCatalogue(pxConfig')
    BY <1>4, AppliedKeeps DEF PxInv, PxScriptInv
  <2>3. PxScriptInv'
    BY <1>2, <1>4, <2>1, <2>2 DEF PxInv, PxScriptInv
  <2>4. PxServedInv'
    BY <1>2, <2>1 DEF PxInv, PxScriptInv, PxServedInv
  <2> QED  BY <2>3, <2>4 DEF PxInv
<1> QED  BY <1>1, <1>3, <1>4

(* The relay takes the identities of the new catalogue, or the old          *)
(* catalogue is written back before anything was published.                 *)
LEMMA RefreshRelayStep == ASSUME PxInv, RefreshRelay PROVE PxInv'
<1>1. /\ pxScript.step = "relay" /\ UNCHANGED <<pxPublished, pxCut>>
      /\ \/ /\ pxRelay' = Identities(pxConfig) /\ pxConfig' = pxConfig
            /\ pxScript' = [pxScript EXCEPT !.step = "publish"]
         \/ /\ pxConfig' = pxScript.old /\ pxRelay' = pxRelay
            /\ pxScript' = [pxScript EXCEPT !.step = "undo"]
  BY DEF RefreshRelay
<1>2. /\ pxScript' = [step |-> pxScript'.step, old |-> pxScript.old]
      /\ pxScript'.old = pxScript.old /\ NoProxyScript.step = "none"
  BY <1>1 DEF PxInv, PxScriptInv, NoProxyScript
<1>3. \/ /\ pxScript'.step = "publish" /\ pxRelay' = Identities(pxConfig) /\ pxConfig' = pxConfig
      \/ /\ pxScript'.step = "undo" /\ pxConfig' = pxScript.old
  BY <1>1 DEF PxInv, PxScriptInv
<1>4. PxScriptInv'
  BY <1>1, <1>2, <1>3 DEF PxInv, PxScriptInv
<1>5. PxServedInv'
  BY <1>1, <1>2, <1>3 DEF PxInv, PxServedInv
<1> QED  BY <1>4, <1>5 DEF PxInv

(* The relay returns to the catalogue that was written back, or the update  *)
(* is cut off.                                                              *)
LEMMA UndoRelayStep == ASSUME PxInv, UndoRelay PROVE PxInv'
<1>1. /\ pxScript.step = "undo" /\ pxScript' = NoProxyScript
      /\ \/ pxRelay' = Identities(pxConfig) /\ pxCut' = pxCut
         \/ pxCut' = TRUE
      /\ UNCHANGED <<pxConfig, pxPublished>>
  BY DEF UndoRelay
<1>2. NoProxyScript.step = "none"
  BY DEF NoProxyScript
<1>3. PxScriptInv'
  BY <1>1, <1>2 DEF PxInv, PxScriptInv, NoProxyScript
<1>4. PxServedInv'
  BY <1>1, <1>2 DEF PxInv, PxServedInv
<1> QED  BY <1>3, <1>4 DEF PxInv

(* What is published is what the relay already serves; a failure writes the *)
(* old catalogue back.                                                      *)
LEMMA PublishStep == ASSUME PxInv, PublishProxy PROVE PxInv'
<1>1. /\ pxScript.step = "publish" /\ pxRelay' = pxRelay
      /\ \/ /\ pxPublished' = Identities(pxConfig) /\ pxScript' = NoProxyScript
            /\ pxCut' = FALSE /\ pxConfig' = pxConfig
         \/ /\ pxConfig' = pxScript.old /\ pxScript' = AfterPublishFailed
            /\ UNCHANGED <<pxPublished, pxCut>>
  BY DEF PublishProxy
<1>2. NoProxyScript.step = "none"
  BY DEF NoProxyScript
<1>3. CASE /\ pxPublished' = Identities(pxConfig) /\ pxScript' = NoProxyScript
           /\ pxCut' = FALSE /\ pxConfig' = pxConfig
  <2>1. PxScriptInv'
    BY <1>2, <1>3 DEF PxInv, PxScriptInv, NoProxyScript
  <2>2. PxServedInv'
    BY <1>1, <1>2, <1>3 DEF PxInv, PxServedInv
  <2> QED  BY <2>1, <2>2 DEF PxInv
<1>4. CASE /\ pxConfig' = pxScript.old /\ pxScript' = AfterPublishFailed
           /\ UNCHANGED <<pxPublished, pxCut>>
  <2>1. pxScript' = [step |-> "undo", old |-> pxScript.old] /\ pxScript'.step = "undo"
    BY <1>4 DEF PxInv, PxScriptInv, AfterPublishFailed
  <2>2. PxScriptInv'
    BY <1>1, <1>2, <1>4, <2>1 DEF PxInv, PxScriptInv
  <2>3. PxServedInv'
    BY <1>1, <1>2, <1>4, <2>1 DEF PxInv, PxServedInv
  <2> QED  BY <2>2, <2>3 DEF PxInv
<1> QED  BY <1>1, <1>3, <1>4

(* A killed update promises nothing more.                                   *)
LEMMA KillProxyStep == ASSUME PxInv, KillProxy PROVE PxInv'
<1>1. /\ pxScript' = NoProxyScript /\ pxCut' = TRUE
      /\ UNCHANGED <<pxConfig, pxRelay, pxPublished>>
  BY DEF KillProxy
<1> QED  BY <1>1 DEF PxInv, PxScriptInv, PxServedInv, NoProxyScript

(* Every step keeps the invariant.                                          *)
LEMMA PxStep == ASSUME PxInv, [ProxyNext]_proxyVars PROVE PxInv'
<1>1. CASE UNCHANGED <<pxConfig, pxRelay, pxPublished, pxScript, pxCut>>
  BY <1>1 DEF PxInv, PxScriptInv, PxServedInv
<1>2. CASE PreviewProxy \/ InvalidateProxy \/ UNCHANGED proxyVars
  BY <1>1, <1>2 DEF PreviewProxy, InvalidateProxy, proxyVars
<1> QED
  BY <1>2, WriteProxyStep, RefreshRelayStep, UndoRelayStep, PublishStep, KillProxyStep
     DEF ProxyNext

(* The invariant holds in every behaviour.                                  *)
LEMMA PxInvariance == ProxySpec => []PxInv
BY PxInitInv, PxStep, PTL DEF ProxySpec

(* The relay serves what is published, and both follow the catalogue, after *)
(* whatever refresh has failed and was taken back.                          *)
THEOREM ExitsAreServed == ProxySpec => []PublishedExitsAreServed
<1>1. PxInv => PublishedExitsAreServed
  BY DEF PxInv, PxScriptInv, PxServedInv, PublishedExitsAreServed
<1> QED  BY <1>1, PxInvariance, PTL

(* The exits a node has chosen are only added to by a task on its own       *)
(* choice.                                                                  *)
THEOREM ChoicesKept == ProxySpec => ChoiceIsKept
<1> DEFINE Kept == \A n \in ProxyNodes :
                      /\ n \in DOMAIN pxConfig.selections
                      /\ \A t \in pxTasks \ pxTasks' : t.request.node # n
                      /\ pxScript = NoProxyScript
                      => SelectedExits(pxConfig', n) \subseteq SelectedExits(pxConfig, n)
<1>1. ASSUME PxInv, [ProxyNext]_proxyVars PROVE [Kept]_proxyVars
  <2>1. CASE UNCHANGED pxConfig
    BY <2>1
  <2>2. CASE UNCHANGED proxyVars
    BY <2>2
  <2>3. CASE WriteProxy
    <3>1. PICK t \in pxTasks :
            /\ pxTasks' = pxTasks \ {t}
            /\ \/ pxConfig' = Applied(pxConfig, t.request)
               \/ UNCHANGED pxConfig
      BY <2>3 DEF WriteProxy
    <3>2. IsCatalogue(pxConfig)
      BY <1>1 DEF PxInv, PxScriptInv
    <3>3. t \in pxTasks \ pxTasks'
      BY <3>1
    <3> QED  BY <2>1, <3>1, <3>2, <3>3, AppliedKeeps
  <2>4. CASE pxScript.step # "none"
    <3>1. pxScript # NoProxyScript
      BY <2>4 DEF NoProxyScript
    <3> QED  BY <3>1
  <2>5. CASE PreviewProxy \/ InvalidateProxy \/ UndoRelay \/ KillProxy
    BY <2>1, <2>5 DEF PreviewProxy, InvalidateProxy, UndoRelay, KillProxy
  <2>6. CASE RefreshRelay \/ PublishProxy
    BY <2>4, <2>6 DEF RefreshRelay, PublishProxy
  <2> QED  BY <1>1, <2>2, <2>3, <2>5, <2>6 DEF ProxyNext
<1> QED  BY <1>1, PxInvariance, PTL DEF ProxySpec, ChoiceIsKept
-----------------------------------------------------------------------------
(* The types of the proxy exits                                            *)

(* What the catalogue says of an exit.                                      *)
ExitRecords == [id : 1..MaxExits, name : ExitNames, kind : {"socks5", "other"}]

UniqueIds(exits) == \A i, j \in DOMAIN exits : exits[i].id = exits[j].id => i = j

(* A catalogue that was checked, with ids up to the limit on exits.         *)
GoodCatalogue(c) ==
    /\ IsCatalogue(c) /\ ConsistentConfig(c)
    /\ c.exits \in Seq(ExitRecords) /\ UniqueIds(c.exits)

TypedRequest(r) ==
    /\ r.op = "exit_add" => r.name \in ExitNames /\ r.kind \in {"socks5", "other"}
    /\ r.op = "exit_update" => r.name \in ExitNames /\ r.kind \in {"kept", "socks5"}

Identified == [ProxyNodes -> SUBSET (1..MaxExits)]

PxTypeInv ==
    /\ GoodCatalogue(pxConfig)
    /\ pxScript.step \in {"relay", "publish"} => GoodCatalogue(pxScript.old)
    /\ pxRelay \in Identified /\ pxPublished \in Identified
    /\ \A t \in pxTasks : TypedRequest(t.request)

(* What every record of a catalogue is.                                     *)
LEMMA RecordsAre ==
    ASSUME NEW s \in Seq(ExitRecords)
    PROVE  /\ DOMAIN s = 1..Len(s) /\ Len(s) \in Nat
           /\ \A i \in DOMAIN s : s[i] \in ExitRecords /\ s[i].id \in 1..MaxExits
<1>1. /\ DOMAIN s = 1..Len(s) /\ Len(s) \in Nat
      /\ \A i \in 1..Len(s) : s[i] \in ExitRecords
  OBVIOUS
<1>2. \A e \in ExitRecords : e.id \in 1..MaxExits
  BY DEF ExitRecords
<1> QED  BY <1>1, <1>2

(* Whoever subscribes is given exits of the catalogue.                      *)
LEMMA IdentitiesTyped ==
    ASSUME NEW c, GoodCatalogue(c)
    PROVE  Identities(c) \in Identified
<1>1. ExitIds(c) \subseteq 1..MaxExits
  <2>1. c.exits \in Seq(ExitRecords)
    BY DEF GoodCatalogue
  <2>2. \A i \in DOMAIN c.exits : c.exits[i].id \in 1..MaxExits
    BY <2>1, RecordsAre
  <2> QED  BY <2>2 DEF ExitIds
<1>2. \A n : SelectedExits(c, n) \subseteq ExitIds(c)
  <2> TAKE n
  <2>1. CASE n \in DOMAIN c.selections
    BY <2>1 DEF GoodCatalogue, ConsistentConfig, SelectedExits
  <2>2. CASE n \notin DOMAIN c.selections
    BY <2>2 DEF GoodCatalogue, ConsistentConfig, SelectedExits
  <2> QED  BY <2>1, <2>2
<1> QED  BY <1>1, <1>2 DEF Identities, Identified

(* Among one more ids than there are exits, one is free.                    *)
LEMMA FreeId ==
    ASSUME NEW c, c.exits \in Seq(ExitRecords)
    PROVE  NewId(c) \in 1..(Len(c.exits) + 1) /\ NewId(c) \notin ExitIds(c)
<1> DEFINE n == Len(c.exits)
           P(k) == CHOOSE i \in DOMAIN c.exits : c.exits[i].id = k
           f == [k \in 1..(n + 1) |-> P(k)]
<1>1. n \in Nat /\ DOMAIN c.exits = 1..n
  OBVIOUS
<1>2. \E k \in 1..(n + 1) : k \notin ExitIds(c)
  <2> SUFFICES ASSUME \A k \in 1..(n + 1) : k \in ExitIds(c) PROVE FALSE
    OBVIOUS
  <2>1. \A k \in 1..(n + 1) : P(k) \in 1..n /\ c.exits[P(k)].id = k
    <3> TAKE k \in 1..(n + 1)
    <3>1. \E i \in DOMAIN c.exits : c.exits[i].id = k
      BY DEF ExitIds
    <3> QED  BY <1>1, <3>1, Zenon
  <2>2. f \in [1..(n + 1) -> 1..n] /\ \A k \in 1..(n + 1) : f[k] = P(k)
    BY <2>1
  <2> HIDE DEF P, f
  <2>3. \A k, l \in 1..(n + 1) : f[k] = f[l] => k = l
    BY <2>1, <2>2
  <2>4. f \in Injection(1..(n + 1), 1..n)
    BY <2>2, <2>3 DEF Injection, IsInjective
  <2>5. IsFiniteSet(1..n) /\ Cardinality(1..n) = n /\ Cardinality(1..(n + 1)) = n + 1
    <3> HIDE DEF n
    <3>1. /\ IsFiniteSet(1..n) /\ Cardinality(1..n) = IF 1 > n THEN 0 ELSE n - 1 + 1
          /\ Cardinality(1..(n + 1)) = IF 1 > n + 1 THEN 0 ELSE (n + 1) - 1 + 1
      BY <1>1, FS_Interval
    <3> QED  BY <1>1, <3>1
  <2>6. Cardinality(1..(n + 1)) <= Cardinality(1..n)
    BY <2>4, <2>5, FS_Injection
  <2> HIDE DEF n
  <2> QED  BY <1>1, <2>5, <2>6
<1> QED  BY <1>2, Zenon DEF NewId

(* One position less: the others keep their order and their records.        *)
LEMMA PositionGone ==
    ASSUME NEW S, NEW s \in Seq(S), NEW k \in 1..Len(s)
    PROVE  /\ WithoutPosition(s, k) \in Seq(S)
           /\ Len(WithoutPosition(s, k)) = Len(s) - 1
           /\ \A i \in 1..(Len(s) - 1) :
                 WithoutPosition(s, k)[i] = IF i < k THEN s[i] ELSE s[i + 1]
<1>1. /\ SubSeq(s, 1, k - 1) \in Seq(S) /\ Len(SubSeq(s, 1, k - 1)) = k - 1
      /\ \A i \in 1..(k - 1) : SubSeq(s, 1, k - 1)[i] = s[i]
  OBVIOUS
<1>2. /\ SubSeq(s, k + 1, Len(s)) \in Seq(S) /\ Len(SubSeq(s, k + 1, Len(s))) = Len(s) - k
      /\ \A i \in 1..(Len(s) - k) : SubSeq(s, k + 1, Len(s))[i] = s[k + i]
  OBVIOUS
<1> DEFINE a == SubSeq(s, 1, k - 1)
           b == SubSeq(s, k + 1, Len(s))
<1>3. WithoutPosition(s, k) = a \o b
  BY DEF WithoutPosition
<1> HIDE DEF a, b
<1>4. a \in Seq(S) /\ Len(a) = k - 1 /\ b \in Seq(S) /\ Len(b) = Len(s) - k
  BY <1>1, <1>2 DEF a, b
<1>5. a \o b \in Seq(S) /\ Len(a \o b) = Len(s) - 1
  BY <1>4
<1>6. \A i \in 1..(Len(s) - 1) : (a \o b)[i] = IF i < k THEN s[i] ELSE s[i + 1]
  <2> TAKE i \in 1..(Len(s) - 1)
  <2>1. CASE i < k
    <3>1. a[i] = s[i]
      BY <1>1, <2>1 DEF a
    <3>2. (a \o b)[i] = a[i]
      BY <1>4, <2>1
    <3> QED  BY <2>1, <3>1, <3>2
  <2>2. CASE ~(i < k)
    <3>1. (a \o b)[i] = b[i - (k - 1)]
      BY <1>4, <2>2
    <3>2. i - (k - 1) \in 1..(Len(s) - k) /\ k + (i - (k - 1)) = i + 1
      BY <2>2
    <3>3. b[i - (k - 1)] = s[i + 1]
      BY <1>2, <3>2 DEF b
    <3> QED  BY <2>2, <3>1, <3>3
  <2> QED  BY <2>1, <2>2
<1> QED  BY <1>3, <1>5, <1>6

(* Other exits and another default are all that changes.                    *)
LEMMA TwoParts ==
    ASSUME NEW c, NEW v, NEW d, IsCatalogue(c)
    PROVE  /\ WithDefault(WithExits(c, v), d).exits = v
           /\ \A s : WithChoices(WithDefault(WithExits(c, v), d), s).exits = v
<1>1. WithExits(c, v) = [airports |-> c.airports, exits |-> v, default |-> c.default,
                         selections |-> c.selections]
  BY DEF IsCatalogue, WithExits
<1>2. WithDefault(WithExits(c, v), d)
        = [airports |-> c.airports, exits |-> v, default |-> d, selections |-> c.selections]
  BY <1>1 DEF WithDefault
<1>3. \A s : WithChoices(WithDefault(WithExits(c, v), d), s)
              = [airports |-> c.airports, exits |-> v, default |-> d, selections |-> s]
  BY <1>2 DEF WithChoices
<1>4. WithDefault(WithExits(c, v), d).exits = v
  BY <1>2
<1>5. ASSUME NEW s PROVE WithChoices(WithDefault(WithExits(c, v), d), s).exits = v
  BY <1>3
<1> QED  BY <1>4, <1>5

(* An exit that is added gets an id of its own.                             *)
LEMMA AddGood ==
    ASSUME NEW c, NEW r, GoodCatalogue(c), TypedRequest(r), r.op = "exit_add",
           ConsistentConfig(AddExit(c, r))
    PROVE  GoodCatalogue(AddExit(c, r))
<1> DEFINE new == [id |-> NewId(c), name |-> r.name, kind |-> r.kind]
<1>1. IsCatalogue(c) /\ c.exits \in Seq(ExitRecords) /\ UniqueIds(c.exits)
  BY DEF GoodCatalogue
<1>3. AddExit(c, r).exits = Append(c.exits, new)
  <2> DEFINE longer == Append(c.exits, new)
  <2>1. \E d : AddExit(c, r) = WithDefault(WithExits(c, longer), d)
    BY Zenon DEF AddExit, WithExits, WithDefault
  <2> HIDE DEF longer
  <2>2. AddExit(c, r).exits = longer
    BY <1>1, <2>1, TwoParts
  <2> QED  BY <2>2 DEF longer
<1>4. Len(c.exits) + 1 <= MaxExits
  BY <1>1, <1>3 DEF ConsistentConfig
<1>5. NewId(c) \in 1..(Len(c.exits) + 1) /\ NewId(c) \notin ExitIds(c)
  BY <1>1, FreeId
<1>6. new \in ExitRecords
  <2>1. NewId(c) \in 1..MaxExits
    BY <1>1, <1>4, <1>5, ProxyAssumption
  <2> QED  BY <2>1 DEF ExitRecords, TypedRequest
<1>7. \A i \in DOMAIN c.exits : c.exits[i].id # new.id
  BY <1>5 DEF ExitIds
<1> HIDE DEF new
<1>8. UniqueIds(Append(c.exits, new))
  BY <1>1, <1>6, <1>7 DEF UniqueIds
<1> QED  BY <1>1, <1>3, <1>6, <1>8, AddKeeps DEF GoodCatalogue

(* A changed record is one again, of the same exit.                         *)
LEMMA ChangedRecord ==
    ASSUME NEW r, TypedRequest(r), r.op = "exit_update", NEW e \in ExitRecords
    PROVE  ChangedExit(e, r) \in ExitRecords /\ ChangedExit(e, r).id = e.id
<1>1. r.name \in ExitNames /\ r.kind \in {"kept", "socks5"} /\ e.kind \in {"socks5", "other"}
  BY DEF TypedRequest, ExitRecords
<1>2. \E k \in {"socks5", "other"} :
        ChangedExit(e, r) = [e EXCEPT !.name = r.name, !.kind = k]
  BY <1>1 DEF ChangedExit
<1>3. \A n \in ExitNames, k \in {"socks5", "other"} :
        /\ [e EXCEPT !.name = n, !.kind = k] \in ExitRecords
        /\ [e EXCEPT !.name = n, !.kind = k].id = e.id
  BY DEF ExitRecords
<1> QED  BY <1>1, <1>2, <1>3

(* One that is changed keeps its id.                                        *)
LEMMA UpdateGood ==
    ASSUME NEW c, NEW r, GoodCatalogue(c), TypedRequest(r), r.op = "exit_update",
           ConsistentConfig(UpdateExit(c, r))
    PROVE  GoodCatalogue(UpdateExit(c, r))
<1> DEFINE left == ChangedExits(c.exits, r)
<1>1. IsCatalogue(c) /\ c.exits \in Seq(ExitRecords) /\ UniqueIds(c.exits)
  BY DEF GoodCatalogue
<1>2. UpdateExit(c, r).exits = left
  <2>1. \E d : UpdateExit(c, r) = WithDefault(WithExits(c, left), d)
    BY Zenon DEF UpdateExit, WithExits, WithDefault
  <2> HIDE DEF left
  <2> QED  BY <1>1, <2>1, TwoParts
<1>3. \A e \in ExitRecords : ChangedExit(e, r) \in ExitRecords /\ ChangedExit(e, r).id = e.id
  BY ChangedRecord
<1>4. /\ left \in Seq(ExitRecords) /\ DOMAIN left = DOMAIN c.exits
      /\ \A i \in DOMAIN c.exits : left[i].id = c.exits[i].id
  <2>1. /\ DOMAIN c.exits = 1..Len(c.exits) /\ Len(c.exits) \in Nat
        /\ \A i \in DOMAIN c.exits : c.exits[i] \in ExitRecords
    BY <1>1, RecordsAre
  <2>2. left = [i \in 1..Len(c.exits) |-> IF c.exits[i].id # r.id THEN c.exits[i]
                                          ELSE ChangedExit(c.exits[i], r)]
    BY <2>1 DEF ChangedExits
  <2>3. \A i \in 1..Len(c.exits) : left[i] \in ExitRecords /\ left[i].id = c.exits[i].id
    BY <1>3, <2>1, <2>2
  <2>4. left = [i \in 1..Len(c.exits) |-> left[i]] /\ DOMAIN left = 1..Len(c.exits)
    BY <2>2
  <2> HIDE DEF left
  <2>5. left \in [1..Len(c.exits) -> ExitRecords]
    BY <2>3, <2>4
  <2>6. left \in Seq(ExitRecords)
    BY <2>1, <2>5
  <2> QED  BY <2>1, <2>3, <2>4, <2>6
<1> HIDE DEF left
<1>5. UniqueIds(left)
  BY <1>1, <1>4 DEF UniqueIds
<1> QED  BY <1>1, <1>2, <1>4, <1>5, UpdateKeeps DEF GoodCatalogue

(* One that is deleted leaves the others, and only its id is gone.          *)
LEMMA DeleteGood ==
    ASSUME NEW c, NEW r, GoodCatalogue(c), r.id \in ExitIds(c),
           ConsistentConfig(DeleteExit(c, r))
    PROVE  /\ GoodCatalogue(DeleteExit(c, r))
           /\ ExitIds(DeleteExit(c, r)) = ExitIds(c) \ {r.id}
<1> DEFINE k == CHOOSE i \in DOMAIN c.exits : c.exits[i].id = r.id
           left == WithoutPosition(c.exits, k)
<1>1. IsCatalogue(c) /\ c.exits \in Seq(ExitRecords) /\ UniqueIds(c.exits)
  BY DEF GoodCatalogue
<1>2. k \in DOMAIN c.exits /\ c.exits[k].id = r.id
  <2>1. \E i \in DOMAIN c.exits : c.exits[i].id = r.id
    BY DEF ExitIds
  <2> QED  BY <2>1, Zenon
<1>3. DeleteExit(c, r).exits = left
  <2>1. \E d : DeleteExit(c, r)
                 = WithChoices(WithDefault(WithExits(c, left), d), WithoutExit(c, r.id))
    BY Zenon DEF DeleteExit, WithExits, WithDefault, WithChoices
  <2> HIDE DEF left
  <2> QED  BY <1>1, <2>1, TwoParts
<1> HIDE DEF k
<1>4. k \in 1..Len(c.exits) /\ Len(c.exits) \in Nat
  BY <1>1, <1>2
<1>5. /\ left \in Seq(ExitRecords) /\ Len(left) = Len(c.exits) - 1
      /\ \A i \in 1..(Len(c.exits) - 1) : left[i] = IF i < k THEN c.exits[i] ELSE c.exits[i + 1]
  BY <1>1, <1>4, PositionGone
<1> HIDE DEF left
<1>6. DOMAIN left = 1..(Len(c.exits) - 1) /\ DOMAIN c.exits = 1..Len(c.exits)
  BY <1>1, <1>5, RecordsAre
<1>11. \A i \in DOMAIN left : \E j \in DOMAIN c.exits :
          j # k /\ left[i] = c.exits[j] /\ j = (IF i < k THEN i ELSE i + 1)
  <2> TAKE i \in DOMAIN left
  <2>1. CASE i < k
    BY <1>4, <1>5, <1>6, <2>1
  <2>2. CASE ~(i < k)
    <3>1. i + 1 \in DOMAIN c.exits /\ i + 1 # k /\ left[i] = c.exits[i + 1]
      BY <1>4, <1>5, <1>6, <2>2
    <3> QED  BY <2>2, <3>1
  <2> QED  BY <2>1, <2>2
<1>7. UniqueIds(left)
  <2> SUFFICES ASSUME NEW i \in DOMAIN left, NEW j \in DOMAIN left, left[i].id = left[j].id
               PROVE  i = j
    BY DEF UniqueIds
  <2>1. PICK m \in DOMAIN c.exits : left[i] = c.exits[m] /\ m = IF i < k THEN i ELSE i + 1
    BY <1>11
  <2>2. PICK n \in DOMAIN c.exits : left[j] = c.exits[n] /\ n = IF j < k THEN j ELSE j + 1
    BY <1>11
  <2>3. m = n
    BY <1>1, <2>1, <2>2 DEF UniqueIds
  <2> QED  BY <1>4, <1>6, <2>1, <2>2, <2>3
<1>8. \A i \in DOMAIN left : left[i].id \in ExitIds(c) \ {r.id}
  BY <1>1, <1>2, <1>11 DEF UniqueIds, ExitIds
<1>9. \A i \in DOMAIN c.exits : c.exits[i].id # r.id => \E j \in DOMAIN left : left[j].id = c.exits[i].id
  <2> SUFFICES ASSUME NEW i \in DOMAIN c.exits, c.exits[i].id # r.id
               PROVE  \E j \in DOMAIN left : left[j].id = c.exits[i].id
    OBVIOUS
  <2>1. CASE i < k
    BY <1>4, <1>5, <1>6, <2>1
  <2>2. CASE i > k
    <3>1. i - 1 \in DOMAIN left /\ left[i - 1] = c.exits[i]
      BY <1>4, <1>5, <1>6, <2>2
    <3> QED  BY <3>1
  <2> QED  BY <1>2, <1>4, <1>6, <2>1, <2>2
<1>10. ExitIds(DeleteExit(c, r)) = ExitIds(c) \ {r.id}
  BY <1>3, <1>8, <1>9 DEF ExitIds
<1> QED  BY <1>1, <1>3, <1>5, <1>7, <1>10, DeleteKeeps DEF GoodCatalogue

(* Other operations leave the exits as they are.                            *)
LEMMA SameExits ==
    ASSUME NEW c, NEW d, GoodCatalogue(c), IsCatalogue(d), ConsistentConfig(d),
           d.exits = c.exits
    PROVE  GoodCatalogue(d)
BY DEF GoodCatalogue

(* An operation by its kind.                                                *)
LEMMA AppliedBy ==
    ASSUME NEW c, NEW r
    PROVE  /\ r.op = "exit_add" => Applied(c, r) = AddExit(c, r)
           /\ r.op = "exit_update" => Applied(c, r) = UpdateExit(c, r)
           /\ r.op = "exit_delete" => Applied(c, r) = DeleteExit(c, r)
           /\ r.op \notin {"exit_add", "exit_update", "exit_delete"} =>
                 \/ Applied(c, r) = ApplyAirport(c, r)
                 \/ Applied(c, r) = WithDefault(c, r.id)
                 \/ Applied(c, r) = SetNodeExits(c, r)
<1>1. r.op = "exit_add" => Applied(c, r) = AddExit(c, r)
  BY Zenon DEF Applied
<1>2. r.op = "exit_update" => Applied(c, r) = UpdateExit(c, r)
  BY Zenon DEF Applied
<1>3. r.op = "exit_delete" => Applied(c, r) = DeleteExit(c, r)
  BY Zenon DEF Applied
<1>4. r.op \in {"airport_add", "airport_update", "airport_delete"} =>
         Applied(c, r) = ApplyAirport(c, r)
  BY Zenon DEF Applied
<1>5. r.op = "exit_set_default" => Applied(c, r) = WithDefault(c, r.id)
  BY Zenon DEF Applied, WithDefault
<1>6. r.op \notin {"airport_add", "airport_update", "airport_delete", "exit_add", "exit_update",
                   "exit_set_default", "exit_delete"} => Applied(c, r) = SetNodeExits(c, r)
  BY Zenon DEF Applied
<1> QED  BY <1>1, <1>2, <1>3, <1>4, <1>5, <1>6

(* What the update writes is a catalogue as good as the one before.         *)
LEMMA AppliedGood ==
    ASSUME NEW c, NEW r, GoodCatalogue(c), TypedRequest(r), Operable(c, r),
           ConsistentConfig(Applied(c, r))
    PROVE  GoodCatalogue(Applied(c, r))
<1>0. IsCatalogue(c)
  BY DEF GoodCatalogue
<1>1. CASE r.op = "exit_add"
  BY <1>1, AppliedBy, AddGood
<1>2. CASE r.op = "exit_update"
  BY <1>2, AppliedBy, UpdateGood
<1>3. CASE r.op = "exit_delete"
  <2>1. r.id \in ExitIds(c)
    BY <1>3, Zenon DEF Operable, KnownTarget
  <2> QED  BY <1>3, <2>1, AppliedBy, DeleteGood
<1>4. CASE Applied(c, r) = ApplyAirport(c, r)
  <2>1. \E v : ApplyAirport(c, r) = [c EXCEPT !.airports = v]
    BY Zenon DEF ApplyAirport
  <2>2. PICK v : ApplyAirport(c, r) = [c EXCEPT !.airports = v]
    BY <2>1
  <2>3. [c EXCEPT !.airports = v]
          = [airports |-> v, exits |-> c.exits, default |-> c.default,
             selections |-> c.selections]
    BY <1>0 DEF IsCatalogue
  <2>4. ApplyAirport(c, r).exits = c.exits
    BY <2>2, <2>3
  <2> QED  BY <1>0, <1>4, <2>4, AirportKeeps, SameExits
<1>5. CASE Applied(c, r) = WithDefault(c, r.id)
  <2>1. WithDefault(c, r.id) = [airports |-> c.airports, exits |-> c.exits, default |-> r.id,
                                selections |-> c.selections]
    BY <1>0 DEF IsCatalogue, WithDefault
  <2>2. WithDefault(c, r.id).exits = c.exits
    BY <2>1
  <2> QED  BY <1>0, <1>5, <2>2, OnePart, SameExits
<1>6. CASE Applied(c, r) = SetNodeExits(c, r)
  <2>1. \E v : SetNodeExits(c, r) = WithChoices(c, v)
    BY Zenon DEF SetNodeExits, WithChoices
  <2>2. PICK v : SetNodeExits(c, r) = WithChoices(c, v)
    BY <2>1
  <2>3. WithChoices(c, v) = [airports |-> c.airports, exits |-> c.exits,
                             default |-> c.default, selections |-> v]
    BY <1>0 DEF IsCatalogue, WithChoices
  <2>4. SetNodeExits(c, r).exits = c.exits
    BY <2>2, <2>3
  <2> QED  BY <1>0, <1>6, <2>4, SetKeeps, SameExits
<1> QED  BY <1>1, <1>2, <1>3, <1>4, <1>5, <1>6, AppliedBy

(* Whatever is previewed is a request that can be applied.                  *)
LEMMA RequestsTyped ==
    ASSUME NEW r \in AirportRequests \cup ExitRequests \cup SelectionRequests
    PROVE  TypedRequest(r)
<1>1. \A op, i, n, on : AirportRequest(op, i, n, on).op = op
  BY DEF AirportRequest, PxRequest
<1>2. \A op, i, n, k, f : /\ ExitRequest(op, i, n, k, f).op = op
                          /\ ExitRequest(op, i, n, k, f).name = n
                          /\ ExitRequest(op, i, n, k, f).kind = k
  BY DEF ExitRequest, PxRequest
<1>3. \A n, S : SelectionRequest(n, S).op = "node_exits_set"
  BY DEF SelectionRequest, PxRequest
<1>4. ASSUME NEW op \in {"airport_add", "airport_update", "airport_delete"},
             NEW i, NEW n, NEW on
      PROVE  TypedRequest(AirportRequest(op, i, n, on))
  <2>1. AirportRequest(op, i, n, on).op \notin {"exit_add", "exit_update"}
    BY <1>1
  <2> QED  BY <2>1 DEF TypedRequest
<1>5. ASSUME NEW n \in ExitNames, NEW k \in {"socks5", "other"}, NEW f
      PROVE  TypedRequest(ExitRequest("exit_add", NoExit, n, k, f))
  <2>1. /\ ExitRequest("exit_add", NoExit, n, k, f).op = "exit_add"
        /\ ExitRequest("exit_add", NoExit, n, k, f).name \in ExitNames
        /\ ExitRequest("exit_add", NoExit, n, k, f).kind \in {"socks5", "other"}
    BY <1>2
  <2> QED  BY <2>1 DEF TypedRequest
<1>6. ASSUME NEW n \in ExitNames, NEW k \in {"kept", "socks5"}, NEW i, NEW f
      PROVE  TypedRequest(ExitRequest("exit_update", i, n, k, f))
  <2>1. /\ ExitRequest("exit_update", i, n, k, f).op = "exit_update"
        /\ ExitRequest("exit_update", i, n, k, f).name = n
        /\ ExitRequest("exit_update", i, n, k, f).kind = k
    BY <1>2
  <2> QED  BY <2>1 DEF TypedRequest
<1>7. ASSUME NEW op \in {"exit_delete", "exit_set_default"}, NEW i, NEW n, NEW k, NEW f
      PROVE  TypedRequest(ExitRequest(op, i, n, k, f))
  <2>1. ExitRequest(op, i, n, k, f).op \notin {"exit_add", "exit_update"}
    BY <1>2
  <2> QED  BY <2>1 DEF TypedRequest
<1>8. ASSUME NEW n, NEW S
      PROVE  TypedRequest(SelectionRequest(n, S))
  <2>1. SelectionRequest(n, S).op \notin {"exit_add", "exit_update"}
    BY <1>3
  <2> QED  BY <2>1 DEF TypedRequest
<1>9. CASE r \in AirportRequests
  <2> DEFINE Add == {AirportRequest("airport_add", NoExit, n, on) :
                       n \in AirportNames, on \in BOOLEAN}
             Change == {AirportRequest("airport_update", a.id, n, PxRequest.on) :
                          a \in pxConfig.airports, n \in AirportNames}
             Drop == {AirportRequest("airport_delete", a.id, PxRequest.name.token, PxRequest.on) :
                        a \in pxConfig.airports}
  <2>1. r \in Add \cup Change \cup Drop
    BY <1>9 DEF AirportRequests
  <2>2. CASE r \in Add
    BY <1>4, <2>2
  <2>3. CASE r \in Change
    BY <1>4, <2>3
  <2>4. CASE r \in Drop
    BY <1>4, <2>4
  <2> HIDE DEF Add, Change, Drop
  <2> QED  BY <2>1, <2>2, <2>3, <2>4
<1>10. CASE r \in ExitRequests
  <2> DEFINE Add == {ExitRequest("exit_add", NoExit, n, k, f) :
                       n \in ExitNames, k \in {"socks5", "other"}, f \in BOOLEAN}
             Change == {ExitRequest("exit_update", id, n, k, PxRequest.first) :
                          id \in ExitIds(pxConfig), n \in ExitNames, k \in {"kept", "socks5"}}
             Other == {ExitRequest(op, id, PxRequest.name, "kept", PxRequest.first) :
                         op \in {"exit_delete", "exit_set_default"}, id \in ExitIds(pxConfig)}
  <2>1. r \in Add \cup Change \cup Other
    BY <1>10 DEF ExitRequests
  <2>2. CASE r \in Add
    BY <1>5, <2>2
  <2>3. CASE r \in Change
    BY <1>6, <2>3
  <2>4. CASE r \in Other
    BY <1>7, <2>4
  <2> HIDE DEF Add, Change, Other
  <2> QED  BY <2>1, <2>2, <2>3, <2>4
<1>11. CASE r \in SelectionRequests
  BY <1>8, <1>11 DEF SelectionRequests
<1> QED  BY <1>9, <1>10, <1>11

(* The host starts with an airport and two exits.                           *)
LEMMA PxTypedAtStart == ProxyInit => PxTypeInv
<1> SUFFICES ASSUME ProxyInit PROVE PxTypeInv
  OBVIOUS
<1>1. PICK first \in ExitNames, second \in ExitNames, own \in {{}} \cup {{n} : n \in ProxyNodes} :
        /\ first.token \notin {second.token, "none"} /\ second.token # "none"
        /\ pxConfig = [airports |-> {[id |-> 1, name |-> a, on |-> TRUE] : a \in
                                         {CHOOSE x \in AirportNames : TRUE}},
                       exits |-> <<[id |-> 1, name |-> first, kind |-> "socks5"],
                                   [id |-> 2, name |-> second, kind |-> "socks5"]>>,
                       default |-> 1, selections |-> [n \in own |-> {2}]]
  BY DEF ProxyInit
<1> DEFINE one == [id |-> 1, name |-> first, kind |-> "socks5"]
           two == [id |-> 2, name |-> second, kind |-> "socks5"]
           air == [id |-> 1, name |-> CHOOSE x \in AirportNames : TRUE, on |-> TRUE]
<1>2. /\ pxConfig.exits = <<one, two>> /\ pxConfig.default = 1
      /\ pxConfig.selections = [n \in own |-> {2}]
      /\ IsCatalogue(pxConfig)
  BY <1>1 DEF IsCatalogue
<1>3. pxConfig.airports = {air}
  BY <1>1
<1>4. one \in ExitRecords /\ two \in ExitRecords
  <2>1. 1 \in 1..MaxExits /\ 2 \in 1..MaxExits
    BY ProxyAssumption
  <2> QED  BY <1>1, <2>1 DEF ExitRecords
<1>5. /\ one.id = 1 /\ two.id = 2 /\ one.name = first /\ two.name = second
  OBVIOUS
<1> HIDE DEF one, two, air
<1>6. /\ pxConfig.exits \in Seq(ExitRecords) /\ Len(pxConfig.exits) = 2
      /\ DOMAIN pxConfig.exits = {1, 2}
      /\ pxConfig.exits[1] = one /\ pxConfig.exits[2] = two
  BY <1>2, <1>4
<1>7. UniqueIds(pxConfig.exits)
  BY <1>5, <1>6 DEF UniqueIds
<1>8. ExitIds(pxConfig) = {1, 2}
  BY <1>5, <1>6 DEF ExitIds
<1>9. ConsistentConfig(pxConfig)
  <2>1. NamesAreUnique(pxConfig)
    BY <1>1, <1>3, <1>5, <1>6 DEF NamesAreUnique, PublishToken
  <2>2. Cardinality(pxConfig.airports) <= MaxAirports
    <3>1. Cardinality({air}) = 1
      BY FS_Singleton
    <3> QED  BY <1>3, <3>1, ProxyAssumption
  <2>3. Len(pxConfig.exits) <= MaxExits
    BY <1>6, ProxyAssumption
  <2>4. pxConfig.exits # <<>>
    BY <1>2
  <2>5. \A n \in DOMAIN pxConfig.selections : pxConfig.selections[n] \subseteq ExitIds(pxConfig)
    BY <1>2, <1>8
  <2> QED  BY <1>2, <1>8, <2>1, <2>2, <2>3, <2>4, <2>5 DEF ConsistentConfig
<1>10. GoodCatalogue(pxConfig)
  BY <1>2, <1>6, <1>7, <1>9 DEF GoodCatalogue
<1>11. /\ pxRelay = Identities(pxConfig) /\ pxPublished = Identities(pxConfig)
       /\ pxTasks = {} /\ pxScript.step = "none"
  BY DEF ProxyInit, NoProxyScript
<1> QED  BY <1>10, <1>11, IdentitiesTyped DEF PxTypeInv

(* Catalogues that are written back were good before.                       *)
LEMMA PxTypedStep ==
    ASSUME PxInv, PxTypeInv, [ProxyNext]_proxyVars
    PROVE  PxTypeInv'
<1>0. /\ GoodCatalogue(pxConfig)
      /\ pxScript.step \in {"relay", "publish"} => GoodCatalogue(pxScript.old)
      /\ pxRelay \in Identified /\ pxPublished \in Identified
      /\ \A t \in pxTasks : TypedRequest(t.request)
      /\ pxScript = [step |-> pxScript.step, old |-> pxScript.old]
      /\ Identities(pxConfig) \in Identified
  BY IdentitiesTyped DEF PxTypeInv, PxInv, PxScriptInv
<1>1. CASE UNCHANGED proxyVars
  BY <1>0, <1>1 DEF PxTypeInv, proxyVars, Identified
<1>2. CASE PreviewProxy
  <2>1. PICK r \in AirportRequests \cup ExitRequests \cup SelectionRequests :
           pxTasks' = pxTasks \cup {[request |-> r, seen |-> ProxyOverview]}
    BY <1>2 DEF PreviewProxy
  <2>2. UNCHANGED <<pxConfig, pxRelay, pxPublished, pxScript>>
    BY <1>2 DEF PreviewProxy
  <2>3. \A t \in pxTasks' : TypedRequest(t.request)
    BY <1>0, <2>1, RequestsTyped
  <2> QED  BY <1>0, <2>2, <2>3 DEF PxTypeInv, Identified
<1>3. CASE InvalidateProxy
  <2>1. /\ pxTasks' \subseteq pxTasks
        /\ UNCHANGED <<pxConfig, pxRelay, pxPublished, pxScript>>
    BY <1>3 DEF InvalidateProxy
  <2> QED  BY <1>0, <2>1 DEF PxTypeInv, Identified
<1>4. CASE WriteProxy
  <2>1. PICK t \in pxTasks :
          /\ pxTasks' = pxTasks \ {t}
          /\ \/ /\ Operable(pxConfig, t.request)
                /\ ConsistentConfig(Applied(pxConfig, t.request))
                /\ pxConfig' = Applied(pxConfig, t.request)
                /\ pxScript' = [step |-> "relay", old |-> pxConfig]
             \/ UNCHANGED <<pxConfig, pxScript>>
    BY <1>4 DEF WriteProxy
  <2>2. UNCHANGED <<pxRelay, pxPublished>>
    BY <1>4 DEF WriteProxy
  <2>3. GoodCatalogue(pxConfig')
    BY <1>0, <2>1, AppliedGood
  <2>4. pxScript'.step \in {"relay", "publish"} => GoodCatalogue(pxScript'.old)
    BY <1>0, <2>1
  <2> QED  BY <1>0, <2>1, <2>2, <2>3, <2>4 DEF PxTypeInv, Identified
<1>5. CASE RefreshRelay
  <2>1. /\ pxScript.step = "relay" /\ UNCHANGED <<pxPublished, pxTasks>>
        /\ \/ /\ pxRelay' = Identities(pxConfig) /\ pxConfig' = pxConfig
              /\ pxScript' = [pxScript EXCEPT !.step = "publish"]
           \/ /\ pxConfig' = pxScript.old /\ pxRelay' = pxRelay
              /\ pxScript' = [pxScript EXCEPT !.step = "undo"]
    BY <1>5 DEF RefreshRelay
  <2>2. pxScript'.step = "undo" \/ pxScript'.old = pxScript.old
    BY <1>0, <2>1
  <2>3. GoodCatalogue(pxConfig') /\ GoodCatalogue(pxScript.old)
    BY <1>0, <2>1
  <2> QED  BY <1>0, <2>1, <2>2, <2>3 DEF PxTypeInv, Identified
<1>6. CASE UndoRelay
  <2>1. /\ UNCHANGED <<pxConfig, pxPublished, pxTasks>> /\ pxScript' = NoProxyScript
        /\ pxRelay' = Identities(pxConfig) \/ pxRelay' = pxRelay
    BY <1>6 DEF UndoRelay
  <2>2. pxScript'.step = "none"
    BY <2>1 DEF NoProxyScript
  <2> QED  BY <1>0, <2>1, <2>2 DEF PxTypeInv, Identified
<1>7. CASE PublishProxy
  <2>1. /\ pxScript.step = "publish" /\ UNCHANGED <<pxRelay, pxTasks>>
        /\ \/ /\ pxPublished' = Identities(pxConfig) /\ pxScript' = NoProxyScript
              /\ pxConfig' = pxConfig
           \/ /\ pxConfig' = pxScript.old /\ pxScript' = AfterPublishFailed
              /\ pxPublished' = pxPublished
    BY <1>7 DEF PublishProxy
  <2>2. pxScript'.step \in {"none", "undo"}
    BY <1>0, <2>1 DEF NoProxyScript, AfterPublishFailed
  <2>3. GoodCatalogue(pxConfig')
    BY <1>0, <2>1
  <2> QED  BY <1>0, <2>1, <2>2, <2>3 DEF PxTypeInv, Identified
<1>8. CASE KillProxy
  <2>1. UNCHANGED <<pxConfig, pxRelay, pxPublished, pxTasks>> /\ pxScript' = NoProxyScript
    BY <1>8 DEF KillProxy
  <2>2. pxScript'.step = "none"
    BY <2>1 DEF NoProxyScript
  <2> QED  BY <1>0, <2>1, <2>2 DEF PxTypeInv, Identified
<1> QED  BY <1>1, <1>2, <1>3, <1>4, <1>5, <1>6, <1>7, <1>8 DEF ProxyNext

(* The catalogue is always one the whole check accepts, and nobody is given *)
(* an exit beyond the limit.                                                *)
THEOREM ProxyTypesCorrect == ProxySpec => []ProxyTypeOK
<1>1. PxTypeInv => ProxyTypeOK
  BY DEF PxTypeInv, ProxyTypeOK, GoodCatalogue, Identified
<1> QED  BY <1>1, PxTypedAtStart, PxTypedStep, PxInvariance, PTL DEF ProxySpec
-----------------------------------------------------------------------------
(* Services and links                                                      *)

(* The step a script is at.                                                *)
SvNowOf(s) == IF s = <<>> THEN "" ELSE Head(s)

SvNow == SvNowOf(svShell.steps)

(* What is left of every script.                                           *)
AddRest == {<<"load", "copy", "write", "restart">>, <<"copy", "write", "restart">>,
            <<"write", "restart">>, <<"restart">>, <<>>}

DeleteRest == {<<"load", "write", "restart", "purge">>, <<"write", "restart", "purge">>,
               <<"restart", "purge">>, <<"purge">>, <<>>}

DeployRest == {<<"payload", "config", "enable">>, <<"config", "enable">>, <<"enable">>, <<>>}

OneRest == {<<"install">>, <<"systemctl">>, <<>>}

SvIds == UploadFiles \cup {"shared"}

AllLinks == [id : SvIds, generation : Nat]

SvStates == {"absent", "stopped", "running", "failed"}

(* Every link has its file.                                                *)
HaveFiles(links) == \A d \in links : d.id \in svPayloads

SvShape ==
    /\ svServices \in [SvNames -> [state : SvStates, port : TcpPorts \cup {0}]]
    /\ svDownloads \subseteq AllLinks /\ svServed \subseteq AllLinks
    /\ svShell.loaded \subseteq AllLinks
    /\ svUploads \subseteq UploadFiles
    /\ svGeneration \in Nat
    /\ svMenu = <<>> \/ \E L \in SUBSET AllLinks : svMenu = <<L>> /\ HaveFiles(L)
    /\ svShell = [steps |-> svShell.steps, task |-> svShell.task, loaded |-> svShell.loaded]
    /\ svShell.steps = <<>> \/ svMenu = <<>>

(* A preview of an addition has found its upload, one of a deployment has  *)
(* found nothing installed.                                                *)
SvTaskInv ==
    \A r \in svTasks :
        /\ r.task.op \in {"add", "delete", "deploy", "start", "stop", "restart"}
        /\ r.task.service \in SvNames /\ r.task.port \in TcpPorts \cup {0}
        /\ r.task.op = "add" => r.digest.present /\ r.task.file \in UploadFiles
        /\ r.task.op = "deploy" => r.digest.services[r.task.service].state = "absent"

SvScriptInv ==
    /\ svShell.task.op = "add" => svShell.steps \in AddRest
    /\ svShell.task.op = "delete" => svShell.steps \in DeleteRest
    /\ svShell.task.op = "deploy" /\ svShell.task.service = "file" => svShell.steps \in DeployRest
    /\ svShell.task.op = "deploy" /\ svShell.task.service # "file" =>
          svShell.steps \in {<<"install">>, <<>>}
    /\ svShell.task.op \in {"start", "stop", "restart"} => svShell.steps \in {<<"systemctl">>, <<>>}
    /\ svShell.task.op \in {"none", "add", "delete", "deploy", "start", "stop", "restart"}
    /\ svShell.task.op = "none" => svShell.steps = <<>>
    /\ svShell.task.op # "none" =>
          svShell.task.service \in SvNames /\ svShell.task.port \in TcpPorts \cup {0}
    /\ svShell.task.op = "add" => svShell.task.file \in UploadFiles

SvFilesInv ==
    /\ HaveFiles(svDownloads) /\ HaveFiles(svServed)
    /\ svServices["file"].state # "running" => svServed = {}
    /\ \A f \in svUploads \cap svPayloads :
          svShell.task.op = "add" /\ SvNow = "write" /\ f = svShell.task.file
    /\ SvNow \in {"copy", "write", "restart"} => HaveFiles(svShell.loaded)
    /\ svShell.task.op = "add" =>
          /\ SvNow \in {"load", "copy"} => svShell.task.file \notin svPayloads
          /\ SvNow \in {"write", "restart"} => svShell.task.file \in svPayloads
          /\ SvNow \in {"copy", "write", "restart"} =>
                \A d \in svShell.loaded : d.id # svShell.task.file
    /\ svShell.task.op = "delete" =>
          /\ SvNow \in {"restart", "purge"} => \A d \in svDownloads : d.id # svShell.task.file
          /\ SvNow = "purge" => \A d \in svServed : d.id # svShell.task.file
    /\ SvNow \in {"payload", "config"} => svServices["file"].state = "absent"
    /\ SvNow = "config" => "shared" \in svPayloads
    /\ SvNow = "enable" => svServices["file"].state = "stopped"

SvInv == SvShape /\ SvTaskInv /\ SvScriptInv /\ SvFilesInv
-----------------------------------------------------------------------------
(* The tails of the scripts, one by one.                                   *)
LEMMA AddScript ==
    ASSUME NEW s \in AddRest, s # <<>>
    PROVE  /\ Tail(s) \in AddRest
           /\ \/ SvNowOf(s) = "load" /\ SvNowOf(Tail(s)) = "copy"
              \/ SvNowOf(s) = "copy" /\ SvNowOf(Tail(s)) = "write"
              \/ SvNowOf(s) = "write" /\ SvNowOf(Tail(s)) = "restart"
              \/ SvNowOf(s) = "restart" /\ Tail(s) = <<>> /\ SvNowOf(Tail(s)) = ""
<1>1. CASE s = <<"load", "copy", "write", "restart">>
  <2>1. Tail(s) = <<"copy", "write", "restart">> /\ SvNowOf(s) = "load"
    BY <1>1 DEF SvNowOf
  <2>2. SvNowOf(<<"copy", "write", "restart">>) = "copy"
    BY DEF SvNowOf
  <2> QED  BY <2>1, <2>2 DEF AddRest
<1>2. CASE s = <<"copy", "write", "restart">>
  <2>1. Tail(s) = <<"write", "restart">> /\ SvNowOf(s) = "copy"
    BY <1>2 DEF SvNowOf
  <2>2. SvNowOf(<<"write", "restart">>) = "write"
    BY DEF SvNowOf
  <2> QED  BY <2>1, <2>2 DEF AddRest
<1>3. CASE s = <<"write", "restart">>
  <2>1. Tail(s) = <<"restart">> /\ SvNowOf(s) = "write"
    BY <1>3 DEF SvNowOf
  <2>2. SvNowOf(<<"restart">>) = "restart"
    BY DEF SvNowOf
  <2> QED  BY <2>1, <2>2 DEF AddRest
<1>4. CASE s = <<"restart">>
  <2>1. Tail(s) = <<>> /\ SvNowOf(s) = "restart"
    BY <1>4 DEF SvNowOf
  <2>2. SvNowOf(<<>>) = ""
    BY DEF SvNowOf
  <2> QED  BY <2>1, <2>2 DEF AddRest
<1> QED  BY <1>1, <1>2, <1>3, <1>4 DEF AddRest

(* What is left of a deletion, and its next step.                           *)
LEMMA DeleteScript ==
    ASSUME NEW s \in DeleteRest, s # <<>>
    PROVE  /\ Tail(s) \in DeleteRest
           /\ \/ SvNowOf(s) = "load" /\ SvNowOf(Tail(s)) = "write"
              \/ SvNowOf(s) = "write" /\ SvNowOf(Tail(s)) = "restart"
              \/ SvNowOf(s) = "restart" /\ SvNowOf(Tail(s)) = "purge"
              \/ SvNowOf(s) = "purge" /\ Tail(s) = <<>> /\ SvNowOf(Tail(s)) = ""
<1>1. CASE s = <<"load", "write", "restart", "purge">>
  <2>1. Tail(s) = <<"write", "restart", "purge">> /\ SvNowOf(s) = "load"
    BY <1>1 DEF SvNowOf
  <2>2. SvNowOf(<<"write", "restart", "purge">>) = "write"
    BY DEF SvNowOf
  <2> QED  BY <2>1, <2>2 DEF DeleteRest
<1>2. CASE s = <<"write", "restart", "purge">>
  <2>1. Tail(s) = <<"restart", "purge">> /\ SvNowOf(s) = "write"
    BY <1>2 DEF SvNowOf
  <2>2. SvNowOf(<<"restart", "purge">>) = "restart"
    BY DEF SvNowOf
  <2> QED  BY <2>1, <2>2 DEF DeleteRest
<1>3. CASE s = <<"restart", "purge">>
  <2>1. Tail(s) = <<"purge">> /\ SvNowOf(s) = "restart"
    BY <1>3 DEF SvNowOf
  <2>2. SvNowOf(<<"purge">>) = "purge"
    BY DEF SvNowOf
  <2> QED  BY <2>1, <2>2 DEF DeleteRest
<1>4. CASE s = <<"purge">>
  <2>1. Tail(s) = <<>> /\ SvNowOf(s) = "purge"
    BY <1>4 DEF SvNowOf
  <2>2. SvNowOf(<<>>) = ""
    BY DEF SvNowOf
  <2> QED  BY <2>1, <2>2 DEF DeleteRest
<1> QED  BY <1>1, <1>2, <1>3, <1>4 DEF DeleteRest

(* What is left of the first deployment of the file service.                *)
LEMMA DeployScriptRest ==
    ASSUME NEW s \in DeployRest, s # <<>>
    PROVE  /\ Tail(s) \in DeployRest
           /\ \/ SvNowOf(s) = "payload" /\ SvNowOf(Tail(s)) = "config"
              \/ SvNowOf(s) = "config" /\ SvNowOf(Tail(s)) = "enable"
              \/ SvNowOf(s) = "enable" /\ Tail(s) = <<>> /\ SvNowOf(Tail(s)) = ""
<1>2. CASE s = <<"payload", "config", "enable">>
  <2>1. Tail(s) = <<"config", "enable">> /\ SvNowOf(s) = "payload"
    BY <1>2 DEF SvNowOf
  <2>2. SvNowOf(<<"config", "enable">>) = "config"
    BY DEF SvNowOf
  <2> QED  BY <2>1, <2>2 DEF DeployRest
<1>3. CASE s = <<"config", "enable">>
  <2>1. Tail(s) = <<"enable">> /\ SvNowOf(s) = "config"
    BY <1>3 DEF SvNowOf
  <2>2. SvNowOf(<<"enable">>) = "enable"
    BY DEF SvNowOf
  <2> QED  BY <2>1, <2>2 DEF DeployRest
<1>4. CASE s = <<"enable">>
  <2>1. Tail(s) = <<>> /\ SvNowOf(s) = "enable"
    BY <1>4 DEF SvNowOf
  <2>2. SvNowOf(<<>>) = ""
    BY DEF SvNowOf
  <2> QED  BY <2>1, <2>2 DEF DeployRest
<1> QED  BY <1>2, <1>3, <1>4 DEF DeployRest

(* A deployment of another service is one step.                             *)
LEMMA InstallOnly ==
    ASSUME NEW s, s \in {<<"install">>, <<>>}, s # <<>>
    PROVE  Tail(s) = <<>> /\ SvNowOf(s) = "install" /\ SvNowOf(Tail(s)) = ""
<1>1. s = <<"install">>
  OBVIOUS
<1>2. Tail(s) = <<>> /\ SvNowOf(s) = "install"
  BY <1>1 DEF SvNowOf
<1> QED  BY <1>2 DEF SvNowOf

(* So is a start, a stop or a restart.                                      *)
LEMMA SystemctlOnly ==
    ASSUME NEW s, s \in {<<"systemctl">>, <<>>}, s # <<>>
    PROVE  Tail(s) = <<>> /\ SvNowOf(s) = "systemctl" /\ SvNowOf(Tail(s)) = ""
<1>1. s = <<"systemctl">>
  OBVIOUS
<1>2. Tail(s) = <<>> /\ SvNowOf(s) = "systemctl"
  BY <1>1 DEF SvNowOf
<1> QED  BY <1>2 DEF SvNowOf

(* What a script is at, and what comes next.                               *)
LEMMA SvGoing ==
    ASSUME SvScriptInv, svShell.steps # <<>>
    PROVE  LET op == svShell.task.op
               next == SvNowOf(Tail(svShell.steps))
           IN \/ op = "add" /\ SvNow = "load" /\ next = "copy"
              \/ op = "add" /\ SvNow = "copy" /\ next = "write"
              \/ op = "add" /\ SvNow = "write" /\ next = "restart"
              \/ op = "add" /\ SvNow = "restart" /\ next = ""
              \/ op = "delete" /\ SvNow = "load" /\ next = "write"
              \/ op = "delete" /\ SvNow = "write" /\ next = "restart"
              \/ op = "delete" /\ SvNow = "restart" /\ next = "purge"
              \/ op = "delete" /\ SvNow = "purge" /\ next = ""
              \/ /\ op = "deploy" /\ svShell.task.service = "file"
                 /\ \/ SvNow = "payload" /\ next = "config"
                    \/ SvNow = "config" /\ next = "enable"
                    \/ SvNow = "enable" /\ next = ""
              \/ /\ op = "deploy" /\ svShell.task.service # "file"
                 /\ SvNow = "install" /\ next = ""
              \/ op \in {"start", "stop", "restart"} /\ SvNow = "systemctl" /\ next = ""
<1>1. CASE svShell.task.op = "add"
  BY <1>1, AddScript DEF SvScriptInv, SvNow
<1>2. CASE svShell.task.op = "delete"
  BY <1>2, DeleteScript DEF SvScriptInv, SvNow
<1>3. CASE svShell.task.op = "deploy" /\ svShell.task.service = "file"
  BY <1>3, DeployScriptRest DEF SvScriptInv, SvNow
<1>4. CASE svShell.task.op = "deploy" /\ svShell.task.service # "file"
  <2>1. svShell.steps \in {<<"install">>, <<>>}
    BY <1>4 DEF SvScriptInv
  <2>2. SvNowOf(svShell.steps) = "install" /\ SvNowOf(Tail(svShell.steps)) = ""
    BY <2>1, InstallOnly
  <2> QED  BY <1>4, <2>2 DEF SvNow
<1>5. CASE svShell.task.op \in {"start", "stop", "restart"}
  <2>1. svShell.steps \in {<<"systemctl">>, <<>>}
    BY <1>5 DEF SvScriptInv
  <2>2. SvNowOf(svShell.steps) = "systemctl" /\ SvNowOf(Tail(svShell.steps)) = ""
    BY <2>1, SystemctlOnly
  <2> QED  BY <1>5, <2>2 DEF SvNow
<1> QED  BY <1>1, <1>2, <1>3, <1>4, <1>5 DEF SvScriptInv

(* A step taken leaves the rest of the same script.                        *)
LEMMA SvRest ==
    ASSUME SvScriptInv, svShell.steps # <<>>,
           svShell'.task = svShell.task, svShell'.steps = Tail(svShell.steps)
    PROVE  SvScriptInv' /\ SvNow' = SvNowOf(Tail(svShell.steps))
<1>1. svShell.task.op = "add" => svShell'.steps \in AddRest
  BY AddScript DEF SvScriptInv
<1>2. svShell.task.op = "delete" => svShell'.steps \in DeleteRest
  BY DeleteScript DEF SvScriptInv
<1>3. svShell.task.op = "deploy" /\ svShell.task.service = "file" => svShell'.steps \in DeployRest
  BY DeployScriptRest DEF SvScriptInv
<1>4. svShell.task.op = "deploy" /\ svShell.task.service # "file" => svShell'.steps = <<>>
  <2> HAVE svShell.task.op = "deploy" /\ svShell.task.service # "file"
  <2>1. svShell.steps \in {<<"install">>, <<>>}
    BY DEF SvScriptInv
  <2> QED  BY <2>1, InstallOnly
<1>5. svShell.task.op \in {"start", "stop", "restart"} => svShell'.steps = <<>>
  <2> HAVE svShell.task.op \in {"start", "stop", "restart"}
  <2>1. svShell.steps \in {<<"systemctl">>, <<>>}
    BY DEF SvScriptInv
  <2> QED  BY <2>1, SystemctlOnly
<1>6. svShell.task.op # "none"
  BY DEF SvScriptInv
<1>7. SvScriptInv'
  BY <1>1, <1>2, <1>3, <1>4, <1>5, <1>6 DEF SvScriptInv, AddRest, DeleteRest, DeployRest, SvNames
<1> QED  BY <1>7 DEF SvNow

(* A script that has ended.                                                *)
LEMMA NothingLeft ==
    ASSUME svShell' = NoSvShell
    PROVE  /\ SvScriptInv' /\ SvNow' = "" /\ svShell'.task.op = "none" /\ svShell'.loaded = {}
           /\ svShell'.steps = <<>>
           /\ svShell' = [steps |-> svShell'.steps, task |-> svShell'.task,
                          loaded |-> svShell'.loaded]
<1>1. /\ svShell'.steps = <<>> /\ svShell'.task.op = "none" /\ svShell'.loaded = {}
      /\ svShell' = [steps |-> svShell'.steps, task |-> svShell'.task, loaded |-> svShell'.loaded]
  BY DEF NoSvShell
<1> QED  BY <1>1 DEF SvScriptInv, SvNow, SvNowOf

(* A step that is due.                                                     *)
LEMMA AtIs ==
    ASSUME NEW x, At(x)
    PROVE  svShell.steps # <<>> /\ SvNow = x
BY DEF At, Idle, SvNow, SvNowOf

(* What a step that is taken leaves of the script.                          *)
LEMMA StepIs ==
    ASSUME SvShape, svShell' = [svShell EXCEPT !.steps = Tail(@)]
    PROVE  /\ svShell'.steps = Tail(svShell.steps) /\ svShell'.task = svShell.task
           /\ svShell'.loaded = svShell.loaded
           /\ svShell' = [steps |-> svShell'.steps, task |-> svShell'.task,
                          loaded |-> svShell'.loaded]
<1>1. svShell' = [steps |-> Tail(svShell.steps), task |-> svShell.task, loaded |-> svShell.loaded]
  BY DEF SvShape
<1> QED  BY <1>1
-----------------------------------------------------------------------------
(* The facts of a task by its kind.                                        *)
LEMMA FactsAre ==
    ASSUME NEW t
    PROVE  /\ t.op = "deploy" => Facts(t) = DeploymentFacts(t)
           /\ t.op = "add" => Facts(t) = FileFacts(t)
<1>1. t.op = "deploy" => Facts(t) = DeploymentFacts(t)
  BY Zenon DEF Facts
<1>2. t.op \in {"add", "delete"} /\ t.op # "deploy" => Facts(t) = FileFacts(t)
  BY Zenon DEF Facts
<1> QED  BY <1>1, <1>2

(* The steps of a task by its kind.                                        *)
LEMMA StepsAre ==
    ASSUME NEW t
    PROVE  /\ t.op = "deploy" /\ t.service = "file" =>
                  StepsOf(t) = <<"payload", "config", "enable">>
           /\ t.op = "deploy" /\ t.service # "file" => StepsOf(t) = <<"install">>
           /\ t.op = "add" => StepsOf(t) = <<"load", "copy", "write", "restart">>
           /\ t.op = "delete" => StepsOf(t) = <<"load", "write", "restart", "purge">>
           /\ t.op \in {"start", "stop", "restart"} => StepsOf(t) = <<"systemctl">>
<1>1. t.op = "deploy" => StepsOf(t) = DeploySteps(t.service)
  BY Zenon DEF StepsOf
<1>2. t.op \in {"add", "delete"} /\ t.op # "deploy" => StepsOf(t) = FileSteps(t.op)
  BY Zenon DEF StepsOf
<1>3. t.op \notin {"add", "delete"} /\ t.op # "deploy" => StepsOf(t) = <<"systemctl">>
  BY Zenon DEF StepsOf
<1> QED  BY <1>1, <1>2, <1>3 DEF DeploySteps, FileSteps

(* At the start no link is there, and no task.                              *)
LEMMA SvInitInv == ServiceInit => SvInv
<1> SUFFICES ASSUME ServiceInit PROVE SvInv
  OBVIOUS
<1> USE DEF ServiceInit
<1>1. SvShape
  BY DEF SvShape, NoSvShell, SvStates
<1>2. SvTaskInv
  BY DEF SvTaskInv
<1>3. SvScriptInv
  BY DEF SvScriptInv, NoSvShell
<1>4. SvNow = ""
  BY DEF SvNow, SvNowOf, NoSvShell
<1>5. svServices["file"].state = "absent"
  BY DEF SvNames
<1>6. SvFilesInv
  BY <1>4, <1>5 DEF SvFilesInv, HaveFiles, NoSvShell
<1> QED  BY <1>1, <1>2, <1>3, <1>6 DEF SvInv

(* A preview adds a task that has found what it needs.                     *)
LEMMA SvPreviewStep == ASSUME SvInv, PreviewAnySv PROVE SvInv'
<1>1. \E op, s, file, port :
         /\ PreviewSv(SvTask(op, s, file, port))
         /\ op \in {"add", "delete", "deploy", "start", "stop", "restart"}
         /\ s \in SvNames /\ port \in TcpPorts \cup {0}
         /\ op = "add" => file \in svUploads
         /\ op = "deploy" => svServices[s].state = "absent"
  <2>1. CASE \E s \in SvNames, q \in TcpPorts, f \in UploadFiles \cup {"none"} :
                PreviewDeployment(s, q, f)
    BY <2>1 DEF PreviewDeployment, SvInstalled
  <2>2. CASE \E op \in {"add", "delete"}, f \in UploadFiles \cup {"shared"} :
                PreviewFileTask(op, f)
    <3>1. PICK op \in {"add", "delete"}, f \in UploadFiles \cup {"shared"} :
             PreviewFileTask(op, f)
      BY <2>2
    <3>2. PreviewSv(SvTask(op, "file", f, 0)) /\ (op = "add" => f \in svUploads)
      BY <3>1 DEF PreviewFileTask, FileRequestValid
    <3>3. op # "deploy" /\ "file" \in SvNames
      BY DEF SvNames
    <3> QED  BY <3>2, <3>3
  <2>3. CASE \E s \in SvNames, op \in {"start", "stop", "restart"} : PreviewServiceChange(s, op)
    <3>1. PICK s \in SvNames, op \in {"start", "stop", "restart"} : PreviewServiceChange(s, op)
      BY <2>3
    <3>2. PreviewSv(SvTask(op, s, "none", 0)) /\ op \notin {"add", "deploy"}
      BY <3>1 DEF PreviewServiceChange
    <3> QED  BY <3>2
  <2> QED  BY <2>1, <2>2, <2>3 DEF PreviewAnySv
<1>2. PICK op, s, file, port :
         /\ PreviewSv(SvTask(op, s, file, port))
         /\ op \in {"add", "delete", "deploy", "start", "stop", "restart"}
         /\ s \in SvNames /\ port \in TcpPorts \cup {0}
         /\ op = "add" => file \in svUploads
         /\ op = "deploy" => svServices[s].state = "absent"
  BY <1>1
<1> DEFINE t == SvTask(op, s, file, port)
<1>3. /\ svTasks' = svTasks \cup {[task |-> StoredTask(t), digest |-> Facts(t),
                                   stored |-> Facts(StoredTask(t))]}
      /\ UNCHANGED <<svServices, svDownloads, svServed, svPayloads, svUploads,
                     svGeneration, svShell, svMenu>>
  BY <1>2 DEF PreviewSv
<1>4. /\ t.op = op /\ t.service = s /\ t.file = file /\ t.port = port
      /\ t = [op |-> op, service |-> s, file |-> file, port |-> port, staged |-> FALSE]
  BY DEF SvTask
<1>5. /\ StoredTask(t).op = op /\ StoredTask(t).service = s
      /\ StoredTask(t).file = file /\ StoredTask(t).port = port
  BY <1>4 DEF StoredTask
<1>6. op = "add" => Facts(t).present
  <2> HAVE op = "add"
  <2>1. Facts(t) = FileFacts(t)
    BY <1>4, FactsAre
  <2>2. t.op = "add" /\ t.file \in svUploads
    BY <1>2, <1>4
  <2> HIDE DEF t
  <2>3. FileFacts(t).present
    BY <2>2 DEF FileFacts
  <2> QED  BY <2>1, <2>3
<1>7. op = "deploy" => Facts(t).services[s].state = "absent"
  <2> HAVE op = "deploy"
  <2>1. Facts(t) = DeploymentFacts(t)
    BY <1>4, FactsAre
  <2> QED  BY <1>2, <1>4, <2>1 DEF DeploymentFacts
<1>8. SvTaskInv'
  <2> DEFINE new == [task |-> StoredTask(t), digest |-> Facts(t),
                     stored |-> Facts(StoredTask(t))]
  <2>1. new.task = StoredTask(t) /\ new.digest = Facts(t)
    OBVIOUS
  <2> HIDE DEF new, t
  <2>2. /\ new.task.op \in {"add", "delete", "deploy", "start", "stop", "restart"}
        /\ new.task.service \in SvNames /\ new.task.port \in TcpPorts \cup {0}
        /\ new.task.op = "add" => new.digest.present /\ new.task.file \in UploadFiles
        /\ new.task.op = "deploy" => new.digest.services[new.task.service].state = "absent"
    BY <1>2, <1>5, <1>6, <1>7, <2>1 DEF SvInv, SvShape
  <2>3. svTasks' = svTasks \cup {new}
    BY <1>3 DEF new
  <2> QED  BY <2>2, <2>3 DEF SvInv, SvTaskInv, SvNames
<1> QED  BY <1>3, <1>8 DEF SvInv, SvShape, SvScriptInv, SvFilesInv, HaveFiles, SvNow

(* An upload is new: no file of a link has its name.                        *)
LEMMA StageUploadStep == ASSUME SvInv, NEW f \in UploadFiles, StageUpload(f) PROVE SvInv'
<1>1. /\ f \notin svPayloads /\ svUploads' = svUploads \cup {f}
      /\ UNCHANGED <<svServices, svDownloads, svServed, svPayloads, svGeneration,
                     svTasks, svShell, svMenu>>
  BY DEF StageUpload
<1> QED  BY <1>1 DEF SvInv, SvShape, SvTaskInv, SvScriptInv, SvFilesInv, HaveFiles, SvNow, SvNames

(* The tasks that are left keep what their previews found.                 *)
LEMMA SvTasksLeft ==
    ASSUME SvTaskInv, svTasks' \subseteq svTasks
    PROVE  SvTaskInv'
BY DEF SvTaskInv, SvNames

(* What a clean-up leaves of the uploads.                                  *)
LEMMA CleanedUp ==
    ASSUME NEW t
    PROVE  /\ AfterCleanup(t) \subseteq svUploads
           /\ t.op = "add" => t.file \notin AfterCleanup(t)
BY DEF AfterCleanup

(* A script begins if the digest of its preview is still true, so its       *)
(* upload is there and has not been copied.                                 *)
LEMMA ExecuteTaskStep ==
    ASSUME SvInv, ~MenuDuringTasks, NEW r \in svTasks, ExecuteTask(r)
    PROVE  SvInv'
<1>1. /\ svShell.steps = <<>> /\ svMenu = <<>> /\ svTasks' = svTasks \ {r}
      /\ UNCHANGED <<svServices, svDownloads, svServed, svPayloads, svGeneration, svMenu>>
  BY DEF ExecuteTask, Idle, MenuIdle
<1>2. SvNow = ""
  BY <1>1 DEF SvNow, SvNowOf
<1>3. svUploads \cap svPayloads = {}
  BY <1>2 DEF SvInv, SvFilesInv
<1>4. SvTaskInv'
  BY <1>1, SvTasksLeft DEF SvInv
<1>5. CASE svUploads' = AfterCleanup(r.task) /\ UNCHANGED svShell
  <2>1. svUploads' \subseteq svUploads /\ SvNow' = SvNow
    BY <1>5, CleanedUp DEF SvNow
  <2>2. SvFilesInv'
    BY <1>1, <1>2, <1>3, <1>5, <2>1 DEF SvInv, SvFilesInv, HaveFiles
  <2> QED  BY <1>1, <1>4, <1>5, <2>1, <2>2 DEF SvInv, SvShape, SvScriptInv, HaveFiles
<1>6. CASE /\ Facts(r.task) = r.digest /\ UNCHANGED svUploads
           /\ svShell' = [steps |-> StepsOf(r.task), task |-> r.task, loaded |-> {}]
  <2>1. /\ svShell'.steps = StepsOf(r.task) /\ svShell'.task = r.task /\ svShell'.loaded = {}
        /\ svShell' = [steps |-> svShell'.steps, task |-> svShell'.task,
                       loaded |-> svShell'.loaded]
    BY <1>6
  <2>2. /\ r.task.op \in {"add", "delete", "deploy", "start", "stop", "restart"}
        /\ r.task.service \in SvNames /\ r.task.port \in TcpPorts \cup {0}
        /\ r.task.op = "add" => r.digest.present /\ r.task.file \in UploadFiles
        /\ r.task.op = "deploy" => r.digest.services[r.task.service].state = "absent"
    BY DEF SvInv, SvTaskInv
  <2>3. r.task.op = "add" => r.task.file \in svUploads
    <3> HAVE r.task.op = "add"
    <3>1. FileFacts(r.task).present
      BY <1>6, <2>2, FactsAre
    <3> QED  BY <3>1 DEF FileFacts
  <2>4. r.task.op = "deploy" => svServices[r.task.service].state = "absent"
    <3> HAVE r.task.op = "deploy"
    <3>1. DeploymentFacts(r.task).services[r.task.service].state = "absent"
      BY <1>6, <2>2, FactsAre
    <3> QED  BY <3>1 DEF DeploymentFacts
  <2>5. SvScriptInv'
    BY <2>1, <2>2, StepsAre
       DEF SvScriptInv, AddRest, DeleteRest, DeployRest, SvNames
  <2>6. /\ r.task.op \in {"add", "delete"} => SvNow' = "load"
        /\ r.task.op = "deploy" /\ r.task.service = "file" => SvNow' = "payload"
        /\ r.task.op = "deploy" /\ r.task.service # "file" => SvNow' = "install"
        /\ r.task.op \in {"start", "stop", "restart"} => SvNow' = "systemctl"
    <3>1. /\ SvNowOf(<<"load", "copy", "write", "restart">>) = "load"
          /\ SvNowOf(<<"load", "write", "restart", "purge">>) = "load"
      BY DEF SvNowOf
    <3>2. /\ SvNowOf(<<"payload", "config", "enable">>) = "payload"
          /\ SvNowOf(<<"install">>) = "install" /\ SvNowOf(<<"systemctl">>) = "systemctl"
      BY DEF SvNowOf
    <3> QED  BY <2>1, <2>2, <3>1, <3>2, StepsAre DEF SvNow
  <2>7. SvShape'
    BY <1>1, <1>6, <2>1 DEF SvInv, SvShape, HaveFiles
  <2>8. SvFilesInv'
    <3>1. (HaveFiles(svDownloads) /\ HaveFiles(svServed)
           /\ (svServices["file"].state # "running" => svServed = {}))'
      BY <1>1 DEF SvInv, SvFilesInv, HaveFiles
    <3>2. SvNow' \in {"load", "payload", "install", "systemctl"}
      BY <2>2, <2>6
    <3>3. r.task.op = "add" => r.task.file \notin svPayloads
      BY <1>3, <2>3
    <3>4. SvNow' = "payload" => svServices'["file"].state = "absent"
      BY <1>1, <2>2, <2>4, <2>6
    <3>5. svUploads' \cap svPayloads' = {}
      BY <1>1, <1>3, <1>6
    <3> QED  BY <1>1, <2>1, <3>1, <3>2, <3>3, <3>4, <3>5 DEF SvFilesInv
  <2> QED  BY <1>4, <2>5, <2>7, <2>8 DEF SvInv
<1> QED  BY <1>5, <1>6 DEF ExecuteTask

(* A script that ends leaves only what holds between scripts.              *)
LEMMA EndedFiles ==
    ASSUME svShell' = NoSvShell, HaveFiles(svDownloads)', HaveFiles(svServed)',
           svServices'["file"].state # "running" => svServed' = {},
           svUploads' \cap svPayloads' = {}
    PROVE  SvFilesInv'
<1>1. SvNow' = "" /\ svShell'.task.op = "none"
  BY NothingLeft
<1> QED  BY <1>1 DEF SvFilesInv

(* The uploads that are left after a clean-up are not in the data directory. *)
LEMMA FreshAfterCleanup ==
    ASSUME SvFilesInv, svUploads' = AfterCleanup(svShell.task)
    PROVE  svUploads' \cap svPayloads = {}
BY CleanedUp DEF SvFilesInv

(* The links that a script works on are those of the configuration.         *)
LEMMA LoadLinksStep == ASSUME SvInv, LoadDownloads PROVE SvInv'
<1>1. svShell.steps # <<>> /\ SvNow = "load" /\ svMenu = <<>>
  BY AtIs DEF LoadDownloads, SvInv, SvShape
<1>2. UNCHANGED <<svServices, svDownloads, svServed, svPayloads, svGeneration, svTasks, svMenu>>
  BY DEF LoadDownloads
<1>3. SvTaskInv'
  BY <1>2, SvTasksLeft DEF SvInv
<1>4. CASE svShell' = NoSvShell /\ svUploads' = AfterCleanup(svShell.task)
  <2>1. svUploads' \cap svPayloads' = {} /\ svUploads' \subseteq svUploads
    BY <1>2, <1>4, FreshAfterCleanup, CleanedUp DEF SvInv
  <2>2. SvFilesInv'
    BY <1>2, <1>4, <2>1, EndedFiles DEF SvInv, SvFilesInv, HaveFiles
  <2>3. SvShape'
    BY <1>1, <1>2, <1>4, <2>1, NothingLeft DEF SvInv, SvShape
  <2> QED  BY <1>3, <1>4, <2>2, <2>3, NothingLeft DEF SvInv
<1>5. CASE /\ svShell' = [svShell EXCEPT !.steps = Tail(@), !.loaded = svDownloads]
           /\ UNCHANGED svUploads
  <2>1. /\ svShell'.steps = Tail(svShell.steps) /\ svShell'.task = svShell.task
        /\ svShell'.loaded = svDownloads
        /\ svShell' = [steps |-> svShell'.steps, task |-> svShell'.task,
                       loaded |-> svShell'.loaded]
    <3>1. svShell' = [steps |-> Tail(svShell.steps), task |-> svShell.task,
                      loaded |-> svDownloads]
      BY <1>5 DEF SvInv, SvShape
    <3> QED  BY <3>1
  <2>2. SvScriptInv' /\ SvNow' = SvNowOf(Tail(svShell.steps))
    BY <1>1, <2>1, SvRest DEF SvInv
  <2>3. \/ svShell.task.op = "add" /\ SvNow' = "copy"
        \/ svShell.task.op = "delete" /\ SvNow' = "write"
    BY <1>1, <2>2, SvGoing DEF SvInv
  <2>4. SvShape'
    BY <1>1, <1>2, <1>5, <2>1 DEF SvInv, SvShape
  <2>5. SvFilesInv'
    <3>1. HaveFiles(svDownloads)' /\ HaveFiles(svServed)' /\ HaveFiles(svShell.loaded)'
      BY <1>2, <2>1 DEF SvInv, SvFilesInv, HaveFiles
    <3>2. svUploads' \cap svPayloads' = {}
      BY <1>1, <1>2, <1>5 DEF SvInv, SvFilesInv
    <3>3. svShell.task.op = "add" => /\ svShell.task.file \notin svPayloads
                                     /\ \A d \in svDownloads : d.id # svShell.task.file
      BY <1>1 DEF SvInv, SvFilesInv, HaveFiles
    <3> QED  BY <1>2, <2>1, <2>3, <3>1, <3>2, <3>3 DEF SvInv, SvFilesInv
  <2> QED  BY <1>3, <2>2, <2>4, <2>5 DEF SvInv
<1> QED  BY <1>4, <1>5 DEF LoadDownloads

(* The file is there before a link names it.                                *)
LEMMA CopyPayloadStep == ASSUME SvInv, CopyPayload PROVE SvInv'
<1>1. svShell.steps # <<>> /\ SvNow = "copy" /\ svMenu = <<>>
  BY AtIs DEF CopyPayload, SvInv, SvShape
<1>2. UNCHANGED <<svServices, svDownloads, svServed, svGeneration, svTasks, svMenu>>
  BY DEF CopyPayload
<1>3. SvTaskInv'
  BY <1>2, SvTasksLeft DEF SvInv
<1>4. CASE svShell' = NoSvShell /\ svUploads' = AfterCleanup(svShell.task) /\ UNCHANGED svPayloads
  <2>1. svUploads' \cap svPayloads' = {} /\ svUploads' \subseteq svUploads
    BY <1>4, FreshAfterCleanup, CleanedUp DEF SvInv
  <2>2. SvFilesInv'
    BY <1>2, <1>4, <2>1, EndedFiles DEF SvInv, SvFilesInv, HaveFiles
  <2>3. SvShape'
    BY <1>1, <1>2, <1>4, <2>1, NothingLeft DEF SvInv, SvShape
  <2> QED  BY <1>3, <1>4, <2>2, <2>3, NothingLeft DEF SvInv
<1>5. CASE svPayloads' = svPayloads \cup {svShell.task.file} /\ Step /\ UNCHANGED svUploads
  <2>1. /\ svShell'.steps = Tail(svShell.steps) /\ svShell'.task = svShell.task
        /\ svShell'.loaded = svShell.loaded
        /\ svShell' = [steps |-> svShell'.steps, task |-> svShell'.task,
                       loaded |-> svShell'.loaded]
    BY <1>5, StepIs DEF SvInv, Step
  <2>2. SvScriptInv' /\ SvNow' = SvNowOf(Tail(svShell.steps))
    BY <1>1, <2>1, SvRest DEF SvInv
  <2>3. svShell.task.op = "add" /\ SvNow' = "write"
    BY <1>1, <2>2, SvGoing DEF SvInv
  <2>4. SvShape'
    BY <1>1, <1>2, <1>5, <2>1 DEF SvInv, SvShape
  <2>5. SvFilesInv'
    <3>1. HaveFiles(svDownloads)' /\ HaveFiles(svServed)' /\ HaveFiles(svShell.loaded)'
      BY <1>1, <1>2, <1>5, <2>1 DEF SvInv, SvFilesInv, HaveFiles
    <3>2. \A f \in svUploads' \cap svPayloads' : f = svShell.task.file
      BY <1>1, <1>5 DEF SvInv, SvFilesInv
    <3>3. \A d \in svShell.loaded : d.id # svShell.task.file
      BY <1>1, <2>3 DEF SvInv, SvFilesInv
    <3> QED  BY <1>2, <1>5, <2>1, <2>3, <3>1, <3>2, <3>3 DEF SvInv, SvFilesInv
  <2> QED  BY <1>3, <2>2, <2>4, <2>5 DEF SvInv
<1> QED  BY <1>4, <1>5 DEF CopyPayload

(* A written link has its file; a deletion leaves the file where it is.     *)
LEMMA WriteLinksStep == ASSUME SvInv, WriteDownloads PROVE SvInv'
<1>1. svShell.steps # <<>> /\ SvNow = "write" /\ svMenu = <<>>
  BY AtIs DEF WriteDownloads, SvInv, SvShape
<1>2. UNCHANGED <<svServices, svServed, svPayloads, svGeneration, svTasks, svMenu>>
  BY DEF WriteDownloads
<1>3. SvTaskInv'
  BY <1>2, SvTasksLeft DEF SvInv
<1>4. /\ svShell'.steps = Tail(svShell.steps) /\ svShell'.task = svShell.task
      /\ svShell'.loaded = svShell.loaded
      /\ svShell' = [steps |-> svShell'.steps, task |-> svShell'.task,
                     loaded |-> svShell'.loaded]
  BY StepIs DEF SvInv, WriteDownloads, Step
<1>5. SvScriptInv' /\ SvNow' = SvNowOf(Tail(svShell.steps))
  BY <1>1, <1>4, SvRest DEF SvInv
<1>6. svShell.task.op \in {"add", "delete"} /\ SvNow' = "restart"
  BY <1>1, <1>5, SvGoing DEF SvInv
<1>7. svUploads' \cap svPayloads' = {} /\ svUploads' \subseteq svUploads
  BY <1>2, FreshAfterCleanup, CleanedUp DEF SvInv, WriteDownloads
<1>8. CASE svShell.task.op = "add"
  <2>1. svDownloads' = svShell.loaded \cup {Link(svShell.task.file)}
    BY <1>8 DEF WriteDownloads
  <2>2. /\ Link(svShell.task.file) \in AllLinks
        /\ Link(svShell.task.file).id = svShell.task.file
    BY <1>8 DEF SvInv, SvShape, SvScriptInv, Link, AllLinks, SvIds
  <2>3. SvShape'
    BY <1>1, <1>2, <1>4, <1>7, <2>1, <2>2 DEF SvInv, SvShape
  <2>4. HaveFiles(svDownloads)' /\ HaveFiles(svServed)' /\ HaveFiles(svShell.loaded)'
    BY <1>1, <1>2, <1>4, <1>8, <2>1, <2>2 DEF SvInv, SvFilesInv, HaveFiles
  <2>5. svShell.task.file \in svPayloads /\ \A d \in svShell.loaded : d.id # svShell.task.file
    BY <1>1, <1>8 DEF SvInv, SvFilesInv
  <2>6. SvFilesInv'
    BY <1>2, <1>4, <1>6, <1>7, <1>8, <2>4, <2>5 DEF SvInv, SvFilesInv
  <2> QED  BY <1>3, <1>5, <2>3, <2>6 DEF SvInv
<1>9. CASE svShell.task.op = "delete"
  <2>1. svDownloads' = {d \in svShell.loaded : d.id # svShell.task.file}
    BY <1>9 DEF WriteDownloads
  <2>2. svDownloads' \subseteq svShell.loaded
    BY <2>1
  <2>3. SvShape'
    BY <1>1, <1>2, <1>4, <1>7, <2>2 DEF SvInv, SvShape
  <2>4. HaveFiles(svDownloads)' /\ HaveFiles(svServed)' /\ HaveFiles(svShell.loaded)'
    BY <1>1, <1>2, <1>4, <2>2 DEF SvInv, SvFilesInv, HaveFiles
  <2>5. \A d \in svDownloads' : d.id # svShell.task.file
    BY <2>1
  <2>6. SvFilesInv'
    BY <1>2, <1>4, <1>6, <1>7, <1>9, <2>4, <2>5 DEF SvInv, SvFilesInv
  <2> QED  BY <1>3, <1>5, <2>3, <2>6 DEF SvInv
<1> QED  BY <1>6, <1>8, <1>9

(* The server that comes up gives out the links of the configuration.       *)
LEMMA RestartServerStep == ASSUME SvInv, RestartServer PROVE SvInv'
<1>1. svShell.steps # <<>> /\ SvNow = "restart" /\ svMenu = <<>>
  BY AtIs DEF RestartServer, SvInv, SvShape
<1>2. /\ UNCHANGED <<svServices, svDownloads, svPayloads, svUploads, svGeneration, svTasks, svMenu>>
      /\ svServed' = IF svServices["file"].state = "running" THEN svDownloads ELSE svServed
  BY DEF RestartServer, Running
<1>3. SvTaskInv'
  BY <1>2, SvTasksLeft DEF SvInv
<1>4. /\ svShell'.steps = Tail(svShell.steps) /\ svShell'.task = svShell.task
      /\ svShell'.loaded = svShell.loaded
      /\ svShell' = [steps |-> svShell'.steps, task |-> svShell'.task,
                     loaded |-> svShell'.loaded]
  BY StepIs DEF SvInv, RestartServer, Step
<1>5. SvScriptInv' /\ SvNow' = SvNowOf(Tail(svShell.steps))
  BY <1>1, <1>4, SvRest DEF SvInv
<1>6. \/ svShell.task.op = "add" /\ SvNow' = ""
      \/ svShell.task.op = "delete" /\ SvNow' = "purge"
  BY <1>1, <1>5, SvGoing DEF SvInv
<1>7. /\ svServed' \subseteq svDownloads
      /\ svServices["file"].state # "running" => svServed' = {}
  BY <1>2 DEF SvInv, SvFilesInv
<1>8. SvShape'
  BY <1>1, <1>2, <1>4, <1>7 DEF SvInv, SvShape
<1>9. HaveFiles(svDownloads)' /\ HaveFiles(svServed)'
  BY <1>2, <1>7 DEF SvInv, SvFilesInv, HaveFiles
<1>10. svUploads' \cap svPayloads' = {}
  BY <1>1, <1>2 DEF SvInv, SvFilesInv
<1>11. svShell.task.op = "delete" => \A d \in svDownloads : d.id # svShell.task.file
  BY <1>1 DEF SvInv, SvFilesInv
<1>12. SvFilesInv'
  BY <1>2, <1>4, <1>6, <1>7, <1>9, <1>10, <1>11 DEF SvFilesInv
<1> QED  BY <1>3, <1>5, <1>8, <1>12 DEF SvInv

(* A server that stays down gives out nothing; the old links come back with *)
(* their files, for the new file goes only after its link.                  *)
LEMMA RestartFailsStep == ASSUME SvInv, RestartFails PROVE SvInv'
<1>1. svShell.steps # <<>> /\ SvNow = "restart" /\ svMenu = <<>>
  BY AtIs DEF RestartFails, SvInv, SvShape
<1>2. /\ UNCHANGED <<svUploads, svGeneration, svTasks, svMenu>>
      /\ svDownloads' = svShell.loaded /\ svShell' = NoSvShell
      /\ svPayloads' = IF svShell.task.op = "add"
                       THEN svPayloads \ {svShell.task.file} ELSE svPayloads
  BY DEF RestartFails
<1>3. \/ svServed' = svShell.loaded /\ svServices' = svServices
      \/ svServed' = {} /\ svServices' = [svServices EXCEPT !["file"].state = "failed"]
  BY DEF RestartFails
<1>4. svServices["file"].state = "running"
  BY DEF RestartFails, Running
<1>5. /\ svServices' \in [SvNames -> [state : SvStates, port : TcpPorts \cup {0}]]
      /\ svServices'["file"].state # "running" => svServed' = {}
  BY <1>3, <1>4 DEF SvInv, SvShape, SvNames, SvStates
<1>6. svServed' \subseteq svShell.loaded /\ svPayloads' \subseteq svPayloads
  BY <1>2, <1>3
<1>7. \A d \in svShell.loaded : d.id \in svPayloads'
  BY <1>1, <1>2 DEF SvInv, SvFilesInv, HaveFiles
<1>8. HaveFiles(svDownloads)' /\ HaveFiles(svServed)'
  BY <1>2, <1>6, <1>7 DEF HaveFiles
<1>9. svUploads' \cap svPayloads' = {}
  BY <1>1, <1>2, <1>6 DEF SvInv, SvFilesInv
<1>10. SvFilesInv'
  BY <1>2, <1>5, <1>8, <1>9, EndedFiles
<1>11. SvShape'
  BY <1>1, <1>2, <1>5, <1>6, NothingLeft DEF SvInv, SvShape
<1>12. SvTaskInv'
  BY <1>2, SvTasksLeft DEF SvInv
<1> QED  BY <1>2, <1>10, <1>11, <1>12, NothingLeft DEF SvInv

(* A file goes when neither configuration nor server names it.              *)
LEMMA PurgeStep == ASSUME SvInv, PurgePayload PROVE SvInv'
<1>1. svShell.steps # <<>> /\ SvNow = "purge" /\ svMenu = <<>>
  BY AtIs DEF PurgePayload, SvInv, SvShape
<1>2. /\ UNCHANGED <<svServices, svDownloads, svServed, svUploads, svGeneration, svTasks, svMenu>>
      /\ svPayloads' = svPayloads \ {svShell.task.file}
  BY DEF PurgePayload
<1>3. SvTaskInv'
  BY <1>2, SvTasksLeft DEF SvInv
<1>4. /\ svShell'.steps = Tail(svShell.steps) /\ svShell'.task = svShell.task
      /\ svShell'.loaded = svShell.loaded
      /\ svShell' = [steps |-> svShell'.steps, task |-> svShell'.task,
                     loaded |-> svShell'.loaded]
  BY StepIs DEF SvInv, PurgePayload, Step
<1>5. SvScriptInv' /\ SvNow' = SvNowOf(Tail(svShell.steps))
  BY <1>1, <1>4, SvRest DEF SvInv
<1>6. svShell.task.op = "delete" /\ SvNow' = ""
  BY <1>1, <1>5, SvGoing DEF SvInv
<1>7. SvShape'
  BY <1>1, <1>2, <1>4 DEF SvInv, SvShape
<1>8. HaveFiles(svDownloads)' /\ HaveFiles(svServed)'
  BY <1>1, <1>2, <1>6 DEF SvInv, SvFilesInv, HaveFiles
<1>9. svUploads' \cap svPayloads' = {}
  BY <1>1, <1>2 DEF SvInv, SvFilesInv
<1>10. SvFilesInv'
  BY <1>2, <1>4, <1>6, <1>8, <1>9 DEF SvInv, SvFilesInv
<1> QED  BY <1>3, <1>5, <1>7, <1>10 DEF SvInv

(* The shared file is there before the first configuration.                 *)
LEMMA PayloadStep == ASSUME SvInv, InstallPayload PROVE SvInv'
<1>1. svShell.steps # <<>> /\ SvNow = "payload" /\ svMenu = <<>>
  BY AtIs DEF InstallPayload, SvInv, SvShape
<1>4. /\ svShell'.steps = Tail(svShell.steps) /\ svShell'.task = svShell.task
      /\ svShell'.loaded = svShell.loaded
      /\ svShell' = [steps |-> svShell'.steps, task |-> svShell'.task,
                     loaded |-> svShell'.loaded]
  BY StepIs DEF SvInv, InstallPayload, Step
<1>5. SvScriptInv' /\ SvNow' = SvNowOf(Tail(svShell.steps))
  BY <1>1, <1>4, SvRest DEF SvInv
<1>2. /\ UNCHANGED <<svServices, svDownloads, svServed, svGeneration, svTasks, svMenu>>
      /\ svPayloads' = svPayloads \cup {"shared"}
      /\ svUploads' \subseteq svUploads
  BY CleanedUp DEF InstallPayload
<1>3. SvTaskInv'
  BY <1>2, SvTasksLeft DEF SvInv
<1>6. svShell.task.op = "deploy" /\ SvNow' = "config"
  BY <1>1, <1>5, SvGoing DEF SvInv
<1>7. SvShape'
  BY <1>1, <1>2, <1>4 DEF SvInv, SvShape
<1>8. HaveFiles(svDownloads)' /\ HaveFiles(svServed)'
  BY <1>2 DEF SvInv, SvFilesInv, HaveFiles
<1>9. svUploads' \cap svPayloads' = {}
  BY <1>1, <1>2, ServiceAssumption DEF SvInv, SvFilesInv, SvShape
<1>10. SvFilesInv'
  BY <1>1, <1>2, <1>4, <1>6, <1>8, <1>9 DEF SvInv, SvFilesInv
<1> QED  BY <1>3, <1>5, <1>7, <1>10 DEF SvInv

(* The first configuration names the shared file, which is there.           *)
LEMMA FirstConfigStep == ASSUME SvInv, WriteFirstConfig PROVE SvInv'
<1>1. svShell.steps # <<>> /\ SvNow = "config" /\ svMenu = <<>>
  BY AtIs DEF WriteFirstConfig, SvInv, SvShape
<1>4. /\ svShell'.steps = Tail(svShell.steps) /\ svShell'.task = svShell.task
      /\ svShell'.loaded = svShell.loaded
      /\ svShell' = [steps |-> svShell'.steps, task |-> svShell'.task,
                     loaded |-> svShell'.loaded]
  BY StepIs DEF SvInv, WriteFirstConfig, Step
<1>5. SvScriptInv' /\ SvNow' = SvNowOf(Tail(svShell.steps))
  BY <1>1, <1>4, SvRest DEF SvInv
<1>2. /\ UNCHANGED <<svServed, svPayloads, svUploads, svGeneration, svTasks, svMenu>>
      /\ svDownloads' = {Link("shared")}
      /\ svServices' = [svServices EXCEPT
                          !["file"] = [state |-> "stopped", port |-> svShell.task.port]]
  BY DEF WriteFirstConfig
<1>3. SvTaskInv'
  BY <1>2, SvTasksLeft DEF SvInv
<1>6. svShell.task.op = "deploy" /\ SvNow' = "enable"
  BY <1>1, <1>5, SvGoing DEF SvInv
<1>7. svShell.task.port \in TcpPorts \cup {0}
  BY <1>6 DEF SvInv, SvScriptInv
<1>8. /\ svServices' \in [SvNames -> [state : SvStates, port : TcpPorts \cup {0}]]
      /\ svServices'["file"].state = "stopped"
  BY <1>2, <1>7 DEF SvInv, SvShape, SvStates, SvNames
<1>9. Link("shared") \in AllLinks /\ Link("shared").id = "shared"
  BY DEF SvInv, SvShape, Link, AllLinks, SvIds
<1>10. SvShape'
  BY <1>1, <1>2, <1>4, <1>8, <1>9 DEF SvInv, SvShape
<1>11. svServed = {}
  BY <1>1 DEF SvInv, SvFilesInv
<1>12. HaveFiles(svDownloads)' /\ HaveFiles(svServed)'
  BY <1>1, <1>2, <1>9, <1>11 DEF SvInv, SvFilesInv, HaveFiles
<1>13. svUploads' \cap svPayloads' = {}
  BY <1>1, <1>2 DEF SvInv, SvFilesInv
<1>14. SvFilesInv'
  BY <1>2, <1>4, <1>6, <1>8, <1>11, <1>12, <1>13 DEF SvFilesInv
<1> QED  BY <1>3, <1>5, <1>10, <1>14 DEF SvInv

(* The server comes up with the links of the configuration.                 *)
LEMMA EnableServerStep == ASSUME SvInv, EnableServer PROVE SvInv'
<1>1. svShell.steps # <<>> /\ SvNow = "enable" /\ svMenu = <<>>
  BY AtIs DEF EnableServer, SvInv, SvShape
<1>4. /\ svShell'.steps = Tail(svShell.steps) /\ svShell'.task = svShell.task
      /\ svShell'.loaded = svShell.loaded
      /\ svShell' = [steps |-> svShell'.steps, task |-> svShell'.task,
                     loaded |-> svShell'.loaded]
  BY StepIs DEF SvInv, EnableServer, Step
<1>5. SvScriptInv' /\ SvNow' = SvNowOf(Tail(svShell.steps))
  BY <1>1, <1>4, SvRest DEF SvInv
<1>2. /\ UNCHANGED <<svDownloads, svPayloads, svUploads, svGeneration, svTasks, svMenu>>
      /\ \/ /\ svServices' = [svServices EXCEPT !["file"].state = "running"]
            /\ svServed' = svDownloads
         \/ /\ svServices' = [svServices EXCEPT !["file"].state = "failed"]
            /\ svServed' = svServed
  BY DEF EnableServer
<1>3. SvTaskInv'
  BY <1>2, SvTasksLeft DEF SvInv
<1>6. svShell.task.op = "deploy" /\ SvNow' = ""
  BY <1>1, <1>5, SvGoing DEF SvInv
<1>7. svServed = {}
  BY <1>1 DEF SvInv, SvFilesInv
<1>8. /\ svServices' \in [SvNames -> [state : SvStates, port : TcpPorts \cup {0}]]
      /\ svServices'["file"].state # "running" => svServed' = {}
      /\ svServed' \subseteq svDownloads
  BY <1>2, <1>7 DEF SvInv, SvShape, SvStates, SvNames
<1>10. SvShape'
  BY <1>1, <1>2, <1>4, <1>8 DEF SvInv, SvShape
<1>12. HaveFiles(svDownloads)' /\ HaveFiles(svServed)'
  BY <1>1, <1>2, <1>8 DEF SvInv, SvFilesInv, HaveFiles
<1>13. svUploads' \cap svPayloads' = {}
  BY <1>1, <1>2 DEF SvInv, SvFilesInv
<1>14. SvFilesInv'
  BY <1>4, <1>6, <1>8, <1>12, <1>13 DEF SvFilesInv
<1> QED  BY <1>3, <1>5, <1>10, <1>14 DEF SvInv

(* Services without links: only their state changes.                        *)
LEMMA InstallServiceStep == ASSUME SvInv, InstallService PROVE SvInv'
<1>1. svShell.steps # <<>> /\ SvNow = "install" /\ svMenu = <<>>
  BY AtIs DEF InstallService, SvInv, SvShape
<1>4. /\ svShell'.steps = Tail(svShell.steps) /\ svShell'.task = svShell.task
      /\ svShell'.loaded = svShell.loaded
      /\ svShell' = [steps |-> svShell'.steps, task |-> svShell'.task,
                     loaded |-> svShell'.loaded]
  BY StepIs DEF SvInv, InstallService, Step
<1>5. SvScriptInv' /\ SvNow' = SvNowOf(Tail(svShell.steps))
  BY <1>1, <1>4, SvRest DEF SvInv
<1> DEFINE t == svShell.task
<1>2. /\ UNCHANGED <<svDownloads, svServed, svPayloads, svUploads, svGeneration, svTasks, svMenu>>
      /\ \/ svServices' = svServices
         \/ \E state \in {"running", "failed"} :
               svServices' = [svServices EXCEPT ![t.service] = [state |-> state, port |-> t.port]]
  BY DEF InstallService
<1>3. SvTaskInv'
  BY <1>2, SvTasksLeft DEF SvInv
<1>6. t.op = "deploy" /\ t.service # "file" /\ SvNow' = ""
  BY <1>1, <1>5, SvGoing DEF SvInv
<1>7. t.port \in TcpPorts \cup {0} /\ t.service \in SvNames
  BY <1>6 DEF SvInv, SvScriptInv
<1>8. /\ svServices' \in [SvNames -> [state : SvStates, port : TcpPorts \cup {0}]]
      /\ svServices'["file"] = svServices["file"]
  <2> HIDE DEF t
  <2>1. svServices \in [SvNames -> [state : SvStates, port : TcpPorts \cup {0}]]
    BY DEF SvInv, SvShape
  <2>2. \A state \in {"running", "failed"} :
            [state |-> state, port |-> t.port] \in [state : SvStates, port : TcpPorts \cup {0}]
    BY <1>7 DEF SvStates
  <2> QED  BY <1>2, <1>6, <1>7, <2>1, <2>2 DEF SvNames
<1>10. SvShape'
  BY <1>1, <1>2, <1>4, <1>8 DEF SvInv, SvShape
<1>12. HaveFiles(svDownloads)' /\ HaveFiles(svServed)'
  BY <1>1, <1>2 DEF SvInv, SvFilesInv, HaveFiles
<1>13. svUploads' \cap svPayloads' = {}
  BY <1>1, <1>2 DEF SvInv, SvFilesInv
<1>14. SvFilesInv'
  BY <1>2, <1>4, <1>6, <1>8, <1>12, <1>13 DEF SvInv, SvFilesInv
<1> QED  BY <1>3, <1>5, <1>10, <1>14 DEF SvInv

(* A server that starts reads the configuration; one that stops gives out   *)
(* nothing.                                                                 *)
LEMMA ChangeServiceStep == ASSUME SvInv, ChangeService PROVE SvInv'
<1>1. svShell.steps # <<>> /\ SvNow = "systemctl" /\ svMenu = <<>>
  BY AtIs DEF ChangeService, SvInv, SvShape
<1>4. /\ svShell'.steps = Tail(svShell.steps) /\ svShell'.task = svShell.task
      /\ svShell'.loaded = svShell.loaded
      /\ svShell' = [steps |-> svShell'.steps, task |-> svShell'.task,
                     loaded |-> svShell'.loaded]
  BY StepIs DEF SvInv, ChangeService, Step
<1>5. SvScriptInv' /\ SvNow' = SvNowOf(Tail(svShell.steps))
  BY <1>1, <1>4, SvRest DEF SvInv
<1> DEFINE s == svShell.task.service
<1>2. UNCHANGED <<svDownloads, svPayloads, svUploads, svGeneration, svTasks, svMenu>>
  BY DEF ChangeService
<1>3. SvTaskInv'
  BY <1>2, SvTasksLeft DEF SvInv
<1>6. svShell.task.op \in {"start", "stop", "restart"} /\ SvNow' = ""
  BY <1>1, <1>5, SvGoing DEF SvInv
<1>7. s \in SvNames
  BY <1>6 DEF SvInv, SvScriptInv
<1>8. \E state \in {"stopped", "running", "failed"} :
         /\ svServices' = [svServices EXCEPT ![s].state = state]
         /\ svServed' = IF s # "file" THEN svServed
                        ELSE IF state = "running" THEN svDownloads ELSE {}
  BY DEF ChangeService
<1>9. /\ svServices' \in [SvNames -> [state : SvStates, port : TcpPorts \cup {0}]]
      /\ svServices'["file"].state # "running" => svServed' = {}
      /\ svServed' \subseteq svDownloads \cup svServed
  <2> HIDE DEF s
  <2>1. PICK state \in {"stopped", "running", "failed"} :
         /\ svServices' = [svServices EXCEPT ![s].state = state]
         /\ svServed' = IF s # "file" THEN svServed
                        ELSE IF state = "running" THEN svDownloads ELSE {}
    BY <1>8
  <2>2. svServices \in [SvNames -> [state : SvStates, port : TcpPorts \cup {0}]]
    BY DEF SvInv, SvShape
  <2>3. svServices' \in [SvNames -> [state : SvStates, port : TcpPorts \cup {0}]]
    BY <1>7, <2>1, <2>2 DEF SvStates
  <2>4. CASE s = "file"
    <3>1. svServices'["file"].state = state
      BY <1>7, <2>1, <2>2, <2>4 DEF SvNames
    <3> QED  BY <2>1, <2>3, <2>4, <3>1
  <2>5. CASE s # "file"
    <3>1. svServices'["file"] = svServices["file"]
      BY <1>7, <2>1, <2>2, <2>5 DEF SvNames
    <3> QED  BY <2>1, <2>3, <2>5, <3>1 DEF SvInv, SvFilesInv
  <2> QED  BY <2>4, <2>5
<1>10. SvShape'
  BY <1>1, <1>2, <1>4, <1>9 DEF SvInv, SvShape
<1>12. HaveFiles(svDownloads)' /\ HaveFiles(svServed)'
  BY <1>1, <1>2, <1>9 DEF SvInv, SvFilesInv, HaveFiles
<1>13. svUploads' \cap svPayloads' = {}
  BY <1>1, <1>2 DEF SvInv, SvFilesInv
<1>14. SvFilesInv'
  BY <1>2, <1>4, <1>6, <1>9, <1>12, <1>13 DEF SvFilesInv
<1> QED  BY <1>3, <1>5, <1>10, <1>14 DEF SvInv

(* Wherever a script is killed, every link written so far has its file.     *)
LEMMA KillShellStep == ASSUME SvInv, KillSvShell PROVE SvInv'
<1>1. /\ svShell.steps # <<>> /\ svShell' = NoSvShell
      /\ svUploads' = AfterCleanup(svShell.task)
      /\ UNCHANGED <<svServices, svDownloads, svServed, svPayloads, svGeneration, svTasks, svMenu>>
  BY DEF KillSvShell, Idle
<1>2. svUploads' \cap svPayloads' = {} /\ svUploads' \subseteq svUploads
  BY <1>1, FreshAfterCleanup, CleanedUp DEF SvInv
<1>3. SvFilesInv'
  BY <1>1, <1>2, EndedFiles DEF SvInv, SvFilesInv, HaveFiles
<1>4. SvShape'
  BY <1>1, <1>2, NothingLeft DEF SvInv, SvShape, HaveFiles
<1>5. SvTaskInv'
  BY <1>1, SvTasksLeft DEF SvInv
<1> QED  BY <1>1, <1>3, <1>4, <1>5, NothingLeft DEF SvInv

(* Root's menu installs the file service between tasks, by the steps of a   *)
(* deployment.                                                              *)
LEMMA MenuInstallStep ==
    ASSUME SvInv, NEW q \in TcpPorts, MenuInstall(q)
    PROVE  SvInv'
<1>1. /\ svShell.steps = <<>> /\ svMenu = <<>> /\ svServices["file"].state = "absent"
      /\ UNCHANGED <<svServices, svDownloads, svServed, svPayloads, svUploads, svGeneration,
                     svTasks, svMenu>>
  BY DEF MenuInstall, Idle, MenuIdle, SvInstalled
<1>2. /\ svShell'.steps = <<"payload", "config", "enable">> /\ svShell'.loaded = {}
      /\ svShell'.task = SvTask("deploy", "file", "none", q)
      /\ svShell' = [steps |-> svShell'.steps, task |-> svShell'.task,
                     loaded |-> svShell'.loaded]
  <2>1. svShell' = [steps |-> DeploySteps("file"), task |-> SvTask("deploy", "file", "none", q),
                    loaded |-> {}]
    BY DEF MenuInstall, NoSvShell
  <2> QED  BY <2>1 DEF DeploySteps
<1>3. svShell'.task.op = "deploy" /\ svShell'.task.service = "file" /\ svShell'.task.port = q
  BY <1>2 DEF SvTask
<1>4. SvNow' = "payload"
  <2>1. SvNowOf(<<"payload", "config", "enable">>) = "payload"
    BY DEF SvNowOf
  <2> QED  BY <1>2, <2>1 DEF SvNow
<1>5. SvNow = ""
  BY <1>1 DEF SvNow, SvNowOf
<1>6. SvScriptInv'
  BY <1>2, <1>3 DEF SvScriptInv, DeployRest, SvNames
<1>7. SvShape'
  BY <1>1, <1>2 DEF SvInv, SvShape
<1>8. HaveFiles(svDownloads)' /\ HaveFiles(svServed)'
  BY <1>1 DEF SvInv, SvFilesInv, HaveFiles
<1>9. svUploads' \cap svPayloads' = {}
  BY <1>1, <1>5 DEF SvInv, SvFilesInv
<1>10. SvFilesInv'
  BY <1>1, <1>3, <1>4, <1>8, <1>9 DEF SvInv, SvFilesInv
<1>11. SvTaskInv'
  BY <1>1, SvTasksLeft DEF SvInv
<1> QED  BY <1>6, <1>7, <1>10, <1>11 DEF SvInv

(* Without a task at work, what the menu reads stays true until it writes.  *)
LEMMA RotateReadStep == ASSUME SvInv, ~MenuDuringTasks, RotateRead PROVE SvInv'
<1>1. /\ svShell.steps = <<>> /\ svMenu' = <<svDownloads>>
      /\ UNCHANGED <<svServices, svDownloads, svServed, svPayloads, svUploads, svGeneration,
                     svTasks, svShell>>
  BY DEF RotateRead, MenuAllowed, Idle
<1>2. SvShape'
  BY <1>1 DEF SvInv, SvShape, SvFilesInv, HaveFiles
<1>3. SvTaskInv' /\ SvScriptInv' /\ SvFilesInv'
  BY <1>1 DEF SvInv, SvTaskInv, SvScriptInv, SvFilesInv, HaveFiles, SvNow, SvNames
<1> QED  BY <1>2, <1>3 DEF SvInv

(* The rotated links name the files that the old ones named.                *)
LEMMA RotateWriteStep == ASSUME SvInv, RotateWrite PROVE SvInv'
<1>1. /\ svMenu # <<>> /\ svMenu' = <<>> /\ svServed' = svDownloads'
      /\ svGeneration' = svGeneration + 1
      /\ svDownloads' = {[d EXCEPT !.generation = svGeneration + 1] : d \in svMenu[1]}
      /\ svServices' = [svServices EXCEPT !["file"].state = "running"]
      /\ UNCHANGED <<svPayloads, svUploads, svTasks, svShell>>
  BY DEF RotateWrite, MenuIdle
<1>2. svShell.steps = <<>> /\ SvNow = "" /\ SvNow' = ""
  BY <1>1 DEF SvInv, SvShape, SvNow, SvNowOf
<1>3. PICK L \in SUBSET AllLinks : svMenu = <<L>> /\ HaveFiles(L)
  BY <1>1 DEF SvInv, SvShape
<1>4. svMenu[1] = L
  BY <1>3
<1>5. svGeneration + 1 \in Nat
  BY DEF SvInv, SvShape
<1>6. \A d \in L : /\ [d EXCEPT !.generation = svGeneration + 1]
                        = [id |-> d.id, generation |-> svGeneration + 1]
                   /\ d.id \in SvIds /\ d.id \in svPayloads
  BY <1>3 DEF AllLinks, HaveFiles
<1>7. \A e \in svDownloads' : \E d \in L : e = [id |-> d.id, generation |-> svGeneration + 1]
  BY <1>1, <1>4, <1>6
<1>8. \A e \in svDownloads' : e \in AllLinks /\ e.id \in svPayloads
  BY <1>5, <1>6, <1>7 DEF AllLinks
<1>9. /\ svServices' \in [SvNames -> [state : SvStates, port : TcpPorts \cup {0}]]
      /\ svServices'["file"].state = "running"
  BY <1>1 DEF SvInv, SvShape, SvStates, SvNames
<1>10. SvShape'
  BY <1>1, <1>2, <1>5, <1>8, <1>9 DEF SvInv, SvShape
<1>11. HaveFiles(svDownloads)' /\ HaveFiles(svServed)'
  BY <1>1, <1>8 DEF HaveFiles
<1>12. SvFilesInv'
  BY <1>1, <1>2, <1>9, <1>11 DEF SvInv, SvFilesInv
<1>13. SvTaskInv' /\ SvScriptInv'
  BY <1>1 DEF SvInv, SvTaskInv, SvScriptInv, SvNames
<1> QED  BY <1>10, <1>12, <1>13 DEF SvInv

(* Every step keeps the invariant, if root's menu keeps out of the tasks'   *)
(* way.                                                                     *)
LEMMA SvStep == ASSUME SvInv, ~MenuDuringTasks, [ServiceNext]_serviceVars PROVE SvInv'
<1>1. CASE UNCHANGED serviceVars
  BY <1>1 DEF serviceVars, SvInv, SvShape, SvTaskInv, SvScriptInv, SvFilesInv, HaveFiles, SvNow,
              SvNames
<1>2. CASE FileScript
  BY <1>2, LoadLinksStep, CopyPayloadStep, WriteLinksStep, RestartServerStep, RestartFailsStep, PurgeStep DEF FileScript
<1>3. CASE DeployScript
  BY <1>3, PayloadStep, FirstConfigStep, EnableServerStep, InstallServiceStep DEF DeployScript
<1> QED
  BY <1>1, <1>2, <1>3, SvPreviewStep, StageUploadStep, ExecuteTaskStep, ChangeServiceStep,
     KillShellStep, MenuInstallStep, RotateReadStep, RotateWriteStep DEF ServiceNext

(* Every link of the file service has its file, whatever fails or is killed *)
(* between the steps of an addition, a deletion, a deployment or a rotation, *)
(* as long as the menus, which take no lock, are not used during a task.    *)
THEOREM LinksHaveFiles ==
    ASSUME ~MenuDuringTasks
    PROVE  ServiceSpec => []PublishedFilesExist
<1>1. SvInv => PublishedFilesExist
  BY DEF SvInv, SvFilesInv, HaveFiles, PublishedFilesExist
<1>2. SvInv /\ [ServiceNext]_serviceVars => SvInv'
  BY SvStep
<1> QED  BY <1>1, <1>2, SvInitInv, PTL DEF ServiceSpec
-----------------------------------------------------------------------------
(* The types of the services, with menus used at any time                  *)

(* The links that rotations have made so far.                              *)
LinksOf(generation) == [id : SvIds, generation : 0..generation]

(* A service has a port from its installation on.                          *)
SvServicesInv ==
    /\ svServices \in [SvNames -> [state : SvStates, port : TcpPorts \cup {0}]]
    /\ \A s \in SvNames : SvInstalled(s) <=> svServices[s].port # 0

SvLinksInv ==
    /\ svDownloads \subseteq LinksOf(svGeneration) /\ svServed \subseteq LinksOf(svGeneration)
    /\ svShell.loaded \subseteq LinksOf(svGeneration)
    /\ svMenu = <<>> \/ \E L \in SUBSET LinksOf(svGeneration) : svMenu = <<L>>
    /\ svPayloads \subseteq SvIds /\ svUploads \subseteq UploadFiles

(* The rotations that were made, the one under way, and those to come.     *)
SvCountInv ==
    /\ svGeneration \in Nat /\ svBounds.rotations \in Nat
    /\ svBounds = [tasks |-> svBounds.tasks, rotations |-> svBounds.rotations,
                   troubles |-> svBounds.troubles]
    /\ svGeneration + svBounds.rotations + (IF svMenu = <<>> THEN 0 ELSE 1) <= MaxRotations

(* What a step that changes a service's state works on is installed.       *)
SvReadyInv ==
    /\ SvNow = "enable" => SvInstalled("file")
    /\ SvNow = "systemctl" => SvInstalled(svShell.task.service)
    /\ svShell.task.op = "deploy" => svShell.task.port # 0
    /\ svMenu # <<>> => SvInstalled("file")
    /\ svShell = [steps |-> svShell.steps, task |-> svShell.task, loaded |-> svShell.loaded]

SvPreviewsInv ==
    \A r \in svTasks :
        /\ r.task.op \in {"add", "delete", "deploy", "start", "stop", "restart"}
        /\ r.task.service \in SvNames /\ r.task.port \in TcpPorts \cup {0}
        /\ r.task.op = "add" => r.task.file \in UploadFiles
        /\ r.task.op = "deploy" => r.task.port # 0
        /\ r.task.op \in {"start", "stop", "restart"} => r.digest.state # "absent"

SvTypeInv ==
    /\ SvServicesInv /\ SvLinksInv /\ SvCountInv /\ SvScriptInv /\ SvReadyInv /\ SvPreviewsInv

(* Nothing is ever deinstalled.                                            *)
StayInstalled == \A s \in SvNames : SvInstalled(s) => SvInstalled(s)'

(* The state of an installed service changes, or nothing does.              *)
LEMMA StateChanges ==
    ASSUME SvServicesInv, NEW s \in SvNames, SvInstalled(s),
           NEW state \in {"stopped", "running", "failed"},
           svServices' = [svServices EXCEPT ![s].state = state]
    PROVE  SvServicesInv' /\ StayInstalled
<1>1. /\ svServices' \in [SvNames -> [state : SvStates, port : TcpPorts \cup {0}]]
      /\ svServices'[s].state = state /\ svServices'[s].port = svServices[s].port
      /\ \A o \in SvNames \ {s} : svServices'[o] = svServices[o]
  BY DEF SvServicesInv, SvStates
<1>2. state # "absent"
  OBVIOUS
<1>3. \A o \in SvNames : /\ SvInstalled(o)' <=> SvInstalled(o)
                         /\ svServices'[o].port = svServices[o].port
  BY <1>1, <1>2 DEF SvInstalled
<1> QED  BY <1>1, <1>3 DEF SvServicesInv, StayInstalled, SvNames

(* An installation gives a service its port.                               *)
LEMMA Installation ==
    ASSUME SvServicesInv, NEW s \in SvNames, NEW state \in {"stopped", "running", "failed"},
           NEW q \in TcpPorts \cup {0}, q # 0,
           svServices' = [svServices EXCEPT ![s] = [state |-> state, port |-> q]]
    PROVE  SvServicesInv' /\ StayInstalled /\ SvInstalled(s)'
<1>1. [state |-> state, port |-> q] \in [state : SvStates, port : TcpPorts \cup {0}]
  BY DEF SvStates
<1>2. /\ svServices' \in [SvNames -> [state : SvStates, port : TcpPorts \cup {0}]]
      /\ svServices'[s].state = state /\ svServices'[s].port = q
      /\ \A o \in SvNames \ {s} : svServices'[o] = svServices[o]
  BY <1>1 DEF SvServicesInv
<1>3. state # "absent"
  OBVIOUS
<1>4. \A o \in SvNames \ {s} : SvInstalled(o)' <=> SvInstalled(o)
  BY <1>2 DEF SvInstalled
<1>5. SvInstalled(s)'
  BY <1>2, <1>3 DEF SvInstalled
<1> QED  BY <1>2, <1>4, <1>5 DEF SvServicesInv, StayInstalled, SvNames

(* Services that nothing changes.                                          *)
LEMMA SameServices ==
    ASSUME SvServicesInv, UNCHANGED svServices
    PROVE  SvServicesInv' /\ StayInstalled
BY DEF SvServicesInv, StayInstalled, SvInstalled, SvNames

(* A step of a script leaves the next one ready.                           *)
LEMMA ReadyStep ==
    ASSUME SvScriptInv, SvReadyInv, svShell.steps # <<>>, svMenu' = svMenu, StayInstalled,
           svShell'.steps = Tail(svShell.steps), svShell'.task = svShell.task,
           svShell' = [steps |-> svShell'.steps, task |-> svShell'.task,
                       loaded |-> svShell'.loaded],
           SvNow = "config" => SvInstalled("file")'
    PROVE  SvScriptInv' /\ SvReadyInv'
<1>1. SvScriptInv' /\ SvNow' = SvNowOf(Tail(svShell.steps))
  BY SvRest
<1>2. SvNow' # "systemctl" /\ (SvNow' = "enable" => SvNow = "config")
  BY <1>1, SvGoing
<1>3. svMenu' # <<>> => SvInstalled("file")'
  BY DEF SvReadyInv, StayInstalled, SvNames
<1> QED  BY <1>1, <1>2, <1>3 DEF SvReadyInv

(* Nothing is left to be ready for.                                        *)
LEMMA ReadyIdle ==
    ASSUME SvReadyInv, svMenu' = svMenu, StayInstalled, svShell' = NoSvShell
    PROVE  SvScriptInv' /\ SvReadyInv'
<1>1. /\ SvScriptInv' /\ SvNow' = "" /\ svShell'.task.op = "none"
      /\ svShell' = [steps |-> svShell'.steps, task |-> svShell'.task, loaded |-> svShell'.loaded]
  BY NothingLeft
<1>2. svMenu' # <<>> => SvInstalled("file")'
  BY DEF SvReadyInv, StayInstalled, SvNames
<1> QED  BY <1>1, <1>2 DEF SvReadyInv

(* Between two steps only the installation of a service matters.           *)
LEMMA ReadyStays ==
    ASSUME SvScriptInv, SvReadyInv, StayInstalled, UNCHANGED svShell,
           svMenu' # <<>> => SvInstalled("file")'
    PROVE  SvScriptInv' /\ SvReadyInv'
<1>1. SvNow' = SvNow
  BY DEF SvNow
<1>2. SvScriptInv'
  BY DEF SvScriptInv, SvNames
<1>3. SvNow = "systemctl" => svShell.task.service \in SvNames
  <2>1. SvNow # "" => svShell.steps # <<>>
    BY DEF SvNow, SvNowOf
  <2> QED  BY <2>1 DEF SvScriptInv
<1> QED  BY <1>1, <1>2, <1>3 DEF SvReadyInv, StayInstalled, SvNames

(* Rotations are counted by the menu alone.                                *)
LEMMA CountStays ==
    ASSUME SvCountInv, UNCHANGED <<svGeneration, svMenu>>,
           svBounds' = svBounds \/ SpendSv("troubles") \/ SpendSv("tasks")
    PROVE  SvCountInv'
<1>1. /\ svBounds' = [tasks |-> svBounds'.tasks, rotations |-> svBounds'.rotations,
                      troubles |-> svBounds'.troubles]
      /\ svBounds'.rotations = svBounds.rotations
  <2>1. CASE svBounds' = svBounds
    BY <2>1 DEF SvCountInv
  <2>2. CASE SpendSv("troubles")
    BY <2>2 DEF SpendSv, SvCountInv
  <2>3. CASE SpendSv("tasks")
    BY <2>3 DEF SpendSv, SvCountInv
  <2> QED  BY <2>1, <2>2, <2>3
<1> QED  BY <1>1 DEF SvCountInv

(* Tasks that are left.                                                    *)
LEMMA PreviewsLeft ==
    ASSUME SvPreviewsInv, svTasks' \subseteq svTasks
    PROVE  SvPreviewsInv'
BY DEF SvPreviewsInv, SvNames

(* The facts of a start, a stop or a restart.                              *)
LEMMA ServiceFactsAre ==
    ASSUME NEW t, t.op \in {"start", "stop", "restart"}
    PROVE  Facts(t) = ServiceFacts(t)
<1>1. t.op \notin {"deploy", "add", "delete"}
  OBVIOUS
<1> QED  BY <1>1, Zenon DEF Facts

(* What previews keep of a task.                                           *)
LEMMA PreviewsTyped ==
    ASSUME SvServicesInv, SvPreviewsInv, svUploads \subseteq UploadFiles, PreviewAnySv
    PROVE  SvPreviewsInv'
<1>1. \E op, s, file, port :
         /\ PreviewSv(SvTask(op, s, file, port))
         /\ op \in {"add", "delete", "deploy", "start", "stop", "restart"}
         /\ s \in SvNames /\ port \in TcpPorts \cup {0}
         /\ op = "add" => file \in UploadFiles
         /\ op = "deploy" => port # 0
         /\ op \in {"start", "stop", "restart"} => svServices[s].state # "absent"
  <2>1. CASE \E s \in SvNames, q \in TcpPorts, f \in UploadFiles \cup {"none"} :
                PreviewDeployment(s, q, f)
    <3>1. PICK s \in SvNames, q \in TcpPorts, f \in UploadFiles \cup {"none"} :
             PreviewSv(SvTask("deploy", s, f, q))
      BY <2>1 DEF PreviewDeployment
    <3>2. q # 0 /\ q \in TcpPorts \cup {0}
      BY ServiceAssumption
    <3> QED  BY <3>1, <3>2
  <2>2. CASE \E op \in {"add", "delete"}, f \in UploadFiles \cup {"shared"} :
                PreviewFileTask(op, f)
    <3>1. PICK op \in {"add", "delete"}, f \in UploadFiles \cup {"shared"} :
             PreviewFileTask(op, f)
      BY <2>2
    <3>2. PreviewSv(SvTask(op, "file", f, 0)) /\ (op = "add" => f \in UploadFiles)
      BY <3>1 DEF PreviewFileTask, FileRequestValid
    <3>3. op \notin {"deploy", "start", "stop", "restart"} /\ "file" \in SvNames
      BY DEF SvNames
    <3> QED  BY <3>2, <3>3
  <2>3. CASE \E s \in SvNames, op \in {"start", "stop", "restart"} : PreviewServiceChange(s, op)
    <3>1. PICK s \in SvNames, op \in {"start", "stop", "restart"} : PreviewServiceChange(s, op)
      BY <2>3
    <3>2. PreviewSv(SvTask(op, s, "none", 0)) /\ op \notin {"add", "deploy"}
      BY <3>1 DEF PreviewServiceChange
    <3>3. op \in AllowedOperations(s)
      BY <3>1 DEF PreviewServiceChange
    <3>4. svServices[s].state # "absent"
      BY <3>3 DEF AllowedOperations
    <3> QED  BY <3>2, <3>4
  <2> QED  BY <2>1, <2>2, <2>3 DEF PreviewAnySv
<1>2. PICK op, s, file, port :
         /\ PreviewSv(SvTask(op, s, file, port))
         /\ op \in {"add", "delete", "deploy", "start", "stop", "restart"}
         /\ s \in SvNames /\ port \in TcpPorts \cup {0}
         /\ op = "add" => file \in UploadFiles
         /\ op = "deploy" => port # 0
         /\ op \in {"start", "stop", "restart"} => svServices[s].state # "absent"
  BY <1>1
<1> DEFINE t == SvTask(op, s, file, port)
           new == [task |-> StoredTask(t), digest |-> Facts(t), stored |-> Facts(StoredTask(t))]
<1>3. svTasks' = svTasks \cup {new}
  BY <1>2 DEF PreviewSv
<1>4. /\ t.op = op /\ t.service = s /\ t.file = file /\ t.port = port
      /\ t = [op |-> op, service |-> s, file |-> file, port |-> port, staged |-> FALSE]
  BY DEF SvTask
<1>5. /\ StoredTask(t).op = op /\ StoredTask(t).service = s
      /\ StoredTask(t).file = file /\ StoredTask(t).port = port
  BY <1>4 DEF StoredTask
<1>6. op \in {"start", "stop", "restart"} => Facts(t).state # "absent"
  <2> HAVE op \in {"start", "stop", "restart"}
  <2>1. Facts(t) = ServiceFacts(t)
    BY <1>4, ServiceFactsAre
  <2>2. ServiceFacts(t).state = svServices[s].state
    BY <1>4 DEF ServiceFacts
  <2> QED  BY <1>2, <2>1, <2>2
<1>7. new.task = StoredTask(t) /\ new.digest = Facts(t)
  OBVIOUS
<1> HIDE DEF new, t
<1>8. /\ new.task.op \in {"add", "delete", "deploy", "start", "stop", "restart"}
      /\ new.task.service \in SvNames /\ new.task.port \in TcpPorts \cup {0}
      /\ new.task.op = "add" => new.task.file \in UploadFiles
      /\ new.task.op = "deploy" => new.task.port # 0
      /\ new.task.op \in {"start", "stop", "restart"} => new.digest.state # "absent"
  BY <1>2, <1>5, <1>6, <1>7
<1> QED  BY <1>3, <1>8 DEF SvPreviewsInv, SvNames

(* A task whose facts still hold starts its script ready.                  *)
LEMMA ReadyStart ==
    ASSUME SvTypeInv, NEW r \in svTasks, ExecuteTask(r)
    PROVE  SvTypeInv'
<1>0. SvServicesInv /\ SvLinksInv /\ SvCountInv /\ SvScriptInv /\ SvReadyInv /\ SvPreviewsInv
  BY DEF SvTypeInv
<1>1. /\ svTasks' = svTasks \ {r}
      /\ UNCHANGED <<svServices, svDownloads, svServed, svPayloads, svGeneration, svMenu, svBounds>>
  BY DEF ExecuteTask
<1>2. SvServicesInv' /\ StayInstalled
  BY <1>0, <1>1, SameServices
<1>3. SvCountInv' /\ SvPreviewsInv'
  BY <1>0, <1>1, CountStays, PreviewsLeft
<1>4. svMenu' # <<>> => SvInstalled("file")'
  BY <1>0, <1>1, <1>2 DEF SvReadyInv, StayInstalled, SvNames
<1>5. CASE svUploads' = AfterCleanup(r.task) /\ UNCHANGED svShell
  <2>1. SvScriptInv' /\ SvReadyInv'
    BY <1>0, <1>2, <1>4, <1>5, ReadyStays
  <2>2. svUploads' \subseteq svUploads
    BY <1>5, CleanedUp
  <2>3. SvLinksInv'
    BY <1>0, <1>1, <1>5, <2>2 DEF SvLinksInv, LinksOf, SvIds
  <2> QED  BY <1>2, <1>3, <2>1, <2>3 DEF SvTypeInv
<1>6. CASE /\ Facts(r.task) = r.digest /\ UNCHANGED svUploads
           /\ svShell' = [steps |-> StepsOf(r.task), task |-> r.task, loaded |-> {}]
  <2>1. /\ svShell'.steps = StepsOf(r.task) /\ svShell'.task = r.task /\ svShell'.loaded = {}
        /\ svShell' = [steps |-> svShell'.steps, task |-> svShell'.task,
                       loaded |-> svShell'.loaded]
    BY <1>6
  <2>2. /\ r.task.op \in {"add", "delete", "deploy", "start", "stop", "restart"}
        /\ r.task.service \in SvNames /\ r.task.port \in TcpPorts \cup {0}
        /\ r.task.op = "add" => r.task.file \in UploadFiles
        /\ r.task.op = "deploy" => r.task.port # 0
        /\ r.task.op \in {"start", "stop", "restart"} => r.digest.state # "absent"
    BY <1>0 DEF SvPreviewsInv
  <2>3. r.task.op \in {"start", "stop", "restart"} => SvInstalled(r.task.service)
    <3> HAVE r.task.op \in {"start", "stop", "restart"}
    <3>1. ServiceFacts(r.task).state # "absent"
      BY <1>6, <2>2, ServiceFactsAre
    <3> QED  BY <3>1 DEF ServiceFacts, SvInstalled
  <2>4. SvScriptInv'
    BY <2>1, <2>2, StepsAre DEF SvScriptInv, AddRest, DeleteRest, DeployRest, SvNames
  <2>5. /\ r.task.op \in {"add", "delete"} => SvNow' = "load"
        /\ r.task.op = "deploy" /\ r.task.service = "file" => SvNow' = "payload"
        /\ r.task.op = "deploy" /\ r.task.service # "file" => SvNow' = "install"
    <3>1. /\ SvNowOf(<<"load", "copy", "write", "restart">>) = "load"
          /\ SvNowOf(<<"load", "write", "restart", "purge">>) = "load"
      BY DEF SvNowOf
    <3>2. /\ SvNowOf(<<"payload", "config", "enable">>) = "payload"
          /\ SvNowOf(<<"install">>) = "install"
      BY DEF SvNowOf
    <3> QED  BY <2>1, <2>2, <3>1, <3>2, StepsAre DEF SvNow
  <2>6. r.task.op \in {"start", "stop", "restart"} => SvNow' = "systemctl"
    <3>1. SvNowOf(<<"systemctl">>) = "systemctl"
      BY DEF SvNowOf
    <3> QED  BY <2>1, <3>1, StepsAre DEF SvNow
  <2>7. SvNow' = "systemctl" => SvInstalled(svShell.task.service)'
    <3>1. SvNow' = "systemctl" => SvInstalled(r.task.service)'
      BY <1>2, <2>2, <2>3, <2>5 DEF StayInstalled
    <3> QED  BY <2>1, <3>1 DEF SvInstalled
  <2>8. SvNow' # "enable"
    BY <2>2, <2>5, <2>6
  <2>9. SvReadyInv'
    BY <1>4, <2>1, <2>2, <2>7, <2>8 DEF SvReadyInv
  <2>10. SvLinksInv'
    BY <1>0, <1>1, <1>6, <2>1 DEF SvLinksInv, LinksOf, SvIds
  <2> QED  BY <1>2, <1>3, <2>4, <2>9, <2>10 DEF SvTypeInv
<1> QED  BY <1>5, <1>6 DEF ExecuteTask

(* Links and files that a step of a script leaves as they should be.       *)
LEMMA LinksKeep ==
    ASSUME SvLinksInv, UNCHANGED <<svGeneration, svMenu>>,
           svDownloads' \subseteq LinksOf(svGeneration),
           svServed' \subseteq LinksOf(svGeneration),
           svShell'.loaded \subseteq LinksOf(svGeneration),
           svPayloads' \subseteq SvIds, svUploads' \subseteq svUploads
    PROVE  SvLinksInv'
<1>1. /\ LinksOf(svGeneration)' = LinksOf(svGeneration)
      /\ svMenu' = <<>> \/ \E L \in SUBSET LinksOf(svGeneration) : svMenu' = <<L>>
  BY DEF SvLinksInv, LinksOf, SvIds
<1>2. svPayloads' \subseteq SvIds' /\ svUploads' \subseteq UploadFiles
  BY DEF SvLinksInv, SvIds
<1> QED  BY <1>1, <1>2 DEF SvLinksInv, LinksOf, SvIds

(* A script takes its next step, or ends.                                  *)
LEMMA ScriptStep ==
    ASSUME SvTypeInv, svShell.steps # <<>>, UNCHANGED <<svGeneration, svTasks, svMenu>>,
           svBounds' = svBounds \/ SpendSv("troubles"),
           SvServicesInv', StayInstalled,
           svDownloads' \subseteq LinksOf(svGeneration),
           svServed' \subseteq LinksOf(svGeneration),
           svPayloads' \subseteq SvIds, svUploads' \subseteq svUploads,
           SvNow = "config" => SvInstalled("file")',
           \/ svShell' = [svShell EXCEPT !.steps = Tail(@)]
           \/ svShell' = [svShell EXCEPT !.steps = Tail(@), !.loaded = svDownloads]
           \/ svShell' = NoSvShell
    PROVE  SvTypeInv'
<1>0. SvServicesInv /\ SvLinksInv /\ SvCountInv /\ SvScriptInv /\ SvReadyInv /\ SvPreviewsInv
  BY DEF SvTypeInv
<1>1. SvCountInv' /\ SvPreviewsInv'
  BY <1>0, CountStays, PreviewsLeft
<1>2. svMenu' = svMenu /\ svShell = [steps |-> svShell.steps, task |-> svShell.task,
                                     loaded |-> svShell.loaded]
  BY <1>0 DEF SvReadyInv
<1>3. CASE svShell' = NoSvShell
  <2>1. svShell'.loaded = {}
    BY <1>3, NothingLeft
  <2>2. SvLinksInv'
    BY <1>0, <2>1, LinksKeep
  <2>3. SvScriptInv' /\ SvReadyInv'
    BY <1>0, <1>2, <1>3, ReadyIdle
  <2> QED  BY <1>1, <2>2, <2>3 DEF SvTypeInv
<1>4. ASSUME NEW links \in {svShell.loaded, svDownloads},
             svShell' = [steps |-> Tail(svShell.steps), task |-> svShell.task,
                         loaded |-> links]
      PROVE  SvTypeInv'
  <2>1. /\ svShell'.steps = Tail(svShell.steps) /\ svShell'.task = svShell.task
        /\ svShell'.loaded = links
        /\ svShell' = [steps |-> svShell'.steps, task |-> svShell'.task,
                       loaded |-> svShell'.loaded]
    BY <1>4
  <2>2. SvLinksInv'
    <3>1. links \subseteq LinksOf(svGeneration)
      BY <1>0 DEF SvLinksInv
    <3> QED  BY <1>0, <2>1, <3>1, LinksKeep
  <2>3. SvScriptInv' /\ SvReadyInv'
    BY <1>0, <1>2, <2>1, ReadyStep
  <2> QED  BY <1>1, <2>2, <2>3 DEF SvTypeInv
<1>5. CASE svShell' = [svShell EXCEPT !.steps = Tail(@)]
  <2>1. svShell' = [steps |-> Tail(svShell.steps), task |-> svShell.task,
                    loaded |-> svShell.loaded]
    BY <1>2, <1>5
  <2> QED  BY <1>4, <2>1
<1>6. CASE svShell' = [svShell EXCEPT !.steps = Tail(@), !.loaded = svDownloads]
  <2>1. svShell' = [steps |-> Tail(svShell.steps), task |-> svShell.task,
                    loaded |-> svDownloads]
    BY <1>2, <1>6
  <2> QED  BY <1>4, <2>1
<1> QED  BY <1>3, <1>5, <1>6

(* The facts of SvTypeInv that a step of a script needs.                    *)
LEMMA TypeFacts ==
    ASSUME SvTypeInv
    PROVE  /\ SvServicesInv /\ SvScriptInv /\ SvReadyInv
           /\ svDownloads \subseteq LinksOf(svGeneration)
           /\ svServed \subseteq LinksOf(svGeneration)
           /\ svShell.loaded \subseteq LinksOf(svGeneration)
           /\ svPayloads \subseteq SvIds /\ svUploads \subseteq UploadFiles
           /\ svGeneration \in Nat
BY DEF SvTypeInv, SvLinksInv, SvCountInv

(* A new link is one of the present generation.                             *)
LEMMA NewLink ==
    ASSUME svGeneration \in Nat, NEW id \in SvIds
    PROVE  Link(id) \in LinksOf(svGeneration)
<1>1. svGeneration \in 0..svGeneration
  OBVIOUS
<1> QED  BY <1>1 DEF Link, LinksOf

(* The steps of a script, one by one.                                       *)
LEMMA FileScriptTyped == ASSUME SvTypeInv, FileScript PROVE SvTypeInv'
<1>0. /\ SvServicesInv /\ SvScriptInv /\ SvReadyInv
      /\ svDownloads \subseteq LinksOf(svGeneration)
      /\ svServed \subseteq LinksOf(svGeneration)
      /\ svShell.loaded \subseteq LinksOf(svGeneration)
      /\ svPayloads \subseteq SvIds /\ svUploads \subseteq UploadFiles /\ svGeneration \in Nat
  BY TypeFacts
<1>1. CASE LoadDownloads
  <2>1. /\ UNCHANGED <<svServices, svDownloads, svServed, svPayloads, svGeneration, svTasks,
                       svMenu, svBounds>>
        /\ \/ /\ svShell' = [svShell EXCEPT !.steps = Tail(@), !.loaded = svDownloads]
              /\ svUploads' = svUploads
           \/ svShell' = NoSvShell /\ svUploads' = AfterCleanup(svShell.task)
    BY <1>1 DEF LoadDownloads
  <2>2. svShell.steps # <<>> /\ SvNow = "load"
    BY <1>1, AtIs DEF LoadDownloads
  <2>3. svUploads' \subseteq svUploads
    BY <2>1, CleanedUp
  <2>4. SvServicesInv' /\ StayInstalled
    BY <1>0, <2>1, SameServices
  <2>5. SvNow = "config" => SvInstalled("file")'
    BY <2>2
  <2> QED  BY <1>0, <2>1, <2>2, <2>3, <2>4, <2>5, ScriptStep
<1>2. CASE CopyPayload
  <2>1. /\ UNCHANGED <<svServices, svDownloads, svServed, svGeneration, svTasks, svMenu>>
        /\ svPayloads' = svPayloads \cup {svShell.task.file} \/ svPayloads' = svPayloads
        /\ svUploads' = svUploads \/ svUploads' = AfterCleanup(svShell.task)
        /\ svBounds' = svBounds \/ SpendSv("troubles")
        /\ svShell' = [svShell EXCEPT !.steps = Tail(@)] \/ svShell' = NoSvShell
    BY <1>2 DEF CopyPayload, Step
  <2>2. svShell.steps # <<>> /\ SvNow = "copy"
    BY <1>2, AtIs DEF CopyPayload
  <2>3. svUploads' \subseteq svUploads
    BY <2>1, CleanedUp
  <2>4. SvServicesInv' /\ StayInstalled
    BY <1>0, <2>1, SameServices
  <2>5. svShell.task.op = "add"
    BY <1>0, <2>2, SvGoing
  <2>6. svPayloads' \subseteq SvIds
    BY <1>0, <2>1, <2>5 DEF SvScriptInv, SvIds
  <2>7. SvNow = "config" => SvInstalled("file")'
    BY <2>2
  <2> QED  BY <1>0, <2>1, <2>2, <2>3, <2>4, <2>6, <2>7, ScriptStep
<1>3. CASE WriteDownloads
  <2>1. /\ UNCHANGED <<svServices, svServed, svPayloads, svGeneration, svTasks, svMenu, svBounds>>
        /\ svDownloads' = IF svShell.task.op = "add"
                          THEN svShell.loaded \cup {Link(svShell.task.file)}
                          ELSE {d \in svShell.loaded : d.id # svShell.task.file}
        /\ svUploads' = AfterCleanup(svShell.task)
        /\ svShell' = [svShell EXCEPT !.steps = Tail(@)]
    BY <1>3 DEF WriteDownloads, Step
  <2>2. svShell.steps # <<>> /\ SvNow = "write"
    BY <1>3, AtIs DEF WriteDownloads
  <2>3. svUploads' \subseteq svUploads
    BY <2>1, CleanedUp
  <2>4. SvServicesInv' /\ StayInstalled
    BY <1>0, <2>1, SameServices
  <2>5. svDownloads' \subseteq LinksOf(svGeneration)
    <3>1. CASE svShell.task.op = "add"
      <4>1. Link(svShell.task.file) \in LinksOf(svGeneration)
        BY <1>0, <3>1, NewLink DEF SvScriptInv, SvIds
      <4> QED  BY <1>0, <2>1, <3>1, <4>1
    <3>2. CASE svShell.task.op # "add"
      BY <1>0, <2>1, <3>2
    <3> QED  BY <3>1, <3>2
  <2>6. SvNow = "config" => SvInstalled("file")'
    BY <2>2
  <2> QED  BY <1>0, <2>1, <2>2, <2>3, <2>4, <2>5, <2>6, ScriptStep
<1>4. CASE RestartServer
  <2>1. /\ UNCHANGED <<svServices, svDownloads, svPayloads, svUploads, svGeneration, svTasks,
                       svMenu, svBounds>>
        /\ svServed' = svDownloads \/ svServed' = svServed
        /\ svShell' = [svShell EXCEPT !.steps = Tail(@)]
    BY <1>4 DEF RestartServer, Step
  <2>2. svShell.steps # <<>> /\ SvNow = "restart"
    BY <1>4, AtIs DEF RestartServer
  <2>3. SvServicesInv' /\ StayInstalled
    BY <1>0, <2>1, SameServices
  <2>4. SvNow = "config" => SvInstalled("file")'
    BY <2>2
  <2> QED  BY <1>0, <2>1, <2>2, <2>3, <2>4, ScriptStep
<1>5. CASE RestartFails
  <2>1. /\ UNCHANGED <<svUploads, svGeneration, svTasks, svMenu>>
        /\ SpendSv("troubles")
        /\ svDownloads' = svShell.loaded
        /\ svServed' = svShell.loaded \/ svServed' = {}
        /\ \/ svServices' = svServices
           \/ svServices' = [svServices EXCEPT !["file"].state = "failed"]
        /\ svPayloads' \subseteq svPayloads
        /\ svShell' = NoSvShell
        /\ SvInstalled("file")
    BY <1>5 DEF RestartFails, Running, SvInstalled
  <2>2. svShell.steps # <<>> /\ SvNow = "restart"
    BY <1>5, AtIs DEF RestartFails
  <2>3. SvServicesInv' /\ StayInstalled
    <3>1. "file" \in SvNames /\ "failed" \in {"stopped", "running", "failed"}
      BY DEF SvNames
    <3> QED  BY <1>0, <2>1, <3>1, SameServices, StateChanges
  <2>4. SvNow = "config" => SvInstalled("file")'
    BY <2>2
  <2> QED  BY <1>0, <2>1, <2>2, <2>3, <2>4, ScriptStep
<1>6. CASE PurgePayload
  <2>1. /\ UNCHANGED <<svServices, svDownloads, svServed, svUploads, svGeneration, svTasks,
                       svMenu, svBounds>>
        /\ svPayloads' \subseteq svPayloads
        /\ svShell' = [svShell EXCEPT !.steps = Tail(@)]
    BY <1>6 DEF PurgePayload, Step
  <2>2. svShell.steps # <<>> /\ SvNow = "purge"
    BY <1>6, AtIs DEF PurgePayload
  <2>3. SvServicesInv' /\ StayInstalled
    BY <1>0, <2>1, SameServices
  <2>4. SvNow = "config" => SvInstalled("file")'
    BY <2>2
  <2> QED  BY <1>0, <2>1, <2>2, <2>3, <2>4, ScriptStep
<1> QED  BY <1>1, <1>2, <1>3, <1>4, <1>5, <1>6 DEF FileScript

(* The first deployment of a service, step by step.                         *)
LEMMA DeployScriptTyped == ASSUME SvTypeInv, DeployScript PROVE SvTypeInv'
<1>0. /\ SvServicesInv /\ SvScriptInv /\ SvReadyInv
      /\ svDownloads \subseteq LinksOf(svGeneration)
      /\ svServed \subseteq LinksOf(svGeneration)
      /\ svShell.loaded \subseteq LinksOf(svGeneration)
      /\ svPayloads \subseteq SvIds /\ svUploads \subseteq UploadFiles /\ svGeneration \in Nat
  BY TypeFacts
<1>1. CASE InstallPayload
  <2>1. /\ UNCHANGED <<svServices, svDownloads, svServed, svGeneration, svTasks, svMenu, svBounds>>
        /\ svPayloads' = svPayloads \cup {"shared"}
        /\ svUploads' = AfterCleanup(svShell.task)
        /\ svShell' = [svShell EXCEPT !.steps = Tail(@)]
    BY <1>1 DEF InstallPayload, Step
  <2>2. svShell.steps # <<>> /\ SvNow = "payload"
    BY <1>1, AtIs DEF InstallPayload
  <2>3. svUploads' \subseteq svUploads /\ svPayloads' \subseteq SvIds
    BY <1>0, <2>1, CleanedUp DEF SvIds
  <2>4. SvServicesInv' /\ StayInstalled
    BY <1>0, <2>1, SameServices
  <2>5. SvNow = "config" => SvInstalled("file")'
    BY <2>2
  <2> QED  BY <1>0, <2>1, <2>2, <2>3, <2>4, <2>5, ScriptStep
<1>2. CASE WriteFirstConfig
  <2>1. /\ UNCHANGED <<svServed, svPayloads, svUploads, svGeneration, svTasks, svMenu, svBounds>>
        /\ svDownloads' = {Link("shared")}
        /\ svServices' = [svServices EXCEPT
                            !["file"] = [state |-> "stopped", port |-> svShell.task.port]]
        /\ svShell' = [svShell EXCEPT !.steps = Tail(@)]
    BY <1>2 DEF WriteFirstConfig, Step
  <2>2. svShell.steps # <<>> /\ SvNow = "config"
    BY <1>2, AtIs DEF WriteFirstConfig
  <2>3. svShell.task.op = "deploy"
    BY <1>0, <2>2, SvGoing
  <2>4. svShell.task.port \in TcpPorts \cup {0} /\ svShell.task.port # 0
    BY <1>0, <2>3 DEF SvScriptInv, SvReadyInv
  <2>5. SvServicesInv' /\ StayInstalled /\ SvInstalled("file")'
    <3>1. "file" \in SvNames /\ "stopped" \in {"stopped", "running", "failed"}
      BY DEF SvNames
    <3> QED  BY <1>0, <2>1, <2>4, <3>1, Installation
  <2>6. svDownloads' \subseteq LinksOf(svGeneration)
    <3>1. "shared" \in SvIds
      BY DEF SvIds
    <3> QED  BY <1>0, <2>1, <3>1, NewLink
  <2> QED  BY <1>0, <2>1, <2>2, <2>5, <2>6, ScriptStep
<1>3. CASE EnableServer
  <2>1. /\ UNCHANGED <<svDownloads, svPayloads, svUploads, svGeneration, svTasks, svMenu>>
        /\ \/ svServices' = [svServices EXCEPT !["file"].state = "running"]
           \/ svServices' = [svServices EXCEPT !["file"].state = "failed"]
        /\ svServed' = svDownloads \/ svServed' = svServed
        /\ svBounds' = svBounds \/ SpendSv("troubles")
        /\ svShell' = [svShell EXCEPT !.steps = Tail(@)]
    BY <1>3 DEF EnableServer, Step
  <2>2. svShell.steps # <<>> /\ SvNow = "enable"
    BY <1>3, AtIs DEF EnableServer
  <2>3. SvInstalled("file")
    BY <1>0, <2>2 DEF SvReadyInv
  <2>4. SvServicesInv' /\ StayInstalled
    <3>1. "file" \in SvNames /\ {"running", "failed"} \subseteq {"stopped", "running", "failed"}
      BY DEF SvNames
    <3> QED  BY <1>0, <2>1, <2>3, <3>1, StateChanges
  <2>5. SvNow = "config" => SvInstalled("file")'
    BY <2>2
  <2> QED  BY <1>0, <2>1, <2>2, <2>4, <2>5, ScriptStep
<1>4. CASE InstallService
  <2>1. /\ UNCHANGED <<svDownloads, svServed, svPayloads, svUploads, svGeneration, svTasks, svMenu>>
        /\ svShell' = [svShell EXCEPT !.steps = Tail(@)]
        /\ svBounds' = svBounds \/ SpendSv("troubles")
        /\ \/ svServices' = svServices
           \/ \E state \in {"stopped", "running", "failed"} :
                 svServices' = [svServices EXCEPT
                     ![svShell.task.service] = [state |-> state, port |-> svShell.task.port]]
    BY <1>4 DEF InstallService, Step
  <2>2. svShell.steps # <<>> /\ SvNow = "install"
    BY <1>4, AtIs DEF InstallService
  <2>3. svShell.task.op = "deploy"
    BY <1>0, <2>2, SvGoing
  <2>4. /\ svShell.task.port \in TcpPorts \cup {0} /\ svShell.task.port # 0
        /\ svShell.task.service \in SvNames
    BY <1>0, <2>3 DEF SvScriptInv, SvReadyInv
  <2>5. SvServicesInv' /\ StayInstalled
    <3>1. CASE svServices' = svServices
      BY <1>0, <3>1, SameServices
    <3>2. CASE \E state \in {"stopped", "running", "failed"} :
                  svServices' = [svServices EXCEPT
                      ![svShell.task.service] = [state |-> state, port |-> svShell.task.port]]
      BY <1>0, <2>4, <3>2, Installation
    <3> QED  BY <2>1, <3>1, <3>2
  <2>6. SvNow = "config" => SvInstalled("file")'
    BY <2>2
  <2> QED  BY <1>0, <2>1, <2>2, <2>5, <2>6, ScriptStep
<1> QED  BY <1>1, <1>2, <1>3, <1>4 DEF DeployScript

(* A start, a stop or a restart, and a script that is killed.               *)
LEMMA ChangeServiceTyped == ASSUME SvTypeInv, ChangeService PROVE SvTypeInv'
<1>0. /\ SvServicesInv /\ SvScriptInv /\ SvReadyInv
      /\ svDownloads \subseteq LinksOf(svGeneration)
      /\ svServed \subseteq LinksOf(svGeneration)
      /\ svPayloads \subseteq SvIds /\ svUploads \subseteq UploadFiles
  BY TypeFacts
<1>1. /\ UNCHANGED <<svDownloads, svPayloads, svUploads, svGeneration, svTasks, svMenu>>
      /\ svShell' = [svShell EXCEPT !.steps = Tail(@)]
      /\ svBounds' = svBounds \/ SpendSv("troubles")
      /\ \E state \in {"stopped", "running", "failed"} :
            svServices' = [svServices EXCEPT ![svShell.task.service].state = state]
      /\ svServed' \in {svServed, svDownloads, {}}
  BY DEF ChangeService, Step
<1>2. svShell.steps # <<>> /\ SvNow = "systemctl"
  BY AtIs DEF ChangeService
<1>3. SvInstalled(svShell.task.service) /\ svShell.task.service \in SvNames
  BY <1>0, <1>2 DEF SvReadyInv, SvScriptInv
<1>4. SvServicesInv' /\ StayInstalled
  BY <1>0, <1>1, <1>3, StateChanges
<1>5. SvNow = "config" => SvInstalled("file")'
  BY <1>2
<1>6. svServed' \subseteq LinksOf(svGeneration)
  BY <1>0, <1>1
<1> QED  BY <1>0, <1>1, <1>2, <1>4, <1>5, <1>6, ScriptStep

(* A script that is killed.                                                 *)
LEMMA KillTyped == ASSUME SvTypeInv, KillSvShell PROVE SvTypeInv'
<1>0. SvServicesInv /\ SvLinksInv /\ SvCountInv /\ SvScriptInv /\ SvReadyInv /\ SvPreviewsInv
  BY DEF SvTypeInv
<1>1. /\ UNCHANGED <<svServices, svDownloads, svServed, svPayloads, svGeneration, svTasks, svMenu>>
      /\ svUploads' = AfterCleanup(svShell.task)
      /\ svShell' = NoSvShell /\ SpendSv("troubles")
  BY DEF KillSvShell
<1>2. SvServicesInv' /\ StayInstalled
  BY <1>0, <1>1, SameServices
<1>3. SvCountInv' /\ SvPreviewsInv'
  BY <1>0, <1>1, CountStays, PreviewsLeft
<1>4. SvScriptInv' /\ SvReadyInv'
  BY <1>0, <1>1, <1>2, ReadyIdle
<1>5. SvLinksInv'
  <2>1. svShell'.loaded = {} /\ svUploads' \subseteq svUploads
    BY <1>1, NothingLeft, CleanedUp
  <2>2. /\ svDownloads \subseteq LinksOf(svGeneration) /\ svServed \subseteq LinksOf(svGeneration)
        /\ svPayloads \subseteq SvIds
    BY <1>0 DEF SvLinksInv
  <2> QED  BY <1>0, <1>1, <2>1, <2>2, LinksKeep
<1> QED  BY <1>2, <1>3, <1>4, <1>5 DEF SvTypeInv

(* A preview and an upload leave the services alone.                        *)
LEMMA PreviewTyped == ASSUME SvTypeInv, PreviewAnySv PROVE SvTypeInv'
<1>0. SvServicesInv /\ SvLinksInv /\ SvCountInv /\ SvScriptInv /\ SvReadyInv /\ SvPreviewsInv
  BY DEF SvTypeInv
<1>1. /\ UNCHANGED <<svServices, svDownloads, svServed, svPayloads, svUploads, svGeneration,
                     svShell, svMenu>>
      /\ SpendSv("tasks")
  BY DEF PreviewAnySv, PreviewDeployment, PreviewFileTask, PreviewServiceChange, PreviewSv
<1>2. SvServicesInv' /\ StayInstalled
  BY <1>0, <1>1, SameServices
<1>3. SvCountInv'
  BY <1>0, <1>1, CountStays
<1>4. svMenu' # <<>> => SvInstalled("file")'
  BY <1>0, <1>1, <1>2 DEF SvReadyInv, StayInstalled, SvNames
<1>5. SvScriptInv' /\ SvReadyInv'
  BY <1>0, <1>1, <1>2, <1>4, ReadyStays
<1>6. SvLinksInv'
  BY <1>0, <1>1 DEF SvLinksInv, LinksOf, SvIds
<1>7. SvPreviewsInv'
  BY <1>0, PreviewsTyped DEF SvLinksInv
<1> QED  BY <1>2, <1>3, <1>5, <1>6, <1>7 DEF SvTypeInv

(* An upload is one of the files the website stages.                        *)
LEMMA UploadTyped ==
    ASSUME SvTypeInv, NEW f \in UploadFiles, StageUpload(f)
    PROVE  SvTypeInv'
<1>0. SvServicesInv /\ SvLinksInv /\ SvCountInv /\ SvScriptInv /\ SvReadyInv /\ SvPreviewsInv
  BY DEF SvTypeInv
<1>1. /\ UNCHANGED <<svServices, svDownloads, svServed, svPayloads, svGeneration, svTasks,
                     svShell, svMenu, svBounds>>
      /\ svUploads' = svUploads \cup {f}
  BY DEF StageUpload
<1>2. SvServicesInv' /\ StayInstalled
  BY <1>0, <1>1, SameServices
<1>3. SvCountInv' /\ SvPreviewsInv'
  BY <1>0, <1>1, CountStays, PreviewsLeft
<1>4. svMenu' # <<>> => SvInstalled("file")'
  BY <1>0, <1>1, <1>2 DEF SvReadyInv, StayInstalled, SvNames
<1>5. SvScriptInv' /\ SvReadyInv'
  BY <1>0, <1>1, <1>2, <1>4, ReadyStays
<1>6. SvLinksInv'
  BY <1>0, <1>1 DEF SvLinksInv, LinksOf, SvIds
<1> QED  BY <1>2, <1>3, <1>5, <1>6 DEF SvTypeInv

(* The administrator's installation starts a script with a port.            *)
LEMMA MenuInstallTyped ==
    ASSUME SvTypeInv, NEW q \in TcpPorts, MenuInstall(q)
    PROVE  SvTypeInv'
<1>0. SvServicesInv /\ SvLinksInv /\ SvCountInv /\ SvScriptInv /\ SvReadyInv /\ SvPreviewsInv
  BY DEF SvTypeInv
<1>1. /\ UNCHANGED <<svServices, svDownloads, svServed, svPayloads, svUploads, svGeneration,
                     svTasks, svMenu, svBounds>>
      /\ svMenu = <<>>
      /\ svShell' = [NoSvShell EXCEPT !.steps = DeploySteps("file"),
                                      !.task = SvTask("deploy", "file", "none", q)]
  BY DEF MenuInstall, MenuIdle
<1>2. /\ svShell'.steps = <<"payload", "config", "enable">> /\ svShell'.loaded = {}
      /\ svShell'.task = [op |-> "deploy", service |-> "file", file |-> "none", port |-> q,
                          staged |-> FALSE]
      /\ svShell' = [steps |-> svShell'.steps, task |-> svShell'.task,
                     loaded |-> svShell'.loaded]
  BY <1>1 DEF NoSvShell, DeploySteps, SvTask
<1>3. SvServicesInv' /\ StayInstalled
  BY <1>0, <1>1, SameServices
<1>4. SvCountInv' /\ SvPreviewsInv'
  BY <1>0, <1>1, CountStays, PreviewsLeft
<1>5. SvLinksInv'
  <2>1. /\ svDownloads \subseteq LinksOf(svGeneration) /\ svServed \subseteq LinksOf(svGeneration)
        /\ svPayloads \subseteq SvIds
    BY <1>0 DEF SvLinksInv
  <2> QED  BY <1>0, <1>1, <1>2, <2>1, LinksKeep
<1>6. SvNow' = "payload"
  <2>1. SvNowOf(<<"payload", "config", "enable">>) = "payload"
    BY DEF SvNowOf
  <2> QED  BY <1>2, <2>1 DEF SvNow
<1>7. svShell'.task.op = "deploy" /\ svShell'.task.service = "file" /\ svShell'.task.port = q
  BY <1>2
<1>8. q \in TcpPorts \cup {0} /\ q # 0 /\ "file" \in SvNames
  BY ServiceAssumption DEF SvNames
<1>9. SvScriptInv'
  <2>1. svShell'.steps \in DeployRest
    BY <1>2 DEF DeployRest
  <2> QED  BY <1>7, <1>8, <2>1 DEF SvScriptInv, SvNames, DeployRest
<1>10. SvReadyInv'
  BY <1>1, <1>2, <1>6, <1>7, <1>8 DEF SvReadyInv
<1> QED  BY <1>3, <1>4, <1>5, <1>9, <1>10 DEF SvTypeInv

(* A rotation that begins is taken from those to come.                      *)
LEMMA RotateReadTyped == ASSUME SvTypeInv, RotateRead PROVE SvTypeInv'
<1>0. SvServicesInv /\ SvLinksInv /\ SvCountInv /\ SvScriptInv /\ SvReadyInv /\ SvPreviewsInv
  BY DEF SvTypeInv
<1>1. /\ UNCHANGED <<svServices, svDownloads, svServed, svPayloads, svUploads, svGeneration,
                     svTasks, svShell>>
      /\ svMenu = <<>> /\ svMenu' = <<svDownloads>>
      /\ SvInstalled("file") /\ SpendSv("rotations")
  BY DEF RotateRead, MenuIdle
<1>2. SvServicesInv' /\ StayInstalled
  BY <1>0, <1>1, SameServices
<1>3. svMenu' # <<>> => SvInstalled("file")'
  BY <1>1 DEF SvInstalled
<1>4. SvScriptInv' /\ SvReadyInv'
  BY <1>0, <1>1, <1>2, <1>3, ReadyStays
<1>5. SvPreviewsInv'
  BY <1>0, <1>1, PreviewsLeft
<1>6. SvLinksInv'
  <2>1. svDownloads \in SUBSET LinksOf(svGeneration)
    BY <1>0 DEF SvLinksInv
  <2> QED  BY <1>0, <1>1, <2>1 DEF SvLinksInv, LinksOf, SvIds
<1>7. SvCountInv'
  <2>1. /\ svGeneration \in Nat /\ svBounds.rotations \in Nat /\ svBounds.rotations > 0
        /\ svGeneration + svBounds.rotations + 0 <= MaxRotations
    BY <1>0, <1>1 DEF SvCountInv, SpendSv
  <2>2. svBounds' = [tasks |-> svBounds.tasks, rotations |-> svBounds.rotations - 1,
                     troubles |-> svBounds.troubles]
    BY <1>0, <1>1 DEF SvCountInv, SpendSv
  <2>3. /\ svBounds'.rotations = svBounds.rotations - 1
        /\ svBounds' = [tasks |-> svBounds'.tasks, rotations |-> svBounds'.rotations,
                        troubles |-> svBounds'.troubles]
    BY <2>2
  <2>4. svGeneration' = svGeneration /\ svMenu' # <<>>
    BY <1>1
  <2> QED  BY <2>1, <2>3, <2>4, ServiceAssumption DEF SvCountInv
<1> QED  BY <1>2, <1>4, <1>5, <1>6, <1>7 DEF SvTypeInv

(* New links are of the next generation; older ones stay typed.             *)
LEMMA RotatedLinks ==
    ASSUME NEW g \in Nat, NEW L \in SUBSET LinksOf(g)
    PROVE  /\ LinksOf(g) \subseteq LinksOf(g + 1)
           /\ {[d EXCEPT !.generation = g + 1] : d \in L} \subseteq LinksOf(g + 1)
<1>1. 0..g \subseteq 0..(g + 1) /\ g + 1 \in 0..(g + 1)
  OBVIOUS
<1> QED  BY <1>1 DEF LinksOf

(* A rotation that ends moves the count from the one under way to those     *)
(* that were made.                                                          *)
LEMMA RotateWriteTyped == ASSUME SvTypeInv, RotateWrite PROVE SvTypeInv'
<1>0. SvServicesInv /\ SvLinksInv /\ SvCountInv /\ SvScriptInv /\ SvReadyInv /\ SvPreviewsInv
  BY DEF SvTypeInv
<1>1. /\ UNCHANGED <<svPayloads, svUploads, svTasks, svShell, svBounds>>
      /\ svMenu # <<>> /\ svMenu' = <<>>
      /\ svGeneration' = svGeneration + 1
      /\ svDownloads' = {[d EXCEPT !.generation = svGeneration + 1] : d \in svMenu[1]}
      /\ svServed' = svDownloads'
      /\ svServices' = [svServices EXCEPT !["file"].state = "running"]
  BY DEF RotateWrite, MenuIdle
<1>2. SvServicesInv' /\ StayInstalled
  <2>1. SvInstalled("file") /\ "file" \in SvNames
    BY <1>0, <1>1 DEF SvReadyInv, SvNames
  <2>2. "running" \in {"stopped", "running", "failed"}
    OBVIOUS
  <2> QED  BY <1>0, <1>1, <2>1, <2>2, StateChanges
<1>3. svMenu' # <<>> => SvInstalled("file")'
  BY <1>1
<1>4. SvScriptInv' /\ SvReadyInv'
  BY <1>0, <1>1, <1>2, <1>3, ReadyStays
<1>5. SvPreviewsInv'
  BY <1>0, <1>1, PreviewsLeft
<1>6. svGeneration \in Nat
  BY <1>0 DEF SvCountInv
<1>7. SvLinksInv'
  <2>1. PICK L \in SUBSET LinksOf(svGeneration) : svMenu = <<L>>
    BY <1>0, <1>1 DEF SvLinksInv
  <2>2. svMenu[1] = L
    BY <2>1
  <2>3. svDownloads' \subseteq LinksOf(svGeneration + 1)
    BY <1>1, <1>6, <2>2, RotatedLinks
  <2>4. svShell.loaded \subseteq LinksOf(svGeneration + 1)
    BY <1>0, <1>6, RotatedLinks DEF SvLinksInv
  <2>5. LinksOf(svGeneration)' = LinksOf(svGeneration + 1)
    BY <1>1 DEF LinksOf, SvIds
  <2>6. svPayloads' \subseteq SvIds /\ svUploads' \subseteq UploadFiles
    BY <1>0, <1>1 DEF SvLinksInv, SvIds
  <2> QED  BY <1>1, <2>3, <2>4, <2>5, <2>6 DEF SvLinksInv, SvIds
<1>8. SvCountInv'
  <2>1. svGeneration + svBounds.rotations + 1 <= MaxRotations /\ svBounds.rotations \in Nat
    BY <1>0, <1>1 DEF SvCountInv
  <2>2. svBounds' = svBounds /\ svMenu' = <<>> /\ svGeneration' = svGeneration + 1
    BY <1>1
  <2>3. svBounds = [tasks |-> svBounds.tasks, rotations |-> svBounds.rotations,
                    troubles |-> svBounds.troubles]
    BY <1>0 DEF SvCountInv
  <2> QED  BY <1>6, <2>1, <2>2, <2>3, ServiceAssumption DEF SvCountInv
<1> QED  BY <1>2, <1>4, <1>5, <1>7, <1>8 DEF SvTypeInv

(* At the start nothing is installed and no rotation was made.              *)
LEMMA TypedAtStart == ServiceInit => SvTypeInv
<1> SUFFICES ASSUME ServiceInit PROVE SvTypeInv
  OBVIOUS
<1>1. /\ svDownloads = {} /\ svServed = {} /\ svPayloads = {} /\ svUploads = {}
      /\ svGeneration = 0 /\ svTasks = {} /\ svShell = NoSvShell /\ svMenu = <<>>
      /\ svServices = [s \in SvNames |-> [state |-> "absent", port |-> 0]]
      /\ svBounds = [tasks |-> MaxServiceTasks, rotations |-> MaxRotations,
                     troubles |-> MaxServiceTroubles]
  BY DEF ServiceInit
<1>2. /\ svShell.steps = <<>> /\ svShell.task.op = "none" /\ svShell.loaded = {}
      /\ svShell = [steps |-> svShell.steps, task |-> svShell.task, loaded |-> svShell.loaded]
  BY <1>1 DEF NoSvShell
<1>3. SvServicesInv
  BY <1>1 DEF SvServicesInv, SvInstalled, SvStates
<1>4. SvLinksInv /\ SvPreviewsInv
  BY <1>1, <1>2 DEF SvLinksInv, SvPreviewsInv
<1>5. SvCountInv
  BY <1>1, ServiceAssumption DEF SvCountInv
<1>6. SvNow = ""
  BY <1>2 DEF SvNow, SvNowOf
<1>7. SvScriptInv /\ SvReadyInv
  BY <1>1, <1>2, <1>6 DEF SvScriptInv, SvReadyInv
<1> QED  BY <1>3, <1>4, <1>5, <1>7 DEF SvTypeInv

(* One case per action; the menus may be used at any time here.             *)
LEMMA TypedStep == ASSUME SvTypeInv, [ServiceNext]_serviceVars PROVE SvTypeInv'
<1>1. CASE UNCHANGED serviceVars
  <2>1. /\ UNCHANGED <<svServices, svDownloads, svServed, svPayloads, svUploads, svGeneration>>
        /\ UNCHANGED <<svTasks, svShell, svMenu, svBounds>>
    BY <1>1 DEF serviceVars
  <2>2. SvServicesInv /\ SvLinksInv /\ SvCountInv /\ SvScriptInv /\ SvReadyInv /\ SvPreviewsInv
    BY DEF SvTypeInv
  <2>3. SvServicesInv' /\ StayInstalled
    BY <2>1, <2>2, SameServices
  <2>4. SvCountInv' /\ SvPreviewsInv'
    BY <2>1, <2>2, CountStays, PreviewsLeft
  <2>5. svMenu' # <<>> => SvInstalled("file")'
    BY <2>1, <2>2, <2>3 DEF SvReadyInv, StayInstalled, SvNames
  <2>6. SvScriptInv' /\ SvReadyInv'
    BY <2>1, <2>2, <2>3, <2>5, ReadyStays
  <2>7. SvLinksInv'
    BY <2>1, <2>2 DEF SvLinksInv, LinksOf, SvIds
  <2> QED  BY <2>3, <2>4, <2>6, <2>7 DEF SvTypeInv
<1>2. CASE PreviewAnySv \/ \E f \in UploadFiles : StageUpload(f)
  BY <1>2, PreviewTyped, UploadTyped
<1>3. CASE \E r \in svTasks : ExecuteTask(r)
  BY <1>3, ReadyStart
<1>4. CASE FileScript \/ DeployScript \/ ChangeService \/ KillSvShell
  BY <1>4, FileScriptTyped, DeployScriptTyped, ChangeServiceTyped, KillTyped
<1>5. CASE (\E q \in TcpPorts : MenuInstall(q)) \/ RotateRead \/ RotateWrite
  BY <1>5, MenuInstallTyped, RotateReadTyped, RotateWriteTyped
<1> QED  BY <1>1, <1>2, <1>3, <1>4, <1>5 DEF ServiceNext

(* A service has a port exactly when it is installed, and every link is one *)
(* that some rotation made: menus may be used at any time.                  *)
THEOREM ServiceTypesCorrect == ServiceSpec => []SvTypeOK
<1>1. ServiceInit => SvTypeInv
  BY TypedAtStart
<1>2. SvTypeInv /\ [ServiceNext]_serviceVars => SvTypeInv'
  BY TypedStep
<1>3. SvTypeInv => SvTypeOK
  <2> SUFFICES ASSUME SvTypeInv PROVE SvTypeOK
    OBVIOUS
  <2>1. SvServicesInv /\ SvLinksInv /\ SvCountInv
    BY DEF SvTypeInv
  <2>2. svGeneration \in 0..MaxRotations
    <3>1. /\ svGeneration \in Nat /\ svBounds.rotations \in Nat /\ MaxRotations \in Nat
          /\ svGeneration + svBounds.rotations + (IF svMenu = <<>> THEN 0 ELSE 1) <= MaxRotations
      BY <2>1, ServiceAssumption DEF SvCountInv
    <3> QED  BY <3>1
  <2>3. LinksOf(svGeneration) \subseteq SvLinks
    <3>1. 0..svGeneration \subseteq 0..MaxRotations
      BY <2>2, ServiceAssumption
    <3> QED  BY <3>1 DEF LinksOf, SvLinks, SvIds
  <2>4. svMenu = <<>> \/ svMenu[1] \subseteq SvLinks
    <3>1. CASE \E L \in SUBSET LinksOf(svGeneration) : svMenu = <<L>>
      BY <2>3, <3>1
    <3> QED  BY <2>1, <3>1 DEF SvLinksInv
  <2>5. \A s \in SvNames :
          /\ svServices[s].state \in {"absent", "stopped", "running", "failed"}
          /\ svServices[s].port \in TcpPorts \cup {0}
          /\ SvInstalled(s) <=> svServices[s].port # 0
    BY <2>1 DEF SvServicesInv, SvStates
  <2> QED  BY <2>1, <2>2, <2>3, <2>4, <2>5 DEF SvTypeOK, SvLinksInv, SvIds
<1> QED  BY <1>1, <1>2, <1>3, PTL DEF ServiceSpec
-----------------------------------------------------------------------------
(* The six parts in one host                                               *)

(* Seen by itself, every part behaves as its own specification says: the    *)
(* others only share the change lock and the worker with it.               *)
LEMMA ChangesCompose ==
    ChangesSpec => /\ DnSpec /\ ProxySpec /\ ServiceSpec
                   /\ PortSpec /\ LoginSpec /\ NetworkSpec
<1>1. ChangesInit =>
          DnInit /\ ProxyInit /\ ServiceInit /\ PortInit /\ LoginInit /\ NetworkInit
  BY DEF ChangesInit
<1>2. ASSUME [ChangesNext]_<<part, dnVars, proxyVars, serviceVars, portVars, loginVars,
                             networkVars>>
      PROVE  /\ [DnNext]_dnVars /\ [ProxyNext]_proxyVars /\ [ServiceNext]_serviceVars
             /\ [PortNext]_portVars /\ [LoginNext]_loginVars /\ [NetworkNext]_networkVars
  <2>1. CASE UNCHANGED <<part, dnVars, proxyVars, serviceVars, portVars, loginVars,
                         networkVars>>
    BY <2>1
  <2>2. CASE ChangesNext
    BY <2>2 DEF ChangesNext
  <2> QED  BY <1>2, <2>1, <2>2
<1> QED
  BY <1>1, <1>2, PTL DEF ChangesSpec, DnSpec, ProxySpec, ServiceSpec, PortSpec, LoginSpec,
                         NetworkSpec

(* In the host that the runs check, every part keeps its promises for every *)
(* value of the constants; what the links and root's login rest on is said  *)
(* of the whole host too.                                                  *)
THEOREM ChangesKeepPromises ==
    ChangesSpec => /\ [](HostKeepsItsNames /\ ViewsFollowConfig)
                   /\ []PublishedExitsAreServed /\ ChoiceIsKept
                   /\ [](PortsNeverShared /\ FirewallFollowsPorts)
                   /\ []NodesAreServed /\ OnlyPreviewedChanges
                   /\ (~MenuDuringTasks => []PublishedFilesExist)
                   /\ (NoCommentedKeys => []RootCanLogin)
<1>1. ~MenuDuringTasks => (ServiceSpec => []PublishedFilesExist)
  BY LinksHaveFiles
<1>2. NoCommentedKeys => (LoginSpec => []RootCanLogin)
  BY RootIsNotLockedOut
<1>3. ChangesSpec => (~MenuDuringTasks => []PublishedFilesExist)
  <2>1. CASE ~MenuDuringTasks
    <3>1. ServiceSpec => []PublishedFilesExist
      BY <1>1, <2>1
    <3> QED  BY <3>1, ChangesCompose, PTL
  <2>2. CASE MenuDuringTasks
    BY <2>2
  <2> QED  BY <2>1, <2>2
<1>4. ChangesSpec => (NoCommentedKeys => []RootCanLogin)
  <2>1. CASE NoCommentedKeys
    <3>1. LoginSpec => []RootCanLogin
      BY <1>2, <2>1
    <3> QED  BY <3>1, ChangesCompose, PTL
  <2>2. CASE ~NoCommentedKeys
    BY <2>2
  <2> QED  BY <2>1, <2>2
<1>5. ChangesSpec => /\ [](HostKeepsItsNames /\ ViewsFollowConfig)
                     /\ []PublishedExitsAreServed /\ ChoiceIsKept
  BY ChangesCompose, NamesStayReachable, ViewsAreCurrent, ExitsAreServed, ChoicesKept, PTL
<1>6. ChangesSpec => /\ [](PortsNeverShared /\ FirewallFollowsPorts)
                     /\ []NodesAreServed /\ OnlyPreviewedChanges
  BY ChangesCompose, NoPortIsShared, FirewallKeepsUp, NodesStayServed, OnlyPreviewed, PTL
<1> QED  BY <1>3, <1>4, <1>5, <1>6

(* In that host every variable of every part keeps its type; in the proxy's *)
(* part the catalogue stays one that the whole check accepts.               *)
THEOREM ChangesTypesCorrect == ChangesSpec => []ChangesTypeOK
<1>1. DnTypeOK /\ ProxyTypeOK /\ SvTypeOK /\ PortTypeOK /\ LoginTypeOK /\ NwTypeOK
      => ChangesTypeOK
  BY DEF ChangesTypeOK
<1> QED
  BY <1>1, ChangesCompose, DomainTypesCorrect, ProxyTypesCorrect, ServiceTypesCorrect,
     PortTypesCorrect, LoginTypesCorrect, NetworkTypesCorrect, PTL
=============================================================================
