------------------------------ MODULE PortTasks ------------------------------
(***************************************************************************)
(* Ports of the services and of the host firewall: the change of a managed *)
(* port (lib/server_kit_managed_ports.py, server-kit-manager.sh), custom   *)
(* ports and the firewall's guarded window (debian_firewall_manager.sh),   *)
(* both built on observed facts (lib/server_kit_port_facts.py).            *)
(*                                                                         *)
(* A socket is <<protocol, port>>.  All sockets are public; a custom port  *)
(* has no term.                                                            *)
(***************************************************************************)
EXTENDS Integers, FiniteSets

CONSTANTS
    Ports,
    InitialPorts,       \* port of every target: "clash", "file", "awg1", "awg2"
    MaxPortTasks,       \* previews: bounds the model
    MaxWindows,         \* firewall changes of the administrator: bounds the model
    MaxPortTroubles     \* failed commands and kills: bounds the model

Targets == {"clash", "file", "awg1", "awg2"}

Protocol(t) == IF t \in {"clash", "file"} THEN "tcp" ELSE "udp"

(* REQUIRED_PUBLIC_IDS, as far as it can be moved.                         *)
Required == {"clash", "awg1"}

Sockets == {"tcp", "udp"} \X Ports

ASSUME PortAssumption ==
    /\ InitialPorts \in [Targets -> Ports]
    /\ \A t, o \in Targets :
          t # o /\ Protocol(t) = Protocol(o) => InitialPorts[t] # InitialPorts[o]
    /\ {MaxPortTasks, MaxWindows, MaxPortTroubles} \subseteq Nat

VARIABLES
    ptPort,         \* configured port of every target
    ptListening,    \* targets whose service is running
    ptForeign,      \* sockets of programs nobody manages
    ptLive,         \* sockets the kernel's table accepts
    ptActive,       \* sockets of the confirmed rules, loaded at boot
    ptWindow,       \* the pending firewall transaction
    ptCustom,       \* custom-ports.json
    ptTasks,        \* previewed changes
    ptShell,        \* the change that holds the lock
    ptCut,          \* history: a change ended without success and without its undo
    ptBounds

portVars == <<ptPort, ptListening, ptForeign, ptLive, ptActive, ptWindow, ptCustom,
              ptTasks, ptShell, ptCut, ptBounds>>

NoWindow == [open |-> FALSE, backup |-> {}, candidate |-> {}]

NoPtShell == [step |-> "none", target |-> "clash", port |-> 0, old |-> 0]

SpendPt(what) == /\ ptBounds[what] > 0
                 /\ ptBounds' = [ptBounds EXCEPT ![what] = @ - 1]
-----------------------------------------------------------------------------
(* Facts: PortFacts.collect, and what is derived from them.                *)

SocketOf(t) == <<Protocol(t), ptPort[t]>>

(* firewall_sets: the listening services.                                  *)
FirewallSet == {SocketOf(t) : t \in ptListening}

(* audit_lines and render_nft: no foreign listener, no required service    *)
(* missing.                                                                *)
CandidateAllowed == ptForeign = {} /\ Required \subseteq ptListening

(* build_overview's revision.                                              *)
Revision == <<ptPort, ptListening, ptForeign>>

(* build_plan: other targets' ports, running or not, and every listener.   *)
FaultConflicts(t, p) ==
    {o \in ptListening \ {t} : SocketOf(o) = <<Protocol(t), p>>}

Conflicts(t, p) == {o \in Targets \ {t} : SocketOf(o) = <<Protocol(t), p>>}

PlanAllowed(t, p) ==
    /\ p # ptPort[t]
    /\ Conflicts(t, p) = {} /\ <<Protocol(t), p>> \notin ptForeign

(* load_rules_file: the table is replaced and custom ports are added; what *)
(* they do not mention stays as the rules have it.                         *)
FaultLoaded(rules) == rules

Loaded(rules) == rules \cup ptCustom

(* firewall_inventory: the candidate while a window is open.               *)
BaseRules == IF ptWindow.open THEN ptWindow.candidate ELSE ptActive
-----------------------------------------------------------------------------
(* Previews: _prepare_managed_port_task, _prepare_firewall_port_task.      *)

PreviewPort(t, p) ==
    /\ PlanAllowed(t, p)
    /\ SpendPt("tasks")
    /\ ptTasks' = ptTasks \cup {[op |-> "move", target |-> t, socket |-> <<Protocol(t), p>>,
                                 digest |-> <<Revision>>]}
    /\ UNCHANGED <<ptPort, ptListening, ptForeign, ptLive, ptActive, ptWindow, ptCustom,
                   ptShell, ptCut>>

CustomFacts == <<ptCustom, BaseRules>>

PreviewCustom(op, s) ==
    /\ s \notin BaseRules
    /\ op = "close" => s \in ptCustom
    /\ SpendPt("tasks")
    /\ ptTasks' = ptTasks \cup {[op |-> op, target |-> "clash", socket |-> s,
                                 digest |-> CustomFacts]}
    /\ UNCHANGED <<ptPort, ptListening, ptForeign, ptLive, ptActive, ptWindow, ptCustom,
                   ptShell, ptCut>>

PtIdle == ptShell.step = "none"

(* The agent compares the digest, and the script its own revision.         *)
ExecutePort(r) ==
    /\ PtIdle /\ r.op = "move"
    /\ ptTasks' = ptTasks \ {r}
    /\ IF r.digest = <<Revision>> /\ PlanAllowed(r.target, r.socket[2])
       THEN ptShell' = [step |-> "set", target |-> r.target, port |-> r.socket[2],
                        old |-> ptPort[r.target]]
       ELSE UNCHANGED ptShell
    /\ UNCHANGED <<ptPort, ptListening, ptForeign, ptLive, ptActive, ptWindow, ptCustom,
                   ptCut, ptBounds>>

(* open_custom_port and close_custom_port: the state file, the kernel's    *)
(* set, and a check of both; base rules are read from the confirmed file.  *)
ExecuteCustom(r) ==
    /\ PtIdle /\ r.op \in {"open", "close"}
    /\ ptTasks' = ptTasks \ {r}
    /\ IF r.digest # CustomFacts \/ r.socket \in ptActive
       THEN UNCHANGED <<ptCustom, ptLive>>
       ELSE IF r.op = "open"
       THEN ptCustom' = ptCustom \cup {r.socket} /\ ptLive' = ptLive \cup {r.socket}
       ELSE ptCustom' = ptCustom \ {r.socket} /\ ptLive' = ptLive \ {r.socket}
    /\ UNCHANGED <<ptPort, ptListening, ptForeign, ptActive, ptWindow, ptShell, ptCut,
                   ptBounds>>
-----------------------------------------------------------------------------
(* change_managed_port_json.                                               *)

(* set-port: the configuration, and a restart that has to listen; a        *)
(* failure restores the old port, or leaves the service down.              *)
SetPort ==
    /\ ptShell.step = "set"
    /\ \/ /\ ptPort' = [ptPort EXCEPT ![ptShell.target] = ptShell.port]
          /\ ptShell' = [ptShell EXCEPT !.step = "sync"]
          /\ UNCHANGED <<ptListening, ptBounds>>
       \/ /\ SpendPt("troubles")
          /\ ptShell' = NoPtShell
          /\ ptListening' \in {ptListening, ptListening \ {ptShell.target}}
          /\ UNCHANGED ptPort
    /\ UNCHANGED <<ptForeign, ptLive, ptActive, ptWindow, ptCustom, ptTasks, ptCut>>

(* An AWG entry is published to the subscriptions; they may fail.          *)
SyncSubscriptions ==
    /\ ptShell.step = "sync"
    /\ \/ ptShell' = [ptShell EXCEPT !.step = "refresh"] /\ UNCHANGED ptBounds
       \/ /\ Protocol(ptShell.target) = "udp"
          /\ SpendPt("troubles")
          /\ ptShell' = [ptShell EXCEPT !.step = "undo"]
    /\ UNCHANGED <<ptPort, ptListening, ptForeign, ptLive, ptActive, ptWindow, ptCustom,
                   ptTasks, ptCut>>

(* refresh-ports has no handler: its failure ends the script there.        *)
RefreshPorts ==
    /\ ptShell.step = "refresh"
    /\ \/ /\ ptShell' = [ptShell EXCEPT !.step = "apply"]
          /\ UNCHANGED <<ptCut, ptBounds>>
       \/ /\ SpendPt("troubles")
          /\ ptShell' = NoPtShell /\ ptCut' = TRUE
    /\ UNCHANGED <<ptPort, ptListening, ptForeign, ptLive, ptActive, ptWindow, ptCustom,
                   ptTasks>>

OpenedWindow ==
    [open |-> TRUE, backup |-> ptLive, candidate |-> FirewallSet]

(* firewall apply: refused with a window open or facts it cannot accept.   *)
ApplyForPort ==
    /\ ptShell.step = "apply"
    /\ IF ~ptWindow.open /\ CandidateAllowed
       THEN /\ ptWindow' = OpenedWindow
            /\ ptLive' = Loaded(FirewallSet)
            /\ ptShell' = [ptShell EXCEPT !.step = "verify"]
       ELSE /\ ptShell' = [ptShell EXCEPT !.step = "undo"]
            /\ UNCHANGED <<ptWindow, ptLive>>
    /\ UNCHANGED <<ptPort, ptListening, ptForeign, ptActive, ptCustom, ptTasks, ptCut,
                   ptBounds>>

RollBackWindow ==
    /\ ptLive' = IF ptWindow.open THEN Loaded(ptWindow.backup) ELSE ptLive
    /\ ptWindow' = NoWindow

(* The overview is read again and compared.                                *)
VerifyPort ==
    /\ ptShell.step = "verify"
    /\ \/ ptShell' = [ptShell EXCEPT !.step = "confirm"] /\ UNCHANGED ptBounds
       \/ SpendPt("troubles") /\ ptShell' = [ptShell EXCEPT !.step = "rollback"]
    /\ UNCHANGED <<ptPort, ptListening, ptForeign, ptLive, ptActive, ptWindow, ptCustom,
                   ptTasks, ptCut>>

(* confirm fails when the timer was faster.                                *)
ConfirmForPort ==
    /\ ptShell.step = "confirm"
    /\ IF ptWindow.open
       THEN /\ ptActive' = ptWindow.candidate /\ ptWindow' = NoWindow
            /\ ptShell' = NoPtShell
       ELSE /\ ptShell' = [ptShell EXCEPT !.step = "rollback"]
            /\ UNCHANGED <<ptActive, ptWindow>>
    /\ UNCHANGED <<ptPort, ptListening, ptForeign, ptLive, ptCustom, ptTasks, ptCut,
                   ptBounds>>

(* A failure takes the firewall's rules back, then the port.  Neither looks *)
(* whether it has succeeded: without its backup the window stays open.     *)
RollBackForPort ==
    /\ ptShell.step = "rollback"
    /\ \/ RollBackWindow /\ UNCHANGED <<ptCut, ptBounds>>
       \/ /\ ptWindow.open /\ SpendPt("troubles")
          /\ ptCut' = TRUE
          /\ UNCHANGED <<ptLive, ptWindow>>
    /\ ptShell' = [ptShell EXCEPT !.step = "undo"]
    /\ UNCHANGED <<ptPort, ptListening, ptForeign, ptActive, ptCustom, ptTasks>>

FaultRestored == ptPort

Restored == [ptPort EXCEPT ![ptShell.target] = ptShell.old]

(* restore_managed_port_config: the file may not come back, and the service *)
(* may not start with it again.                                            *)
UndoPort ==
    /\ ptShell.step = "undo"
    /\ \/ ptPort' = Restored /\ UNCHANGED <<ptListening, ptCut, ptBounds>>
       \/ /\ SpendPt("troubles") /\ Protocol(ptShell.target) = "tcp"
          /\ ptPort' = Restored /\ ptListening' = ptListening \ {ptShell.target}
          /\ UNCHANGED ptCut
       \/ /\ SpendPt("troubles")
          /\ ptCut' = TRUE
          /\ UNCHANGED <<ptPort, ptListening>>
    /\ ptShell' = NoPtShell
    /\ UNCHANGED <<ptForeign, ptLive, ptActive, ptWindow, ptCustom, ptTasks>>

KillPortChange ==
    /\ ~PtIdle
    /\ SpendPt("troubles")
    /\ ptShell' = NoPtShell /\ ptCut' = TRUE
    /\ UNCHANGED <<ptPort, ptListening, ptForeign, ptLive, ptActive, ptWindow, ptCustom,
                   ptTasks>>
-----------------------------------------------------------------------------
(* The firewall's own window, and the host.                                *)

ApplyFirewall ==
    /\ PtIdle /\ ~ptWindow.open /\ CandidateAllowed
    /\ SpendPt("windows")
    /\ ptWindow' = OpenedWindow
    /\ ptLive' = Loaded(FirewallSet)
    /\ UNCHANGED <<ptPort, ptListening, ptForeign, ptActive, ptCustom, ptTasks, ptShell,
                   ptCut>>

ConfirmFirewall ==
    /\ PtIdle /\ ptWindow.open
    /\ ptActive' = ptWindow.candidate /\ ptWindow' = NoWindow
    /\ UNCHANGED <<ptPort, ptListening, ptForeign, ptLive, ptCustom, ptTasks, ptShell,
                   ptCut, ptBounds>>

(* By the administrator, or by the timer, which takes no lock.             *)
RollBackFirewall ==
    /\ ptWindow.open
    /\ RollBackWindow
    /\ UNCHANGED <<ptPort, ptListening, ptForeign, ptActive, ptCustom, ptTasks, ptShell,
                   ptCut, ptBounds>>

(* A program nobody manages starts, or ends, on a socket that is free.     *)
ForeignListener(s) ==
    /\ SpendPt("troubles")
    /\ s \notin {SocketOf(t) : t \in ptListening}
    /\ ptForeign' = IF s \in ptForeign THEN ptForeign \ {s} ELSE ptForeign \cup {s}
    /\ UNCHANGED <<ptPort, ptListening, ptLive, ptActive, ptWindow, ptCustom, ptTasks,
                   ptShell, ptCut>>
-----------------------------------------------------------------------------
(* The file service may have been stopped before.                          *)
PortInit ==
    /\ ptPort = InitialPorts
    /\ ptListening \in {Targets, Targets \ {"file"}}
    /\ ptForeign = {}
    /\ ptLive = {<<Protocol(t), InitialPorts[t]>> : t \in ptListening}
    /\ ptActive = ptLive
    /\ ptWindow = NoWindow
    /\ ptCustom = {} /\ ptTasks = {}
    /\ ptShell = NoPtShell /\ ptCut = FALSE
    /\ ptBounds = [tasks |-> MaxPortTasks, windows |-> MaxWindows,
                   troubles |-> MaxPortTroubles]

PortScript ==
    \/ SetPort \/ SyncSubscriptions \/ RefreshPorts \/ ApplyForPort
    \/ VerifyPort \/ ConfirmForPort \/ RollBackForPort \/ UndoPort

PortNext ==
    \/ \E t \in Targets, p \in Ports : PreviewPort(t, p)
    \/ \E op \in {"open", "close"}, s \in Sockets : PreviewCustom(op, s)
    \/ \E r \in ptTasks : ExecutePort(r) \/ ExecuteCustom(r)
    \/ PortScript
    \/ KillPortChange
    \/ ApplyFirewall \/ ConfirmFirewall \/ RollBackFirewall
    \/ \E s \in Sockets : ForeignListener(s)

PortSpec == PortInit /\ [][PortNext]_portVars
-----------------------------------------------------------------------------
(* Correctness.                                                            *)

(* Every variable keeps its shape.                                         *)
PortTypeOK ==
    /\ ptPort \in [Targets -> Ports] /\ ptListening \subseteq Targets
    /\ {ptForeign, ptLive, ptActive, ptCustom} \subseteq SUBSET Sockets
    /\ ptWindow.open \in BOOLEAN
    /\ {ptWindow.backup, ptWindow.candidate} \subseteq SUBSET Sockets
    /\ ptShell.step \in {"none", "set", "sync", "refresh", "apply", "verify", "confirm",
                        "rollback", "undo"}

(* Two services never have the same port of a protocol, whatever was       *)
(* previewed side by side and however a change ended.                      *)
PortsNeverShared ==
    \A t, o \in Targets : t # o => SocketOf(t) # SocketOf(o)

(* Between changes, every running service and every custom port is let in  *)
(* by the kernel's table, after any undo, rollback or timeout (unless a    *)
(* change was cut off before its undo, or could not undo itself).          *)
FirewallFollowsPorts ==
    PtIdle /\ ~ptCut => {SocketOf(t) : t \in ptListening} \cup ptCustom \subseteq ptLive

(* debian_firewall_manager.sh:862: "已关闭自定义端口".  Between changes     *)
(* the table lets nothing in but services and custom ports.                *)
ClosedPortStaysClosed ==
    PtIdle /\ ~ptCut /\ ~ptWindow.open =>
       ptLive \subseteq {SocketOf(t) : t \in Targets} \cup ptCustom
=============================================================================
