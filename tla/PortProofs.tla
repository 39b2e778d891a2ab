------------------------------ MODULE PortProofs ------------------------------
(***************************************************************************)
(* Changes of managed ports are safe for any number of previews, windows   *)
(* of the firewall, failed commands and kills: no two services get the     *)
(* same port, and the firewall lets every running service in.              *)
(*                                                                         *)
(* Neither holds by itself: a change that is undone has to find the old    *)
(* port still free and still let in, and the timer may take the rules back *)
(* at any step of it.                                                      *)
(***************************************************************************)
EXTENDS PortTasks, TLAPS

(* A task names a target and a socket of its protocol. *)
PortTasksInv ==
    \A r \in ptTasks :
        /\ r.op \in {"move", "open", "close"}
        /\ r.target \in Targets /\ r.socket \in Sockets
        /\ r.op = "move" => r.socket[1] = Protocol(r.target)

PortSteps ==
    {"none", "set", "sync", "refresh", "apply", "verify", "confirm", "rollback", "undo"}

PortShells ==
    [step : PortSteps,
     target : Targets, port : Ports \cup {0}, old : Ports \cup {0}]

PortChanging == ptShell.step # "none"

(* Of the other services none uses the port the change sets, or the port    *)
(* its undo restores.                                                       *)
ShellInv ==
    PortChanging =>
        /\ ptShell.port \in Ports /\ ptShell.old \in Ports
        /\ \A o \in Targets \ {ptShell.target} :
              SocketOf(o) \notin {<<Protocol(ptShell.target), ptShell.port>>,
                                  <<Protocol(ptShell.target), ptShell.old>>}
        /\ ptShell.step = "set" => ptPort[ptShell.target] = ptShell.old

(* Where a service listens once the change under way is undone. *)
OldSocket(t) ==
    IF PortChanging /\ t = ptShell.target THEN <<Protocol(t), ptShell.old>> ELSE SocketOf(t)

LetIn(rules) == \A t \in ptListening : SocketOf(t) \in rules

UndoneLetIn(rules) == \A t \in ptListening : OldSocket(t) \in rules

OwnWindow == ptShell.step \in {"verify", "confirm", "rollback"} /\ ptWindow.open

(* Before the change opens its window, and after the timer has closed it,   *)
(* the rules fit the undone state; while it is open both states are kept.   *)
FirewallInv ==
    /\ ptCustom \subseteq ptLive
    /\ ~ptCut =>
          /\ UndoneLetIn(ptActive)
          /\ IF OwnWindow
             THEN LetIn(ptLive) /\ LetIn(ptWindow.candidate) /\ UndoneLetIn(ptWindow.backup)
             ELSE /\ UndoneLetIn(ptLive)
                  /\ ptWindow.open =>
                        UndoneLetIn(ptWindow.backup) /\ UndoneLetIn(ptWindow.candidate)

PortInv ==
    /\ PortTypeOK /\ ptShell \in PortShells /\ PortTasksInv /\ ShellInv /\ FirewallInv
    /\ PortsNeverShared
-----------------------------------------------------------------------------
(* Types.                                                                  *)

(* A service listens on a socket. *)
LEMMA SocketType ==
    ASSUME PortTypeOK
    PROVE  \A t \in Targets : SocketOf(t) \in Sockets /\ Protocol(t) \in {"tcp", "udp"}
BY DEF PortTypeOK, SocketOf, Sockets, Protocol

(* The rules of a window, and what the kernel loads, are sockets. *)
LEMMA RulesType ==
    ASSUME PortTypeOK
    PROVE  /\ FirewallSet \subseteq Sockets /\ OpenedWindow.open = TRUE
           /\ OpenedWindow.backup = ptLive /\ OpenedWindow.candidate = FirewallSet
           /\ NoWindow.open = FALSE /\ NoWindow.backup = {} /\ NoWindow.candidate = {}
           /\ \A R \in SUBSET Sockets : Loaded(R) \in SUBSET Sockets
<1>1. ptListening \subseteq Targets /\ ptCustom \in SUBSET Sockets
  BY DEF PortTypeOK
<1> QED  BY <1>1, SocketType DEF FirewallSet, OpenedWindow, NoWindow, Loaded

(* The undo of a change gives every other service its port. *)
LEMMA RestoredType ==
    ASSUME PortTypeOK, ptShell \in PortShells, ShellInv, PortChanging
    PROVE  /\ Restored \in [Targets -> Ports]
           /\ \A t \in Targets :
                 Restored[t] = IF t = ptShell.target THEN ptShell.old ELSE ptPort[t]
BY DEF PortTypeOK, ShellInv, Restored, PortShells

(* A change goes on, or ends; it keeps what it is about. *)
LEMMA ShellStep ==
    ASSUME ptShell \in PortShells, PortScript \/ KillPortChange
    PROVE  /\ ptShell' \in PortShells
           /\ ptShell'.step = "none" \/
                 /\ ptShell'.target = ptShell.target /\ ptShell'.port = ptShell.port
                 /\ ptShell'.old = ptShell.old
                 /\ ptShell'.step \in PortSteps \ {"none", "set"}
           /\ PortChanging
<1>1. NoPtShell \in PortShells /\ NoPtShell.step = "none"
  BY DEF NoPtShell, PortShells, PortSteps, Targets
<1>2. CASE SetPort
  BY <1>1, <1>2 DEF SetPort, PortShells, PortSteps, PortChanging
<1>3. CASE SyncSubscriptions
  BY <1>1, <1>3 DEF SyncSubscriptions, PortShells, PortSteps, PortChanging
<1>4. CASE RefreshPorts
  BY <1>1, <1>4 DEF RefreshPorts, PortShells, PortSteps, PortChanging
<1>5. CASE ApplyForPort
  BY <1>1, <1>5 DEF ApplyForPort, PortShells, PortSteps, PortChanging
<1>6. CASE VerifyPort
  BY <1>1, <1>6 DEF VerifyPort, PortShells, PortSteps, PortChanging
<1>7. CASE ConfirmForPort
  BY <1>1, <1>7 DEF ConfirmForPort, PortShells, PortSteps, PortChanging
<1>8. CASE RollBackForPort \/ UndoPort
  BY <1>1, <1>8 DEF RollBackForPort, UndoPort, PortShells, PortSteps, PortChanging
<1>9. CASE KillPortChange
  BY <1>1, <1>9 DEF KillPortChange, PtIdle, PortChanging
<1> QED  BY <1>2, <1>3, <1>4, <1>5, <1>6, <1>7, <1>8, <1>9 DEF PortScript

(* A change of a port begins for a port no other service has. *)
LEMMA BeginStep ==
    ASSUME PortInv, NEW r \in ptTasks, ExecutePort(r)
    PROVE  /\ ptShell' \in PortShells /\ ShellInv'
           /\ UNCHANGED <<ptPort, ptListening, ptForeign, ptLive, ptActive, ptWindow,
                          ptCustom, ptCut>>
           /\ ptTasks' \subseteq ptTasks /\ ~PortChanging
           /\ ptShell' = ptShell \/
                 /\ ptShell'.step = "set" /\ ptShell'.target \in Targets
                 /\ ptShell'.old = ptPort[ptShell'.target]
<1>1. /\ UNCHANGED <<ptPort, ptListening, ptForeign, ptLive, ptActive, ptWindow,
                     ptCustom, ptCut>>
      /\ ptTasks' \subseteq ptTasks /\ ~PortChanging /\ r.op = "move"
  BY DEF ExecutePort, PtIdle, PortChanging
<1>2. CASE UNCHANGED ptShell
  BY <1>1, <1>2 DEF PortInv, ShellInv, PortChanging
<1>3. CASE PlanAllowed(r.target, r.socket[2])
           /\ ptShell' = [step |-> "set", target |-> r.target, port |-> r.socket[2],
                          old |-> ptPort[r.target]]
  <2>1. r.target \in Targets /\ r.socket[2] \in Ports /\ ptPort[r.target] \in Ports
    BY DEF PortInv, PortTasksInv, Sockets, PortTypeOK
  <2>2. \A o \in Targets \ {r.target} :
           SocketOf(o) # <<Protocol(r.target), r.socket[2]>>
    BY <1>3 DEF PlanAllowed, Conflicts
  <2>3. \A o \in Targets \ {r.target} :
           SocketOf(o) # <<Protocol(r.target), ptPort[r.target]>>
    BY <2>1 DEF PortInv, PortsNeverShared, SocketOf
  <2>4. ShellInv'
    BY <1>1, <1>3, <2>1, <2>2, <2>3 DEF ShellInv, SocketOf
  <2> QED  BY <1>1, <1>3, <2>1, <2>4 DEF PortShells, PortSteps
<1> QED  BY <1>1, <1>2, <1>3 DEF ExecutePort

(* Every variable keeps its shape. *)
LEMMA PortTypeStep ==
    ASSUME PortInv, [PortNext]_portVars
    PROVE  PortTypeOK' /\ ptShell' \in PortShells
<1> USE DEF PortInv
<1>0. /\ ptPort \in [Targets -> Ports] /\ ptListening \subseteq Targets
      /\ {ptForeign, ptLive, ptActive, ptCustom} \subseteq SUBSET Sockets
      /\ ptWindow.open \in BOOLEAN
      /\ {ptWindow.backup, ptWindow.candidate} \subseteq SUBSET Sockets
      /\ ptShell.step \in PortSteps
  BY DEF PortTypeOK, PortSteps
<1>1. ASSUME ptShell' \in PortShells,
             ptPort' \in [Targets -> Ports], ptListening' \subseteq Targets,
             ptForeign' \subseteq Sockets, ptLive' \subseteq Sockets,
             ptActive' \subseteq Sockets, ptCustom' \subseteq Sockets,
             ptWindow' \in {ptWindow, NoWindow, OpenedWindow}
      PROVE  PortTypeOK' /\ ptShell' \in PortShells
  <2>1. /\ ptWindow'.open \in BOOLEAN
        /\ ptWindow'.backup \subseteq Sockets /\ ptWindow'.candidate \subseteq Sockets
    BY <1>0, <1>1, RulesType
  <2>2. ptShell'.step \in PortSteps
    BY <1>1 DEF PortShells
  <2> QED  BY <1>1, <2>1, <2>2 DEF PortTypeOK, PortSteps
<1>2. ASSUME RollBackWindow
      PROVE  ptLive' \subseteq Sockets /\ ptWindow' = NoWindow
  BY <1>0, <1>2, RulesType DEF RollBackWindow
<1>3. CASE PortScript \/ KillPortChange
  <2>0. ptShell' \in PortShells /\ PortChanging
    BY <1>3, ShellStep
  <2>1. CASE SetPort
    BY <1>0, <1>1, <2>0, <2>1 DEF SetPort, ShellInv, PortShells
  <2>2. CASE SyncSubscriptions \/ RefreshPorts \/ VerifyPort \/ KillPortChange
    BY <1>0, <1>1, <2>0, <2>2 DEF SyncSubscriptions, RefreshPorts, VerifyPort, KillPortChange
  <2>3. CASE ApplyForPort
    BY <1>0, <1>1, <2>0, <2>3, RulesType DEF ApplyForPort
  <2>4. CASE RollBackForPort
    BY <1>0, <1>1, <1>2, <2>0, <2>4 DEF RollBackForPort
  <2>5. CASE ConfirmForPort
    BY <1>0, <1>1, <2>0, <2>5 DEF ConfirmForPort
  <2>6. CASE UndoPort
    BY <1>0, <1>1, <2>0, <2>6, RestoredType DEF UndoPort
  <2> QED  BY <1>3, <2>1, <2>2, <2>3, <2>4, <2>5, <2>6 DEF PortScript
<1>4. ASSUME NEW r \in ptTasks, ExecutePort(r)
      PROVE  PortTypeOK' /\ ptShell' \in PortShells
  BY <1>0, <1>1, <1>4, BeginStep
<1>5. ASSUME NEW r \in ptTasks, ExecuteCustom(r)
      PROVE  PortTypeOK' /\ ptShell' \in PortShells
  BY <1>0, <1>1, <1>5 DEF ExecuteCustom, PortTasksInv
<1>6. CASE ApplyFirewall
  BY <1>0, <1>1, <1>6, RulesType DEF ApplyFirewall
<1>7. CASE ConfirmFirewall
  BY <1>0, <1>1, <1>7 DEF ConfirmFirewall
<1>8. CASE RollBackFirewall
  BY <1>0, <1>1, <1>2, <1>8 DEF RollBackFirewall
<1>9. ASSUME NEW s \in Sockets, ForeignListener(s)
      PROVE  PortTypeOK' /\ ptShell' \in PortShells
  BY <1>0, <1>1, <1>9 DEF ForeignListener
<1>10. CASE UNCHANGED <<ptPort, ptListening, ptForeign, ptLive, ptActive, ptWindow,
                        ptCustom, ptShell>>
  BY <1>0, <1>1, <1>10
<1> QED
  BY <1>3, <1>4, <1>5, <1>6, <1>7, <1>8, <1>9, <1>10
     DEF PortNext, portVars, PreviewPort, PreviewCustom
-----------------------------------------------------------------------------
(* Ports.                                                                  *)

(* The ports a change leaves: as they were, set, or restored. *)
LEMMA PortOutcomes ==
    ASSUME PortInv, PortScript \/ KillPortChange
    PROVE  \/ UNCHANGED ptPort
           \/ ptShell.step = "set" /\ ptPort' = [ptPort EXCEPT ![ptShell.target] = ptShell.port]
           \/ ptPort' = Restored /\ ptShell'.step = "none"
<1>1. NoPtShell.step = "none"
  BY DEF NoPtShell
<1> QED
  BY <1>1
     DEF PortScript, KillPortChange, SetPort, SyncSubscriptions, RefreshPorts, ApplyForPort,
         VerifyPort, ConfirmForPort, RollBackForPort, UndoPort

(* Only the target of a change moves, to the new port or back. *)
LEMMA PortMoves ==
    ASSUME PortInv, PortScript \/ KillPortChange
    PROVE  /\ \A o \in Targets \ {ptShell.target} : ptPort'[o] = ptPort[o]
           /\ ptPort'[ptShell.target]
                 \in {ptPort[ptShell.target], ptShell.port, ptShell.old}
<1>1. PortChanging /\ ptPort \in [Targets -> Ports] /\ ptShell.target \in Targets
  BY ShellStep DEF PortInv, PortTypeOK, PortShells
<1>2. CASE ptPort' = Restored
  <2>1. /\ Restored[ptShell.target] = ptShell.old
        /\ \A o \in Targets \ {ptShell.target} : Restored[o] = ptPort[o]
    BY <1>1, RestoredType DEF PortInv
  <2> QED  BY <1>2, <2>1
<1>3. CASE UNCHANGED ptPort
  BY <1>3
<1>4. CASE ptPort' = [ptPort EXCEPT ![ptShell.target] = ptShell.port]
  BY <1>1, <1>4
<1> QED  BY <1>2, <1>3, <1>4, PortOutcomes

(* The port a change may still set, or restore, stays free. *)
LEMMA SharedStep ==
    ASSUME PortInv, [PortNext]_portVars
    PROVE  ShellInv' /\ PortsNeverShared'
<1> USE DEF PortInv
<1>1. CASE PortScript \/ KillPortChange
  <2>0. PortChanging /\ ptShell.target \in Targets /\ ptPort \in [Targets -> Ports]
    BY <1>1, ShellStep DEF PortShells, PortTypeOK
  <2>1. ShellInv'
    <3>1. CASE ptShell'.step = "none"
      BY <3>1 DEF ShellInv, PortChanging
    <3>2. CASE ptShell'.step # "none"
      <4>1. /\ ptShell'.target = ptShell.target /\ ptShell'.port = ptShell.port
            /\ ptShell'.old = ptShell.old /\ ptShell'.step # "set"
        BY <1>1, <3>2, ShellStep
      <4> QED  BY <1>1, <2>0, <4>1, PortMoves DEF ShellInv, SocketOf
    <3> QED  BY <3>1, <3>2
  <2>2. PortsNeverShared'
    <3>1. \A o \in Targets \ {ptShell.target} :
             <<Protocol(o), ptPort'[o]>>
               # <<Protocol(ptShell.target), ptPort'[ptShell.target]>>
      BY <1>1, <2>0, PortMoves DEF ShellInv, PortsNeverShared, SocketOf
    <3>2. \A t, o \in Targets \ {ptShell.target} :
             t # o => <<Protocol(t), ptPort'[t]>> # <<Protocol(o), ptPort'[o]>>
      BY <1>1, PortMoves DEF PortsNeverShared, SocketOf
    <3> QED  BY <2>0, <3>1, <3>2 DEF PortsNeverShared, SocketOf
  <2> QED  BY <2>1, <2>2
<1>2. ASSUME NEW r \in ptTasks, ExecutePort(r)
      PROVE  ShellInv' /\ PortsNeverShared'
  BY <1>2, BeginStep DEF PortsNeverShared, SocketOf
<1>3. CASE UNCHANGED <<ptPort, ptShell>>
  BY <1>3 DEF ShellInv, PortsNeverShared, SocketOf, PortChanging
<1> QED
  BY <1>1, <1>2, <1>3
     DEF PortNext, portVars, PreviewPort, PreviewCustom, ExecuteCustom, ApplyFirewall,
         ConfirmFirewall, RollBackFirewall, ForeignListener

(* What a task was previewed for does not change. *)
LEMMA TasksStep ==
    ASSUME PortInv, [PortNext]_portVars
    PROVE  PortTasksInv'
<1> USE DEF PortTasksInv
<1>0. PortTasksInv
  BY DEF PortInv
<1>1. ASSUME NEW t \in Targets, NEW p \in Ports, PreviewPort(t, p)
      PROVE  PortTasksInv'
  <2>1. <<Protocol(t), p>> \in Sockets
    BY DEF Sockets, Protocol
  <2> QED  BY <1>0, <1>1, <2>1 DEF PreviewPort
<1>2. ASSUME NEW op \in {"open", "close"}, NEW s \in Sockets, PreviewCustom(op, s)
      PROVE  PortTasksInv'
  <2>1. "clash" \in Targets
    BY DEF Targets
  <2> QED  BY <1>0, <1>2, <2>1 DEF PreviewCustom
<1>3. CASE ptTasks' \subseteq ptTasks
  BY <1>0, <1>3
<1> QED
  BY <1>1, <1>2, <1>3
     DEF PortNext, portVars, ExecutePort, ExecuteCustom, ApplyFirewall, ConfirmFirewall,
         RollBackFirewall, ForeignListener, PortScript, KillPortChange, SetPort,
         SyncSubscriptions, RefreshPorts, ApplyForPort, VerifyPort, ConfirmForPort,
         RollBackForPort, UndoPort
-----------------------------------------------------------------------------
(* The firewall.                                                           *)

(* Unless it is confirmed, a change leaves every service where its undo     *)
(* leaves it.                                                               *)
LEMMA UndoneKept ==
    ASSUME PortInv, PortScript \/ KillPortChange,
           ~(ConfirmForPort /\ ptWindow.open), ~KillPortChange, ~ptCut'
    PROVE  \A t \in Targets : OldSocket(t)' = OldSocket(t)
<1>0. /\ PortChanging /\ ShellInv /\ ptShell \in PortShells /\ ptShell.target \in Targets
      /\ ptPort \in [Targets -> Ports]
  BY ShellStep DEF PortInv, PortTypeOK, PortShells
<1>1. CASE ptShell'.step = "none" /\ ptPort' = Restored
  <2>1. \A t \in Targets :
           ptPort'[t] = IF t = ptShell.target THEN ptShell.old ELSE ptPort[t]
    BY <1>0, <1>1, RestoredType DEF PortInv
  <2> QED  BY <1>0, <1>1, <2>1 DEF OldSocket, SocketOf, PortChanging
<1>2. CASE ptShell'.step = "none" /\ UNCHANGED ptPort /\ ptShell.step = "set"
  BY <1>0, <1>2 DEF OldSocket, SocketOf, PortChanging, ShellInv
<1>3. CASE ptShell'.step # "none"
  <2>1. ptShell'.target = ptShell.target /\ ptShell'.old = ptShell.old
    BY <1>3, ShellStep DEF PortInv
  <2>2. \A o \in Targets \ {ptShell.target} : ptPort'[o] = ptPort[o]
    BY PortMoves
  <2> QED  BY <1>0, <1>3, <2>1, <2>2 DEF OldSocket, SocketOf, PortChanging
<1>4. NoPtShell.step = "none"
  BY DEF NoPtShell
<1>5. CASE SetPort
  BY <1>0, <1>2, <1>3, <1>4, <1>5 DEF SetPort, PortShells
<1>6. CASE \/ SyncSubscriptions \/ RefreshPorts \/ ApplyForPort \/ VerifyPort \/ ConfirmForPort
           \/ RollBackForPort
  <2>1. ptShell'.step # "none"
    BY <1>0, <1>6 DEF SyncSubscriptions, RefreshPorts, ApplyForPort, VerifyPort, ConfirmForPort,
                      RollBackForPort, PortShells
  <2> QED  BY <1>3, <2>1
<1>7. CASE UndoPort
  BY <1>1, <1>4, <1>7 DEF UndoPort
<1> QED  BY <1>5, <1>6, <1>7 DEF PortScript

(* Rolling the rules back lets in what was let in before the window. *)
LEMMA RollBackKeeps ==
    ASSUME PortInv, RollBackWindow, ~ptCut
    PROVE  ptWindow' = NoWindow /\ ~NoWindow.open /\ UndoneLetIn(ptLive')
           /\ (ptCustom \subseteq ptLive')
<1>1. ~ptWindow.open => UndoneLetIn(ptLive)
  BY DEF PortInv, FirewallInv, OwnWindow
<1>2. ptWindow.open => UndoneLetIn(ptWindow.backup)
  BY DEF PortInv, FirewallInv, OwnWindow
<1> QED
  BY <1>1, <1>2 DEF RollBackWindow, Loaded, UndoneLetIn, NoWindow, PortInv, FirewallInv

(* What is let in of the undone state, once the change is over, is let in. *)
LEMMA UndoneIsLetIn ==
    ASSUME ~PortChanging
    PROVE  \A rules : UndoneLetIn(rules) <=> LetIn(rules)
BY DEF UndoneLetIn, LetIn, OldSocket, PortChanging

(* The services the rules were made for are those of the undone state, and  *)
(* stay so.                                                                 *)
LEMMA FirewallStep ==
    ASSUME PortInv, [PortNext]_portVars
    PROVE  FirewallInv'
<1> USE DEF PortInv
<1>0. ptShell \in PortShells /\ ptPort \in [Targets -> Ports] /\ ptListening \subseteq Targets
  BY DEF PortTypeOK
<1>1. ASSUME ~ptCut' => ~ptCut /\ \A t \in Targets : OldSocket(t)' = OldSocket(t),
             ptListening' \subseteq ptListening,
             UNCHANGED <<ptLive, ptActive, ptWindow, ptCustom>>,
             ~OwnWindow, ~OwnWindow'
      PROVE  FirewallInv'
  BY <1>0, <1>1 DEF FirewallInv, UndoneLetIn
<1>2. CASE KillPortChange
  BY <1>2 DEF KillPortChange, FirewallInv
<1>3. CASE SetPort \/ SyncSubscriptions \/ RefreshPorts \/ UndoPort
  <2>1. ~OwnWindow /\ ~OwnWindow'
    <3>1. ptShell'.step \in {"none", "sync", "refresh", "apply", "undo"}
      BY <1>0, <1>3 DEF SetPort, SyncSubscriptions, RefreshPorts, UndoPort, PortShells, NoPtShell
    <3>2. ptShell.step \in {"set", "sync", "refresh", "undo"}
      BY <1>3 DEF SetPort, SyncSubscriptions, RefreshPorts, UndoPort
    <3> QED  BY <3>1, <3>2 DEF OwnWindow
  <2>2. (~ConfirmForPort /\ ~KillPortChange) \/ ptCut'
    BY <1>3 DEF SetPort, SyncSubscriptions, RefreshPorts, UndoPort, ConfirmForPort, KillPortChange
  <2>3. ~ptCut' => ~ptCut /\ \A t \in Targets : OldSocket(t)' = OldSocket(t)
    BY <1>3, <2>2, UndoneKept DEF PortScript, SetPort, SyncSubscriptions, RefreshPorts, UndoPort
  <2>4. ptListening' \subseteq ptListening /\ UNCHANGED <<ptLive, ptActive, ptWindow, ptCustom>>
    BY <1>3 DEF SetPort, SyncSubscriptions, RefreshPorts, UndoPort
  <2> QED  BY <1>1, <2>1, <2>3, <2>4
<1>4. CASE ApplyForPort
  <2>0. UNCHANGED <<ptListening, ptActive, ptCustom, ptCut>> /\ ptShell.step = "apply"
    BY <1>4 DEF ApplyForPort
  <2>1. ~ptCut => \A t \in Targets : OldSocket(t)' = OldSocket(t)
    BY <1>4, <2>0, UndoneKept DEF PortScript, ConfirmForPort, KillPortChange
  <2>2. CASE ptShell' = [ptShell EXCEPT !.step = "verify"] /\ ptWindow' = OpenedWindow
             /\ ptLive' = Loaded(FirewallSet) /\ UNCHANGED ptPort /\ ~ptWindow.open
    <3>1. OwnWindow'
      BY <1>0, <2>2, RulesType DEF OwnWindow, PortShells
    <3>2. ptCustom \subseteq ptLive' /\ LetIn(ptLive') /\ LetIn(FirewallSet)
      BY <2>2 DEF Loaded, FirewallSet, LetIn
    <3>3. ~ptCut => UndoneLetIn(ptActive) /\ UndoneLetIn(ptLive)
      BY <2>0 DEF FirewallInv, OwnWindow
    <3>4. ~ptCut => UndoneLetIn(ptActive') /\ UndoneLetIn(ptWindow'.backup)
      BY <2>0, <2>2, <3>3, RulesType
    <3>5. LetIn(ptLive)' /\ LetIn(ptWindow.candidate)'
      BY <2>0, <2>2, <3>2, RulesType DEF LetIn, SocketOf
    <3>6. ~ptCut => UndoneLetIn(ptActive)' /\ UndoneLetIn(ptWindow.backup)'
      BY <1>0, <2>0, <2>1, <3>4 DEF UndoneLetIn
    <3> QED  BY <2>0, <3>1, <3>2, <3>5, <3>6 DEF FirewallInv
  <2>3. CASE UNCHANGED <<ptWindow, ptLive>> /\ ptShell' = [ptShell EXCEPT !.step = "undo"]
    <3>1. ~OwnWindow /\ ~OwnWindow'
      BY <1>0, <2>0, <2>3 DEF OwnWindow, PortShells
    <3> QED  BY <1>1, <2>0, <2>1, <2>3, <3>1
  <2> QED  BY <1>4, <2>2, <2>3 DEF ApplyForPort
<1>5. ASSUME RollBackWindow, UNCHANGED <<ptListening, ptActive, ptCustom, ptCut>>,
             ~ptCut => \A t \in Targets : OldSocket(t)' = OldSocket(t)
      PROVE  FirewallInv'
  <2>1. ~OwnWindow' /\ ~ptWindow'.open
    BY <1>5 DEF RollBackWindow, NoWindow, OwnWindow
  <2>2. ptCustom \subseteq ptLive'
    BY <1>5 DEF RollBackWindow, Loaded, FirewallInv
  <2>3. ~ptCut => UndoneLetIn(ptLive') /\ UndoneLetIn(ptActive)
    BY <1>5, RollBackKeeps DEF FirewallInv
  <2> QED  BY <1>0, <1>5, <2>1, <2>2, <2>3 DEF FirewallInv, UndoneLetIn
<1>6. CASE VerifyPort
  <2>0. UNCHANGED <<ptListening, ptActive, ptCustom, ptCut>> /\ ptShell.step = "verify"
    BY <1>6 DEF VerifyPort
  <2>1. ~ptCut => \A t \in Targets : OldSocket(t)' = OldSocket(t)
    BY <1>6, <2>0, UndoneKept DEF PortScript, ConfirmForPort, KillPortChange
  <2>2. UNCHANGED <<ptPort, ptLive, ptWindow>> /\ ptShell'.step \in {"confirm", "rollback"}
    BY <1>0, <1>6 DEF VerifyPort, PortShells
  <2>3. OwnWindow' <=> OwnWindow
    BY <2>0, <2>2 DEF OwnWindow
  <2> QED
    BY <1>0, <2>0, <2>1, <2>2, <2>3 DEF FirewallInv, UndoneLetIn, LetIn, SocketOf
<1>7. CASE ConfirmForPort
  <2>0. UNCHANGED <<ptListening, ptCustom, ptCut>> /\ ptShell.step = "confirm"
    BY <1>7 DEF ConfirmForPort
  <2>1. CASE ptWindow.open
    <3>1. /\ ptActive' = ptWindow.candidate /\ ptWindow' = NoWindow
          /\ UNCHANGED <<ptLive, ptPort>> /\ ptShell' = NoPtShell
      BY <1>7, <2>1 DEF ConfirmForPort
    <3>2. ptShell'.step = "none" /\ ~ptWindow'.open /\ ~OwnWindow' /\ ~PortChanging'
      BY <2>0, <3>1 DEF NoPtShell, NoWindow, OwnWindow, PortChanging
    <3>3. ~ptCut => LetIn(ptLive) /\ LetIn(ptWindow.candidate)
      BY <2>0, <2>1 DEF FirewallInv, OwnWindow
    <3> QED
      BY <2>0, <3>1, <3>2, <3>3
         DEF FirewallInv, UndoneLetIn, LetIn, OldSocket, SocketOf, PortChanging
  <2>2. CASE ~ptWindow.open
    <3>1. ~ptCut => \A t \in Targets : OldSocket(t)' = OldSocket(t)
      BY <1>7, <2>0, <2>2, UndoneKept DEF PortScript, KillPortChange
    <3>2. UNCHANGED <<ptLive, ptActive, ptWindow>>
      BY <1>7, <2>2 DEF ConfirmForPort
    <3>3. ~OwnWindow /\ ~OwnWindow'
      BY <2>2, <3>2 DEF OwnWindow
    <3> QED  BY <1>1, <2>0, <3>1, <3>2, <3>3
  <2> QED  BY <2>1, <2>2
<1>15. CASE RollBackForPort
  <2>0. UNCHANGED <<ptListening, ptActive, ptCustom>> /\ ptShell.step = "rollback"
    BY <1>15 DEF RollBackForPort
  <2>1. ~ptCut' => \A t \in Targets : OldSocket(t)' = OldSocket(t)
    BY <1>15, <2>0, UndoneKept DEF PortScript, ConfirmForPort, KillPortChange
  <2>2. CASE RollBackWindow /\ UNCHANGED ptCut
    BY <1>5, <2>0, <2>1, <2>2
  <2>3. CASE ptCut' /\ UNCHANGED ptLive
    BY <2>0, <2>3 DEF FirewallInv
  <2> QED  BY <1>15, <2>2, <2>3 DEF RollBackForPort
<1>8. ASSUME NEW r \in ptTasks, ExecutePort(r)
      PROVE  FirewallInv'
  <2>1. \A t \in Targets : OldSocket(t)' = OldSocket(t)
    <3>1. CASE UNCHANGED <<ptShell, ptPort>>
      BY <3>1 DEF OldSocket, SocketOf, PortChanging
    <3>2. CASE /\ ptShell'.step = "set" /\ ptShell'.target \in Targets
               /\ ptShell'.old = ptPort[ptShell'.target] /\ UNCHANGED ptPort /\ ~PortChanging
      BY <3>2 DEF OldSocket, SocketOf, PortChanging
    <3> QED  BY <1>8, <3>1, <3>2, BeginStep
  <2>2. ~OwnWindow /\ ~OwnWindow'
    BY <1>8, BeginStep DEF OwnWindow, PortChanging
  <2> QED  BY <1>1, <1>8, <2>1, <2>2, BeginStep
<1>9. ASSUME UNCHANGED <<ptPort, ptShell, ptCut>>
      PROVE  \A t \in Targets : OldSocket(t)' = OldSocket(t)
  BY <1>9 DEF OldSocket, SocketOf, PortChanging
<1>10. ASSUME NEW r \in ptTasks, ExecuteCustom(r)
       PROVE  FirewallInv'
  <2>1. /\ ~PortChanging /\ ~OwnWindow /\ ~OwnWindow'
        /\ UNCHANGED <<ptPort, ptShell, ptCut, ptListening, ptActive, ptWindow>>
    BY <1>10 DEF ExecuteCustom, PtIdle, PortChanging, OwnWindow
  <2>2. ptCustom' \subseteq ptLive'
    BY <1>10 DEF ExecuteCustom, FirewallInv
  <2>3. ~ptCut => UndoneLetIn(ptLive')
    <3>1. ~ptCut => UndoneLetIn(ptLive) /\ UndoneLetIn(ptActive)
      BY <2>1 DEF FirewallInv
    <3>2. ptLive' = ptLive \/ ptLive' = ptLive \cup {r.socket}
          \/ (ptLive' = ptLive \ {r.socket} /\ r.socket \notin ptActive)
      BY <1>10 DEF ExecuteCustom
    <3> QED  BY <3>1, <3>2 DEF UndoneLetIn
  <2> QED  BY <1>0, <1>9, <2>1, <2>2, <2>3 DEF FirewallInv, UndoneLetIn
<1>11. CASE ApplyFirewall
  <2>1. /\ ~PortChanging /\ ~OwnWindow /\ ~OwnWindow' /\ ~ptWindow.open
        /\ UNCHANGED <<ptPort, ptShell, ptCut, ptListening, ptActive, ptCustom>>
        /\ ptWindow' = OpenedWindow /\ ptLive' = Loaded(FirewallSet)
    BY <1>11 DEF ApplyFirewall, PtIdle, PortChanging, OwnWindow
  <2>2. ptCustom \subseteq ptLive' /\ UndoneLetIn(ptLive') /\ UndoneLetIn(FirewallSet)
    BY <2>1 DEF Loaded, FirewallSet, UndoneLetIn, OldSocket, SocketOf
  <2>3. ~ptCut => UndoneLetIn(ptLive) /\ UndoneLetIn(ptActive)
    BY <2>1 DEF FirewallInv
  <2>4. ptWindow'.backup = ptLive /\ ptWindow'.candidate = FirewallSet
    BY <2>1, RulesType
  <2> QED  BY <1>0, <1>9, <2>1, <2>2, <2>3, <2>4 DEF FirewallInv, UndoneLetIn
<1>12. CASE ConfirmFirewall
  <2>1. /\ ~PortChanging /\ ~OwnWindow /\ ~OwnWindow' /\ ptWindow.open /\ ~ptWindow'.open
        /\ UNCHANGED <<ptPort, ptShell, ptCut, ptListening, ptLive, ptCustom>>
        /\ ptActive' = ptWindow.candidate
    BY <1>12 DEF ConfirmFirewall, PtIdle, PortChanging, OwnWindow, NoWindow
  <2> QED  BY <1>0, <1>9, <2>1 DEF FirewallInv, UndoneLetIn
<1>13. CASE RollBackFirewall
  BY <1>5, <1>9, <1>13 DEF RollBackFirewall
<1>14. CASE UNCHANGED <<ptPort, ptListening, ptLive, ptActive, ptWindow, ptCustom, ptShell,
                        ptCut>>
  <2>1. OwnWindow' <=> OwnWindow
    BY <1>14 DEF OwnWindow
  <2> QED
    BY <1>0, <1>9, <1>14, <2>1 DEF FirewallInv, UndoneLetIn, LetIn, SocketOf
<1> QED
  BY <1>2, <1>3, <1>4, <1>6, <1>7, <1>8, <1>10, <1>11, <1>12, <1>13, <1>14,
     <1>15
     DEF PortNext, PortScript, portVars, PreviewPort, PreviewCustom, ForeignListener
-----------------------------------------------------------------------------
(* Theorems.                                                               *)

(* An installed host satisfies the invariant. *)
LEMMA PortInitInv == PortInit => PortInv
<1> SUFFICES ASSUME PortInit PROVE PortInv
  OBVIOUS
<1>1. ptPort \in [Targets -> Ports] /\ ptListening \subseteq Targets /\ ptPort = InitialPorts
  BY PortAssumption DEF PortInit
<1>2. \A t \in Targets : <<Protocol(t), InitialPorts[t]>> \in Sockets
  BY PortAssumption DEF Sockets, Protocol
<1>3. /\ ptLive \subseteq Sockets /\ ptActive = ptLive
      /\ \A t \in ptListening : <<Protocol(t), InitialPorts[t]>> \in ptLive
  BY <1>1, <1>2 DEF PortInit
<1>4. /\ ptShell \in PortShells /\ ~PortChanging /\ ptShell.step = "none"
      /\ ptWindow.open = FALSE /\ ptWindow.backup = {} /\ ptWindow.candidate = {}
      /\ ptForeign = {} /\ ptCustom = {} /\ ptTasks = {}
  BY DEF PortInit, NoPtShell, PortShells, PortSteps, Targets, PortChanging, NoWindow
<1>5. PortTypeOK
  BY <1>1, <1>3, <1>4 DEF PortTypeOK
<1>6. PortTasksInv /\ ShellInv
  BY <1>4 DEF PortTasksInv, ShellInv
<1>7. FirewallInv
  <2>1. UndoneLetIn(ptLive)
    BY <1>1, <1>3, <1>4 DEF UndoneLetIn, OldSocket, SocketOf
  <2> QED  BY <1>3, <1>4, <2>1 DEF FirewallInv, OwnWindow
<1>8. PortsNeverShared
  BY <1>1, PortAssumption DEF PortsNeverShared, SocketOf
<1> QED  BY <1>4, <1>5, <1>6, <1>7, <1>8 DEF PortInv

(* The inductive invariant holds in every behaviour. *)
THEOREM PortInvariance == PortSpec => []PortInv
<1>1. PortInv /\ [PortNext]_portVars => PortInv'
  BY PortTypeStep, SharedStep, TasksStep, FirewallStep DEF PortInv
<1> QED  BY <1>1, PortInitInv, PTL DEF PortSpec

(* No two services get the same port, whatever was previewed side by side.  *)
THEOREM NoPortIsShared == PortSpec => []PortsNeverShared
BY PortInvariance, PTL DEF PortInv

(* Between changes the firewall lets every running service and every custom *)
(* port in, after any undo, rollback or timeout.                            *)
THEOREM FirewallKeepsUp == PortSpec => []FirewallFollowsPorts
<1>1. PortInv => FirewallFollowsPorts
  <2> SUFFICES ASSUME PortInv, PtIdle, ~ptCut
               PROVE  {SocketOf(t) : t \in ptListening} \cup ptCustom \subseteq ptLive
    BY DEF FirewallFollowsPorts
  <2>1. ~PortChanging /\ ~OwnWindow
    BY DEF PtIdle, PortChanging, OwnWindow
  <2>2. UndoneLetIn(ptLive) /\ ptCustom \subseteq ptLive
    BY <2>1 DEF PortInv, FirewallInv
  <2>3. LetIn(ptLive)
    BY <2>1, <2>2, UndoneIsLetIn
  <2> QED  BY <2>2, <2>3 DEF LetIn
<1> QED  BY <1>1, PortInvariance, PTL

(* Types of the ports, of the firewall's rules and of its window.          *)
THEOREM PortTypesCorrect == PortSpec => []PortTypeOK
<1>1. PortInv => PortTypeOK
  BY DEF PortInv
<1> QED  BY <1>1, PortInvariance, PTL
=============================================================================
