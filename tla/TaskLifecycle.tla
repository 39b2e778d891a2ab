--------------------------- MODULE TaskLifecycle ---------------------------
(***************************************************************************)
(* What the change-task engine promises, without its threads, its database *)
(* and its crashes (docs/adr/0004-persistent-change-task-engine.md): a     *)
(* change is proposed, approved once, and then gets one turn; turns are    *)
(* serial and in order of proposal; in its turn it acts on the host at     *)
(* most once; a change that opens a rollback window guards the queue until *)
(* the window is settled, and only exempt changes get a turn meanwhile.    *)
(***************************************************************************)
EXTENDS Integers, FiniteSets

CONSTANTS
    Tasks,      \* the changes: numbers, in the order they are proposed
    Limit       \* approved changes that may wait or run at the same time

Phases == {"absent", "proposed", "approved", "running", "guarded", "ended"}

VARIABLES
    phase,      \* how far each change is
    exempt,     \* the changes that may run while the queue is guarded
    acted       \* the changes that acted on the host

vars == <<phase, exempt, acted>>

In(p) == {t \in Tasks : phase[t] = p}

MoveTo(t, p) == phase' = [phase EXCEPT ![t] = p]

Init ==
    /\ phase = [t \in Tasks |-> "absent"]
    /\ exempt = {} /\ acted = {}

Propose(t) ==
    /\ t \in In("absent")
    /\ \A u \in In("absent") : t <= u
    /\ MoveTo(t, "proposed")
    /\ exempt' \in {exempt, exempt \cup {t}}
    /\ UNCHANGED acted

(* Proposals expire together; a proposed or approved change is cancelled. *)
Withdraw(S) ==
    /\ S \subseteq In("proposed") \/ \E t \in In("approved") : S = {t}
    /\ phase' = [t \in Tasks |-> IF t \in S THEN "ended" ELSE phase[t]]
    /\ UNCHANGED <<exempt, acted>>

Approve(t) ==
    /\ t \in In("proposed")
    /\ Cardinality(In("approved") \cup In("running")) < Limit
    /\ MoveTo(t, "approved")
    /\ UNCHANGED <<exempt, acted>>

MayStart(t) == t \in In("approved") /\ (t \in exempt \/ In("guarded") = {})

Start(t) ==
    /\ In("running") = {}
    /\ MayStart(t)
    /\ \A u \in Tasks : MayStart(u) => t <= u
    /\ MoveTo(t, "running")
    /\ UNCHANGED <<exempt, acted>>

Act(t) ==
    /\ t \in In("running") \ acted
    /\ acted' = acted \cup {t}
    /\ UNCHANGED <<phase, exempt>>

(* The turn of a change ends; its window may still have to be settled. *)
EndTurn(t) ==
    /\ t \in In("running")
    /\ \E p \in {"guarded", "ended"} : MoveTo(t, p)
    /\ UNCHANGED <<exempt, acted>>

Settle(t) ==
    /\ t \in In("guarded")
    /\ MoveTo(t, "ended")
    /\ UNCHANGED <<exempt, acted>>

Next ==
    \/ \E t \in Tasks :
          \/ Propose(t) \/ Approve(t) \/ Start(t)
          \/ Act(t) \/ EndTurn(t) \/ Settle(t)
    \/ \E S \in SUBSET Tasks : Withdraw(S)

Spec == Init /\ [][Next]_vars
=============================================================================
