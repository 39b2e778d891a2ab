--------------------------- MODULE GuardedWindow ---------------------------
(***************************************************************************)
(* What a script transaction promises to the change-task engine, as far as *)
(* its status shows it: at most one window is open; it is withdrawn before *)
(* anything was changed, or it ends confirmed or rolled back, and how it   *)
(* ended stays readable under its number until the next apply begins.      *)
(***************************************************************************)
EXTENDS Naturals

VARIABLES
    state,      \* "idle" or "pending"
    number,     \* the transaction the status names, 0 for none
    outcome,    \* last_outcome
    changed     \* the host was changed inside the open window

vars == <<state, number, outcome, changed>>

Init == state = "idle" /\ number = 0 /\ outcome = "" /\ changed = FALSE

(* The next apply begins: what became of the last window is forgotten. *)
Forget ==
    /\ state = "idle"
    /\ number' = 0 /\ outcome' = ""
    /\ UNCHANGED <<state, changed>>

Open ==
    /\ state = "idle" /\ number = 0
    /\ state' = "pending" /\ number' \in Nat \ {0}
    /\ UNCHANGED <<outcome, changed>>

Change == state = "pending" /\ changed' = TRUE /\ UNCHANGED <<state, number, outcome>>

Withdraw ==
    /\ state = "pending" /\ ~changed
    /\ state' = "idle" /\ number' = 0
    /\ UNCHANGED <<outcome, changed>>

Close ==
    /\ state = "pending"
    /\ state' = "idle" /\ changed' = FALSE
    /\ outcome' \in {"confirmed", "rolled_back", "automatic_rollback"}
    /\ UNCHANGED number

Next == Forget \/ Open \/ Change \/ Withdraw \/ Close

Spec == Init /\ [][Next]_vars
=============================================================================
