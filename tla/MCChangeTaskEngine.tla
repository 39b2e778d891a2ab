------------------------ MODULE MCChangeTaskEngine ------------------------
(* Instances of the change-task engine for TLC: which changes the           *)
(* administrators ask for decides what an instance is about.                *)
EXTENDS ChangeTaskEngine

Change(f, op) == [family |-> f, op |-> op]

(* Host changes only: the queue, expiry, cancellation, what a task carries. *)
MCHostActions == {Change(Host, op) : op \in {"secret", "upload"}}

(* One window that names its transaction and reports its outcome. *)
MCVlessActions == {Change("vless_listener", op) : op \in WindowOps}

(* Two windows side by side, one of them reported by name, and the restore  *)
(* window, whose apply carries a secret and is not guarded by its task.     *)
MCRecoveryActions ==
    {Change("public_endpoint", op) : op \in {"apply", "confirm"}}
      \cup {Change("backup_restore", "apply"), Change("ssh_auth", "apply")}

(* One window that keeps no outcome, and a change that must wait for it.    *)
MCSettleActions ==
    {Change("firewall", "apply"), Change("firewall", "rollback"), Change(Host, "change")}

MCEndpointActions == {Change("public_endpoint", op) : op \in WindowOps}

MCFirewallActions == {Change("firewall", op) : op \in WindowOps}
=============================================================================
