---------------------------- MODULE TaskActions ----------------------------
(***************************************************************************)
(* The registered changes of a managed host, as the root agent's action    *)
(* catalogue classifies them (control_plane/actions.py) and as the control *)
(* plane prepares, inspects and executes them (control_plane/core.py).     *)
(*                                                                         *)
(* An action is a record [family, op].  The family is the script           *)
(* transaction the action drives, or "host" for every change that opens no *)
(* rollback window; the op is one of apply, confirm and rollback for a     *)
(* family, and for the host tells only what the task carries: nothing      *)
(* ("change"), a sensitive payload ("secret") or an uploaded file          *)
(* ("upload").                                                             *)
(***************************************************************************)
EXTENDS Integers, FiniteSets

Host == "host"

(* security.transaction.change and its four transaction types. *)
SecurityFamilies == {"ssh_auth", "ssh_listener", "firewall", "vless_listener"}

Families == SecurityFamilies \cup {"public_endpoint", "backup_restore"}

HostOps == {"change", "secret", "upload"}
WindowOps == {"apply", "confirm", "rollback"}

AllActions ==
    [family : {Host}, op : HostOps] \cup [family : Families, op : WindowOps]

(***************************************************************************)
(* supports_rollback of the prepared task.  The catalogue sets it for every *)
(* apply, but _prepare_restore_task does not pass it on.                   *)
(***************************************************************************)
SupportsRollback(a) == a.op = "apply" /\ a.family # "backup_restore"

(* The tasks _claim_next lets through while a rollback window is open. *)
BypassesWindow(a) ==
    /\ a.family \in SecurityFamilies \cup {"public_endpoint"}
    /\ ~SupportsRollback(a)

(* Another administrator may confirm or cancel these tasks. *)
TakeoverAllowed(a) == a.family \in SecurityFamilies

(* Families whose status reports last_outcome and transaction_id. *)
ReportsOutcome(f) == f \in {"public_endpoint", "vless_listener"}

(* Families whose confirm and rollback name the window they act on. *)
NamesWindow(f) == f = "public_endpoint"

(* Families a root shell can drive next to the agent; the other ones refuse *)
(* to be applied or confirmed outside the control plane.                    *)
CommandLineFamilies == {"ssh_auth", "ssh_listener", "firewall"}

(* Sensitive parameters, stored encrypted apart from params_json. *)
CarriesSecret(a) ==
    \/ a.op = "secret"
    \/ a.family = "backup_restore" /\ a.op = "apply"

CarriesUpload(a) == a.op = "upload"

(* inspect_task_action returns a transaction "state" for these, and can     *)
(* read it without the decrypted payload.                                   *)
ShowsWindow(a) == a.family \in Families /\ ~CarriesSecret(a)
=============================================================================
