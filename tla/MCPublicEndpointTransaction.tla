-------------------- MODULE MCPublicEndpointTransaction --------------------
(* Instances of the public endpoint transaction for TLC.                    *)
EXTENDS PublicEndpointTransaction

(* Every step may fail, but for the outcome that is being written. *)
MCFaults == FaultKinds \ {"outcome"}

MCOutcomeFaults == {"outcome"}
=============================================================================
