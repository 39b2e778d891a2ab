----------------------------- MODULE MCPortTasks -----------------------------
(* Values for TLC: two services on TCP and two on UDP.                     *)
EXTENDS PortTasks

MCInitialPorts == [clash |-> 1, file |-> 2, awg1 |-> 1, awg2 |-> 2]
=============================================================================
