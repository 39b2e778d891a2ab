---------------------------- MODULE MCHostWindows ----------------------------
(***************************************************************************)
(* The parts of the host that take a change back by themselves: the online *)
(* restore, the exit resolvers and the enrolment of nodes.  They share no  *)
(* file; what they share is the change lock, so that their commands never  *)
(* overlap.  A behaviour is one of one part, the other two rest in one of  *)
(* their initial states.                                                   *)
(***************************************************************************)
EXTENDS RestoreTransaction, ExitDns, AwgMembers, TLC

VARIABLE part

RestoreRests == \A f \in RestoreFiles : disk[f] = "edited"

DnsRests == dnsChosen = {} /\ ~xrayRuns.on

WindowsInit ==
    /\ part \in {"restore", "dns", "awg"}
    /\ RestoreInit /\ DnsInit /\ AwgInit
    /\ part # "restore" => RestoreRests
    /\ part # "dns" => DnsRests

WindowsNext ==
    /\ UNCHANGED part
    /\ \/ part = "restore" /\ RestoreNext /\ UNCHANGED <<dnsVars, awgVars>>
       \/ part = "dns" /\ DnsNext /\ UNCHANGED <<restoreVars, awgVars>>
       \/ part = "awg" /\ AwgNext /\ UNCHANGED <<restoreVars, dnsVars>>

WindowsSpec == WindowsInit /\ [][WindowsNext]_<<part, restoreVars, dnsVars, awgVars>>

(* Every variable of the three parts keeps its shape.                      *)
WindowsTypeOK == RestoreTypeOK /\ DnsTypeOK /\ AwgTypeOK

(* Nodes are alike, and so are the login sessions of a restore.            *)
Alike == Permutations(AwgNames) \cup Permutations(RestoreSessions)
=============================================================================
