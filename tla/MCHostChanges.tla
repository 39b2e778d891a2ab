---------------------------- MODULE MCHostChanges ----------------------------
(***************************************************************************)
(* The parts of the host that tasks of the website change: domains, proxy  *)
(* exits, services and their links, ports, keys of root, and nodes.  They  *)
(* share the change lock and the agent's one worker; what one part reads   *)
(* of another is a variable of the module that reads it.  A behaviour is   *)
(* one of one part, the others rest in one of their initial states.        *)
(***************************************************************************)
EXTENDS DomainTasks, ProxyTasks, ServiceTasks, MCPortTasks, RootLogin, NetworkTasks

VARIABLE part

MCHostNames == {<<"x">>, <<"a", "x">>}

MCDomainChoices == {[wild |-> TRUE, name |-> <<"x">>], [wild |-> FALSE, name |-> <<"a", "x">>]}

(* Two names that are published alike, another one, and one of signs only.  *)
MCExitNames == {[token |-> "hk", spelling |-> "a"], [token |-> "hk", spelling |-> "b"],
                [token |-> "us", spelling |-> "a"], [token |-> "none", spelling |-> "a"]}

ProxyRests ==
    /\ pxConfig.selections = <<>>
    /\ pxConfig.exits[1].name = [token |-> "hk", spelling |-> "a"]
    /\ pxConfig.exits[2].name = [token |-> "us", spelling |-> "a"]

ChangesInit ==
    /\ part \in {"domains", "proxy", "services", "ports", "login", "network"}
    /\ DnInit /\ ProxyInit /\ ServiceInit /\ PortInit /\ LoginInit /\ NetworkInit
    /\ part # "proxy" => ProxyRests
    /\ part # "ports" => ptListening = Targets
    /\ part # "login" => rlLines = {}
    /\ nwManager = "m"
    /\ part # "network" => nwPeers["p"] = "none" /\ nwAccess["m"].mode = "unrestricted"
                           /\ nwPolicy["p"] = NoClient

ChangesNext ==
    /\ UNCHANGED part
    /\ \/ /\ part = "domains" /\ DnNext
          /\ UNCHANGED <<proxyVars, serviceVars, portVars, loginVars, networkVars>>
       \/ /\ part = "proxy" /\ ProxyNext
          /\ UNCHANGED <<dnVars, serviceVars, portVars, loginVars, networkVars>>
       \/ /\ part = "services" /\ ServiceNext
          /\ UNCHANGED <<dnVars, proxyVars, portVars, loginVars, networkVars>>
       \/ /\ part = "ports" /\ PortNext
          /\ UNCHANGED <<dnVars, proxyVars, serviceVars, loginVars, networkVars>>
       \/ /\ part = "login" /\ LoginNext
          /\ UNCHANGED <<dnVars, proxyVars, serviceVars, portVars, networkVars>>
       \/ /\ part = "network" /\ NetworkNext
          /\ UNCHANGED <<dnVars, proxyVars, serviceVars, portVars, loginVars>>

ChangesSpec ==
    ChangesInit /\ [][ChangesNext]_<<part, dnVars, proxyVars, serviceVars, portVars, loginVars,
                                    networkVars>>

(* Every variable of the six parts keeps its shape.                        *)
ChangesTypeOK ==
    /\ DnTypeOK /\ ProxyTypeOK /\ SvTypeOK /\ PortTypeOK /\ LoginTypeOK
    /\ NwTypeOK
=============================================================================
