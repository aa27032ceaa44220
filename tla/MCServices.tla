----------------------------- MODULE MCServices ------------------------------
(* What runs in a Hub beside its stores, one of three in each behaviour:   *)
(* answers produced after a message is acknowledged (ConversationGateway), *)
(* the store's worker pool with the runtimes around it (HubLifetime), and  *)
(* the functions that open and close a whole Hub (HubProcess).             *)
EXTENDS ConversationGateway, HubLifetime, HubProcess

VARIABLE focus

serviceVars == <<focus, gatewayVars, lifeVars, processVars>>

ServicesInit ==
    /\ focus \in {"gateway", "pool", "process"}
    /\ GatewayInit /\ LifeInit /\ ProcessInit
    /\ focus # "pool" => runtime = "https"
    /\ focus # "process" => mode = "https"

ServicesNext ==
    /\ UNCHANGED focus
    /\ \/ focus = "gateway" /\ GatewayNext /\ UNCHANGED <<lifeVars, processVars>>
       \/ focus = "pool" /\ LifeNext /\ UNCHANGED <<gatewayVars, processVars>>
       \/ focus = "process" /\ ProcessNext /\ UNCHANGED <<gatewayVars, lifeVars>>

ServicesSpec ==
    ServicesInit /\ [][ServicesNext]_serviceVars /\ GatewayFairness /\ LifeFairness
==============================================================================
