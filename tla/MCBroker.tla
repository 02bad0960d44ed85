------------------------------ MODULE MCBroker ------------------------------
(***************************************************************************)
(* The two brokers.  A behaviour is one of Broker, with bindings of one    *)
(* application and no synchronization, or one of ServiceInstances, with    *)
(* two requests at a time, again and again, for two instances and a        *)
(* binding of either, and one connection between them.                     *)
(***************************************************************************)
EXTENDS Broker, ServiceInstances

CONSTANT a1

VARIABLE broker

OneApp  == {a1}
NoSyncs == {}

BrokersInit == broker \in {"servicebroker", "api"} /\ BrokerInit /\ ApiInit

BrokersNext ==
  /\ UNCHANGED broker
  /\ \/ broker = "servicebroker" /\ BrokerNext /\ UNCHANGED apiVars
     \/ broker = "api" /\ ApiNext /\ UNCHANGED bvars

\* Who rests has no requests to be fair to.
BrokersSpec ==
  BrokersInit /\ [][BrokersNext]_<<broker, bvars, apiVars>> /\ BrokerFairness
=============================================================================
