----------------------------- MODULE Aggregation -----------------------------
(***************************************************************************)
(* The first half of the event generator: AppManager keeps the policies    *)
(* and a cache for each app that has one, the aggregator asks for the      *)
(* metrics of these apps, pollers get them from the metrics collector, and *)
(* one goroutine takes their averages to the caches and, in bulk, to the   *)
(* database.  The caches themselves are in TSDCache.                       *)
(***************************************************************************)
EXTENDS Channels, SequencesExt

CONSTANTS
  Pollers,          \* how many there are
  AppMonitorChannelSize, AppMetricChannelSize

VARIABLES
  policies,              \* the apps with a policy, in the policy database
  policyMap,             \* the apps of this node with one, as AppManager knows them
  metricCache            \* the apps with a cache

aggregatorVars == <<policies, policyMap, metricCache>>

Aggregator    == <<"aggregator">>
AppChan       == <<"monitors">>
AppMetricChan == <<"appMetrics">>
Poller(p)     == <<"poller", p>>

AggregatorInit ==
  /\ program = "aggregator"
  /\ Goroutines({Refresher, Aggregator, Saver} \cup {Poller(p) : p \in 1 .. Pollers}, {})
  /\ chan = [c \in {AppChan, AppMetricChan} |-> <<>>]
  /\ policies \in SUBSET Apps
  /\ policyMap = {} /\ metricCache = {}

AggregatorOff == policies = {} /\ policyMap = {} /\ metricCache = {}
-----------------------------------------------------------------------------
\* A database that does not answer is asked again at once, and the signal to stop is
\* not looked for in between.
RetrievePolicies ==
  /\ Waits(Refresher)
  /\ policyMap' = policies \cap AppShard
  /\ pc' = [pc EXCEPT ![Refresher] = "refresh"]
  /\ UNCHANGED <<program, out, chan, policies, metricCache>>

RefreshMetricCache ==
  /\ pc[Refresher] = "refresh"
  /\ metricCache' = policyMap
  /\ pc' = [pc EXCEPT ![Refresher] = "select"]
  /\ UNCHANGED <<program, out, chan, policies, policyMap>>

\* The ticker of the aggregator, which ranges over a map: the monitors come in any order.
AskForMetrics ==
  /\ \E monitors \in SetToSeqs(policyMap) : Begin(Aggregator, monitors)
  /\ UNCHANGED aggregatorVars

PutMonitor ==
  Put(Aggregator, AppChan, AppMonitorChannelSize) /\ UNCHANGED aggregatorVars

\* The metrics of an app; if there are none to be had the poller has nothing to send.
RetrieveMetric(p, a, got) ==
  /\ chan[AppChan] # <<>> /\ Head(chan[AppChan]) = a
  /\ Take(Poller(p), AppChan, IF got THEN <<a>> ELSE <<>>)
  /\ UNCHANGED aggregatorVars

PutAppMetric(p) ==
  Put(Poller(p), AppMetricChan, AppMetricChannelSize) /\ UNCHANGED aggregatorVars

\* mutant: the aggregator's goroutine takes the metrics between its monitors.
SaveAppMetric_SameLoop(a) ==
  /\ chan[AppMetricChan] # <<>> /\ Head(chan[AppMetricChan]) = a
  /\ Take(Aggregator, AppMetricChan, <<>>)
  /\ UNCHANGED aggregatorVars

SaveAppMetric(a) ==
  /\ chan[AppMetricChan] # <<>> /\ Head(chan[AppMetricChan]) = a
  /\ Take(Saver, AppMetricChan, <<>>)
  /\ UNCHANGED aggregatorVars

\* The average reaches the cache, if the app has one.
Cached(a) == a \in metricCache /\ SaveAppMetric(a)

ChangePolicies ==
  /\ policies' \in SUBSET Apps \ {policies}
  /\ UNCHANGED <<channelVars, policyMap, metricCache>>
-----------------------------------------------------------------------------
\* main closes the doneChans and waits for nobody.  The pollers are not stopped: the
\* aggregator does not know them.
CloseDoneChans ==
  /\ pc[Main] = "select"
  /\ pc' = [pc EXCEPT ![Main] = "stopped"]
  /\ UNCHANGED <<program, out, chan, aggregatorVars>>

SeeDone(g) == Stopped /\ Stop(Main, g) /\ UNCHANGED aggregatorVars

AggregatorNext ==
  \/ RetrievePolicies \/ RefreshMetricCache \/ AskForMetrics \/ PutMonitor
  \/ ChangePolicies \/ CloseDoneChans
  \/ \E p \in 1 .. Pollers :
       PutAppMetric(p) \/ \E a \in Apps, got \in BOOLEAN : RetrieveMetric(p, a, got)
  \/ \E a \in Apps : SaveAppMetric(a)
  \/ \E g \in {Refresher, Aggregator, Saver} : SeeDone(g)
=============================================================================
