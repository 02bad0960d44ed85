------------------------------ MODULE Pipelines ------------------------------
(***************************************************************************)
(* The programs that carry metrics: the collector, or the gateway and the  *)
(* metrics servers in its place, and the event generator's aggregation.    *)
(* Each runs by itself.  What can go wrong in them is the same: goroutines *)
(* that wait for one another, while they work and while they are stopped.  *)
(***************************************************************************)
EXTENDS Collector, MetricsServer, Gateway, Aggregation

vars == <<channelVars, collectorVars, serverVars, gatewayVars, aggregatorVars>>

Init ==
  \/ CollectorInit /\ ServerOff /\ GatewayOff /\ AggregatorOff
  \/ ServerInit /\ CollectorOff /\ GatewayOff /\ AggregatorOff
  \/ GatewayInit /\ CollectorOff /\ ServerOff /\ AggregatorOff
  \/ AggregatorInit /\ CollectorOff /\ ServerOff /\ GatewayOff

InCollector(A) ==
  program = "collector" /\ A /\ UNCHANGED <<serverVars, gatewayVars, aggregatorVars>>

InServer(A) ==
  program = "server" /\ A /\ UNCHANGED <<collectorVars, gatewayVars, aggregatorVars>>

InGateway(A) ==
  program = "gateway" /\ A /\ UNCHANGED <<collectorVars, serverVars, aggregatorVars>>

InAggregator(A) ==
  program = "aggregator" /\ A /\ UNCHANGED <<collectorVars, serverVars, gatewayVars>>

Next ==
  \/ InCollector(CollectorNext) \/ InServer(ServerNext)
  \/ InGateway(GatewayNext) \/ InAggregator(AggregatorNext)

(* Go runs every goroutine that can run and serves those that wait for one  *)
(* channel in turn.  A select chooses at random among the channels that are *)
(* ready, so what is ready again and again is chosen in the end.            *)
CollectorFairness ==
  /\ SF_vars(InCollector(Refresh))
  /\ \A a \in Apps : WF_vars(InCollector(Save(a)))

ServerFairness ==
  /\ WF_vars(InServer(SaveMetric))
  /\ \A i \in 1 .. Processors : SF_vars(InServer(PutMetric(i)))

\* Envelopes keep coming, and a broken connection can be set up again in the end.
GatewayFairness ==
  /\ WF_vars(InGateway(Dispatch \/ Accept))
  /\ \A n \in 1 .. Nozzles :
       /\ SF_vars(InGateway(PutEnvelope(n)))
       /\ WF_vars(InGateway(Listen(n) \/ \E a \in Apps : Rx(n, a)))
  /\ \A i \in 1 .. Emitters :
       /\ WF_vars(InGateway(\E new \in {"open", "broken"} : Write(i, new)))
       /\ WF_vars(InGateway(Ping(i, "open")))

\* The database and the metrics collector answer in the end, if with an error.
AggregatorFairness ==
  /\ WF_vars(InAggregator(RetrievePolicies \/ RefreshMetricCache))
  /\ WF_vars(InAggregator(AskForMetrics \/ PutMonitor))
  /\ WF_vars(InAggregator(\E a \in Apps : SaveAppMetric(a)))
  /\ \A p \in 1 .. Pollers : SF_vars(InAggregator(PutAppMetric(p)))
  /\ WF_vars(InAggregator(\E p \in 1 .. Pollers, a \in Apps : RetrieveMetric(p, a, TRUE)))

Spec ==
  /\ Init /\ [][Next]_vars
  /\ CollectorFairness /\ ServerFairness /\ GatewayFairness /\ AggregatorFairness
  /\ SF_vars(InCollector(StopCollector) \/ InServer(StopServer) \/ InGateway(StopGateway))
-----------------------------------------------------------------------------
\* No goroutine collects an app unseen: the metrics of an app would be collected twice
\* when it comes back, and nobody could stop the first of the two.
NoOrphan ==
  program = "collector" => \A a \in Apps : pc[Of(a)] = "select" => a \in appCollectors

CollectorGoroutines == {Main, Refresher, Saver} \cup {Of(a) : a \in Apps}

CollectorTypeOK ==
  /\ pc \in [CollectorGoroutines -> {"select", "refresh", "save", "apps", "stopped", "ended"}]
  /\ appIds \subseteq Apps /\ appCollectors \subseteq Apps
  /\ refresh \in [stop : SUBSET Apps, start : SUBSET Apps]

\* What refreshApps has found stays so until it has dealt with it: the collectors it
\* stops are there, and no app that it starts a collector for has one.
RefreshKnows ==
  refresh.stop \subseteq appCollectors /\ refresh.start \cap appCollectors = {}

\* What Stop has behind it: no refresh starts another collector, the map has all that
\* are left, and when it returns none is.
StagesKnow ==
  /\ pc[Main] \in {"save", "apps", "stopped"} => pc[Refresher] = "ended"
  /\ pc[Main] \in {"apps", "stopped"} => pc[Saver] = "ended"
  /\ pc[Refresher] = "ended" => refresh = NoRefresh
  /\ ~Stopped /\ pc[Main] # "apps" => \A a \in appCollectors : pc[Of(a)] = "select"
  /\ Stopped => \A a \in Apps : pc[Of(a)] # "select"

\* The collector's map of its goroutines is right at all times, and with it everything
\* that is done by the map: queries, refreshes, and stopping.
CollectorInvariant ==
  program = "collector" => CollectorTypeOK /\ RefreshKnows /\ StagesKnow /\ NoOrphan

\* When the policies change no more, the collectors are in the end those of the apps
\* of this node that have one, whatever metrics the saver has still to receive.
CollectorsFollow ==
  /\ program = "collector"
  /\ <>[][appIds' = appIds]_vars /\ [](~Stopping)
  => <>[](appCollectors = appIds \cap AppShard)

\* What can keep a program from stopping when it is told to.  In the collector, which
\* ends the goroutine that receives metrics before those that send them: a collector
\* with a metric to send.  In the gateway: an emitter without a connection, or the
\* dispatcher that waits for room in the buffer of an emitter that does not run, because
\* it was stopped before the dispatcher or never got its connection.
CannotStop ==
  \/ /\ program = "collector" /\ pc[Saver] = "ended"
     /\ \E a \in appCollectors : out[Of(a)] # <<>>
  \/ pc[Main] = "panic"
  \/ /\ program = "gateway" /\ out[Dispatcher] # <<>>
     /\ pc[Emitter(EmitterOf[Head(out[Dispatcher])])] = "ended"

\* Each program stops when it is told to, however full its channels are and whoever
\* is in the middle of sending, unless it is in one of the states above.
ProgramsStop == Stopping ~> Stopped \/ CannotStop

\* While all emitters run and the connection to an app's metrics server breaks no more,
\* what arrives of the app again and again is delivered again and again, whatever the
\* other apps and connections do.
EnvelopesFlow ==
  \A a \in Apps :
    LET i == EmitterOf[a]
    IN  /\ [](program = "gateway" /\ Started = 1 .. Emitters /\ ~Stopping)
        /\ <>[][conn[i] = "open" => conn'[i] = "open"]_vars
        /\ []<><<InGateway(a \in policyApps /\ \E n \in 1 .. Nozzles : Rx(n, a))>>_vars
        => []<><<InGateway(Deliver(i))>>_vars

\* While the event generator runs, an app that keeps its policy and whose metrics are to
\* be had from some time on is measured again and again, and has a cache for what is
\* measured, whatever becomes of the other apps.
AppsAreMeasured ==
  \A a \in AppShard :
    /\ [](program = "aggregator" /\ ~Stopping) /\ <>[](a \in policies)
    /\ <>[][~InAggregator(\E p \in 1 .. Pollers : RetrieveMetric(p, a, FALSE))]_vars
    => []<><<InAggregator(Cached(a))>>_vars
=============================================================================
