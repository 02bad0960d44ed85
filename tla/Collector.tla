------------------------------ MODULE Collector ------------------------------
(***************************************************************************)
(* The metrics collector: a goroutine for each app of this node's shard    *)
(* that polls or streams its metrics (an AppCollector), one that keeps     *)
(* them in step with the policies, and one that saves the metrics.  The    *)
(* metrics are persisted; the caches of the apps are in TSDCache.          *)
(***************************************************************************)
EXTENDS Channels, SequencesExt


VARIABLES
  appIds,          \* the apps with a policy, in the policy database
  appCollectors,   \* the apps with a collector
  refresh          \* the collectors that refreshApps has still to stop and to start

collectorVars == <<appIds, appCollectors, refresh>>

Of(a) == <<"app", a>>

NoRefresh == [stop |-> {}, start |-> {}]

CollectorInit ==
  /\ program = "collector"
  /\ Goroutines({Refresher, Saver}, {Of(a) : a \in Apps})
  /\ chan = <<>>
  /\ appIds \in SUBSET Apps
  /\ appCollectors = {} /\ refresh = NoRefresh

CollectorOff == appIds = {} /\ appCollectors = {} /\ refresh = NoRefresh
-----------------------------------------------------------------------------
(* refreshApps.  It holds the lock of appCollectors while it waits for a    *)
(* collector to stop, which delays queries; Stop takes the lock when the    *)
(* refresher has ended.  A database that does not answer changes nothing.   *)

ReadApps ==
  /\ Waits(Refresher) /\ refresh = NoRefresh
  /\ LET apps == appIds \cap AppShard
     IN  refresh' = [stop |-> appCollectors \ apps, start |-> apps \ appCollectors]
  /\ UNCHANGED <<channelVars, appIds, appCollectors>>

\* mutant: the collector of an app is told to stop, and not waited for.
StopApp_Early(a) ==
  /\ refresh' = [refresh EXCEPT !.stop = @ \ {a}]
  /\ appCollectors' = appCollectors \ {a}
  /\ UNCHANGED <<channelVars, appIds>>

StopApp(a) ==
  /\ Stop(Refresher, Of(a))
  /\ refresh' = [refresh EXCEPT !.stop = @ \ {a}]
  /\ appCollectors' = appCollectors \ {a}
  /\ UNCHANGED appIds

StartApp(a) ==
  /\ refresh.stop = {}
  /\ pc' = [pc EXCEPT ![Of(a)] = "select"]
  /\ refresh' = [refresh EXCEPT !.start = @ \ {a}]
  /\ appCollectors' = appCollectors \cup {a}
  /\ UNCHANGED <<program, out, chan, appIds>>

Refresh ==
  \/ ReadApps
  \/ \E a \in refresh.stop : StopApp(a)
  \/ \E a \in refresh.start : StartApp(a)
-----------------------------------------------------------------------------
\* The AppCollector of a has n metrics to hand on.
Metrics(a, n) == Begin(Of(a), [i \in 1 .. n |-> a]) /\ UNCHANGED collectorVars

\* A poller has one for each instance; a streamer has one for an event, and sums up an
\* interval in one if there was no request, else in two for each instance.
PollMetric(a) == \E n \in 1 .. 2 : Metrics(a, n)

ProcessEvent(a) == Metrics(a, 1)

SumUp(a) == \E n \in 1 .. 2 : Metrics(a, n)

Collect(a) == PollMetric(a) \/ ProcessEvent(a) \/ SumUp(a)

\* mutant: the goroutine that saves the metrics takes none while a refresh is under way.
Save_NoRefresh(a) == refresh = NoRefresh /\ Meet(Of(a), Saver) /\ UNCHANGED collectorVars

\* dataChan
Save(a) == Meet(Of(a), Saver) /\ UNCHANGED collectorVars

CollectorOrder == <<"refresh", "save", "apps", "stopped">>

StopCollector ==
  /\ pc[Main] = "refresh" => refresh = NoRefresh
  /\ \E k \in 1 .. 3 :
       StopStage(CollectorOrder, k,
                 <<<<Refresher>>, <<Saver>>, SetToSeq({Of(a) : a \in appCollectors})>>[k])
  /\ UNCHANGED collectorVars

\* The users of the API.
ChangeApps ==
  /\ appIds' \in SUBSET Apps \ {appIds}
  /\ UNCHANGED <<channelVars, appCollectors, refresh>>

CollectorNext ==
  \/ Refresh \/ StopCollector \/ ChangeApps
  \/ (Signal(CollectorOrder) /\ UNCHANGED collectorVars)
  \/ \E a \in Apps : Collect(a) \/ Save(a)
=============================================================================
