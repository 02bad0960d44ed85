--------------------------- MODULE Pipelines_proofs ---------------------------
(***************************************************************************)
(* Proofs about the metrics collector of Pipelines, for any number of apps *)
(* and any shard of them.                                                  *)
(***************************************************************************)
EXTENDS Pipelines, FiniteSetTheorems, TLAPS

\* The goroutines are different ones.
LEMMA Different ==
  /\ Main # Refresher /\ Main # Saver /\ Refresher # Saver
  /\ \A a \in Apps : Of(a) # Main /\ Of(a) # Refresher /\ Of(a) # Saver
  /\ \A a, b \in Apps : Of(a) = Of(b) => a = b
BY DEF Main, Refresher, Saver, Of

\* The sequence of a finite set has each member once.
LEMMA SetToSeqInjective ==
  ASSUME NEW S, IsFiniteSet(S)
  PROVE  /\ SetToSeq(S) \in [1 .. Cardinality(S) -> S]
         /\ IsInjective(SetToSeq(S))
<1> DEFINE D == 1 .. Cardinality(S)
<1>1. PICK f \in Bijection(D, S) : TRUE
  BY FS_CardinalityType DEF ExistsBijection
<1>2. f \in [D -> S] /\ IsInjective(f)
  BY <1>1 DEF Bijection, Injection
<1> HIDE DEF D
<1>3. SetToSeq(S) = CHOOSE g \in [D -> S] : IsInjective(g)
  BY DEF SetToSeq, D
<1>4. SetToSeq(S) \in [D -> S] /\ IsInjective(SetToSeq(S))
  BY <1>2, <1>3
<1> QED
  BY <1>4 DEF D

\* It leaves none of them out.
LEMMA SetToSeqHasAll ==
  ASSUME NEW S, IsFiniteSet(S), NEW x \in S
  PROVE  \E i \in DOMAIN SetToSeq(S) : SetToSeq(S)[i] = x
<1> DEFINE D == 1 .. Cardinality(S)
           s == SetToSeq(S)
<1>1. s \in Injection(D, S)
  BY SetToSeqInjective DEF Injection
<1>2. IsFiniteSet(D) /\ Cardinality(D) = Cardinality(S)
  BY FS_CardinalityType, FS_Interval
<1>3. s \in Surjection(D, S)
  <2> HIDE DEF s, D
  <2> QED
    BY <1>1, <1>2, FS_Injection
<1>4. s \in [D -> S] /\ \E i \in D : s[i] = x
  <2> HIDE DEF s, D
  <2> QED
    BY <1>3 DEF Surjection
<1> QED
  BY <1>4

\* And has nothing else.
LEMMA SetToSeqIn ==
  ASSUME NEW S, IsFiniteSet(S), NEW i \in DOMAIN SetToSeq(S)
  PROVE  SetToSeq(S)[i] \in S
<1>1. SetToSeq(S) \in [1 .. Cardinality(S) -> S]
  BY SetToSeqInjective
<1> QED
  BY <1>1

\* No program turns into another.
LEMMA ProgramStays == [Next]_vars => program' = program
<1> SUFFICES ASSUME [Next]_vars PROVE program' = program
  OBVIOUS
<1>1. /\ \A g, ms : Begin(g, ms) => program' = program
      /\ \A g, c, size : Put(g, c, size) => program' = program
      /\ \A g, c, ms : Take(g, c, ms) => program' = program
      /\ \A g, h : Meet(g, h) \/ Stop(g, h) => program' = program
  BY DEF Begin, Put, Take, Meet, Stop
<1>2. /\ \A order : Signal(order) => program' = program
      /\ \A order, k, gs : StopStage(order, k, gs) => program' = program
  BY <1>1 DEF Signal, StopStage
<1>3. CollectorNext => program' = program
  BY <1>1, <1>2 DEF CollectorNext, Refresh, ReadApps, StopApp, StartApp, StopCollector, ChangeApps,
     Collect, PollMetric, ProcessEvent, SumUp, Metrics, Save, channelVars
<1>4. ServerNext => program' = program
  BY <1>1, <1>2 DEF ServerNext, RefreshAppIDs, SaveMetric, StopServer, Arrive, ProcessEnvelope,
     ComputeAndSaveMetrics, PutMetric, channelVars
<1>5. StopGateway => program' = program
  BY <1>1, <1>2 DEF StopGateway, StopNozzles, EmittersStopped, StopDispatcher, CloseConn, Panic,
     StopEmitter, channelVars
<1>6. GatewayNext => program' = program
  BY <1>1, <1>2, <1>5 DEF GatewayNext, Dispatch, Accept, RefreshPolicyApps, Listen, PutEnvelope, Rx,
     Break, Write, Ping, channelVars
<1>7. AggregatorNext => program' = program
  BY <1>1, <1>2 DEF AggregatorNext, RetrievePolicies, RefreshMetricCache, AskForMetrics, PutMonitor,
     ChangePolicies, CloseDoneChans, PutAppMetric, RetrieveMetric, SaveAppMetric, SeeDone, channelVars
<1> QED
  BY <1>3, <1>4, <1>6, <1>7 DEF Next, InCollector, InServer, InGateway, InAggregator, vars, channelVars
-----------------------------------------------------------------------------
Invariant == CollectorTypeOK /\ RefreshKnows /\ StagesKnow /\ (program = "collector" /\ NoOrphan)

\* Stop ends one goroutine and leaves the others where they are.
LEMMA StopEnds ==
  ASSUME CollectorTypeOK, NEW g \in CollectorGoroutines, NEW h, Stop(h, g)
  PROVE  /\ pc' \in [CollectorGoroutines -> {"select", "refresh", "save", "apps", "stopped", "ended"}]
         /\ pc[g] = "select" /\ pc'[g] = "ended"
         /\ \A f \in CollectorGoroutines : f # g => pc'[f] = pc[f]
BY DEF CollectorTypeOK, Stop, Waits

LEMMA ReadAppsInvariant == Invariant /\ ReadApps => Invariant'
<1> SUFFICES ASSUME Invariant, ReadApps PROVE Invariant'
  OBVIOUS
<1>1. pc' = pc /\ program' = program /\ appIds' = appIds /\ appCollectors' = appCollectors
  BY DEF ReadApps, channelVars
<1>2. /\ refresh' \in [stop : SUBSET Apps, start : SUBSET Apps]
      /\ refresh'.stop \subseteq appCollectors /\ refresh'.start \cap appCollectors = {}
  BY DEF ReadApps, Invariant, CollectorTypeOK
<1>3. pc[Refresher] # "ended"
  BY DEF ReadApps, Waits
<1> QED
  BY <1>1, <1>2, <1>3 DEF Invariant, CollectorTypeOK, RefreshKnows, StagesKnow, NoOrphan, Stopped

LEMMA StopAppInvariant ==
  ASSUME Invariant, NEW a \in refresh.stop, StopApp(a)
  PROVE  Invariant'
<1>1. a \in Apps /\ Of(a) \in CollectorGoroutines
  BY DEF Invariant, CollectorTypeOK, CollectorGoroutines
<1>2. /\ pc' \in [CollectorGoroutines -> {"select", "refresh", "save", "apps", "stopped", "ended"}]
      /\ pc'[Of(a)] = "ended" /\ \A f \in CollectorGoroutines : f # Of(a) => pc'[f] = pc[f]
  BY <1>1, StopEnds DEF StopApp, Invariant
<1>3. /\ pc'[Main] = pc[Main] /\ pc'[Refresher] = pc[Refresher] /\ pc'[Saver] = pc[Saver]
      /\ \A b \in Apps : b # a => pc'[Of(b)] = pc[Of(b)]
  BY <1>1, <1>2, Different DEF CollectorGoroutines
<1>4. /\ refresh' \in [stop : SUBSET Apps, start : SUBSET Apps]
      /\ refresh'.stop = refresh.stop \ {a} /\ refresh'.start = refresh.start
      /\ appCollectors' = appCollectors \ {a}
  BY DEF StopApp, Invariant, CollectorTypeOK
<1>5. program' = program /\ appIds' = appIds
  BY DEF StopApp, Stop
<1>6. pc[Refresher] # "ended"
  BY DEF Invariant, StagesKnow, NoRefresh
<1>7. CollectorTypeOK' /\ RefreshKnows'
  BY <1>2, <1>4, <1>5 DEF Invariant, CollectorTypeOK, RefreshKnows
<1>8. StagesKnow' /\ NoOrphan'
  BY <1>1, <1>2, <1>3, <1>4, <1>5, <1>6 DEF Invariant, CollectorTypeOK, StagesKnow, NoOrphan, Stopped
<1> QED
  BY <1>5, <1>7, <1>8 DEF Invariant

LEMMA StartAppInvariant ==
  ASSUME Invariant, NEW a \in refresh.start, StartApp(a)
  PROVE  Invariant'
<1>1. a \in Apps /\ Of(a) \in CollectorGoroutines
  BY DEF Invariant, CollectorTypeOK, CollectorGoroutines
<1>2. /\ pc' \in [CollectorGoroutines -> {"select", "refresh", "save", "apps", "stopped", "ended"}]
      /\ pc'[Of(a)] = "select" /\ \A f \in CollectorGoroutines : f # Of(a) => pc'[f] = pc[f]
  BY <1>1 DEF StartApp, Invariant, CollectorTypeOK
<1>3. /\ pc'[Main] = pc[Main] /\ pc'[Refresher] = pc[Refresher] /\ pc'[Saver] = pc[Saver]
      /\ \A b \in Apps : b # a => pc'[Of(b)] = pc[Of(b)]
  BY <1>1, <1>2, Different DEF CollectorGoroutines
<1>4. /\ refresh' \in [stop : SUBSET Apps, start : SUBSET Apps]
      /\ refresh'.stop = refresh.stop /\ refresh'.start = refresh.start \ {a}
      /\ refresh.stop = {} /\ appCollectors' = appCollectors \cup {a}
  BY DEF StartApp, Invariant, CollectorTypeOK
<1>5. program' = program /\ appIds' = appIds
  BY DEF StartApp
<1>6. pc[Refresher] # "ended"
  BY DEF Invariant, StagesKnow, NoRefresh
<1>7. pc[Main] \in {"select", "refresh", "save", "apps", "stopped", "ended"} /\ ~Stopped /\ pc[Main] # "apps"
  BY <1>6 DEF Invariant, CollectorTypeOK, StagesKnow, CollectorGoroutines, Stopped
<1>8. CollectorTypeOK' /\ RefreshKnows'
  BY <1>1, <1>2, <1>4, <1>5 DEF Invariant, CollectorTypeOK, RefreshKnows
<1>9. StagesKnow' /\ NoOrphan'
  BY <1>1, <1>2, <1>3, <1>4, <1>5, <1>6, <1>7 DEF Invariant, CollectorTypeOK, StagesKnow, NoOrphan, Stopped
<1> QED
  BY <1>5, <1>8, <1>9 DEF Invariant

\* A step that leaves the places of the goroutines and the map alone.
LEMMA QuietInvariant ==
  ASSUME Invariant, UNCHANGED <<program, pc, appCollectors, refresh>>, appIds' \subseteq Apps
  PROVE  Invariant'
BY DEF Invariant, CollectorTypeOK, RefreshKnows, StagesKnow, NoOrphan, Stopped

LEMMA SignalInvariant ==
  ASSUME Invariant, Signal(CollectorOrder), UNCHANGED collectorVars
  PROVE  Invariant'
<1>1. Main \in CollectorGoroutines /\ CollectorOrder[1] = "refresh"
  BY DEF CollectorGoroutines, CollectorOrder
<1>2. /\ pc' \in [CollectorGoroutines -> {"select", "refresh", "save", "apps", "stopped", "ended"}]
      /\ pc[Main] = "select" /\ pc'[Main] = "refresh"
      /\ \A f \in CollectorGoroutines : f # Main => pc'[f] = pc[f]
  BY <1>1 DEF Signal, Invariant, CollectorTypeOK
<1>3. /\ pc'[Refresher] = pc[Refresher] /\ pc'[Saver] = pc[Saver]
      /\ \A b \in Apps : pc'[Of(b)] = pc[Of(b)]
  BY <1>2, Different DEF CollectorGoroutines
<1>4. program' = program /\ appIds' = appIds /\ appCollectors' = appCollectors /\ refresh' = refresh
  BY DEF Signal, collectorVars
<1> QED
  BY <1>2, <1>3, <1>4 DEF Invariant, CollectorTypeOK, RefreshKnows, StagesKnow, NoOrphan, Stopped

LEMMA FinitelyMany ==
  ASSUME Invariant
  PROVE  IsFiniteSet({Of(a) : a \in appCollectors})
<1> DEFINE f == [a \in appCollectors |-> Of(a)]
<1>1. IsFiniteSet(appCollectors)
  BY AppsAssumption, FS_Subset DEF Invariant, CollectorTypeOK
<1>2. f \in Surjection(appCollectors, {Of(a) : a \in appCollectors})
  BY DEF Surjection
<1> QED
  BY <1>1, <1>2, FS_Surjection

\* Stop goes on to its next stage only when the goroutines of this one have ended.
LEMMA StageInvariant ==
  ASSUME Invariant, NEW k \in 1 .. 3, NEW gs,
         gs = <<<<Refresher>>, <<Saver>>, SetToSeq({Of(a) : a \in appCollectors})>>[k],
         pc[Main] = "refresh" => refresh = NoRefresh,
         StopStage(CollectorOrder, k, gs), UNCHANGED collectorVars
  PROVE  Invariant'
<1> DEFINE left == {i \in DOMAIN gs : pc[gs[i]] # "ended"}
<1>1. /\ CollectorOrder[1] = "refresh" /\ CollectorOrder[2] = "save"
      /\ CollectorOrder[3] = "apps" /\ CollectorOrder[4] = "stopped"
  BY DEF CollectorOrder
<1>2. program' = program /\ appIds' = appIds /\ appCollectors' = appCollectors /\ refresh' = refresh
  BY DEF StopStage, Stop, collectorVars
<1>3. pc[Main] = CollectorOrder[k]
  BY DEF StopStage
<1>4. CASE left = {}
  <2>1. pc' = [pc EXCEPT ![Main] = CollectorOrder[k + 1]]
    BY <1>4 DEF StopStage
  <2>2. /\ pc' \in [CollectorGoroutines -> {"select", "refresh", "save", "apps", "stopped", "ended"}]
        /\ pc'[Main] = CollectorOrder[k + 1]
        /\ \A f \in CollectorGoroutines : f # Main => pc'[f] = pc[f]
    BY <1>1, <2>1 DEF Invariant, CollectorTypeOK, CollectorGoroutines
  <2>3. /\ pc'[Refresher] = pc[Refresher] /\ pc'[Saver] = pc[Saver]
        /\ \A b \in Apps : pc'[Of(b)] = pc[Of(b)]
    BY <2>2, Different DEF CollectorGoroutines
  <2>4. \A i \in DOMAIN gs : pc[gs[i]] = "ended"
    BY <1>4
  <2>5. CASE k = 1
    <3>1. gs = <<Refresher>>
      BY <2>5
    <3>2. pc[Refresher] = "ended"
      <4>1. 1 \in DOMAIN gs /\ gs[1] = Refresher
        BY <3>1
      <4> QED
        BY <2>4, <4>1
    <3> QED
      BY <1>1, <1>2, <1>3, <2>2, <2>3, <2>5, <3>2
         DEF Invariant, CollectorTypeOK, RefreshKnows, StagesKnow, NoOrphan, Stopped
  <2>6. CASE k = 2
    <3>1. gs = <<Saver>>
      BY <2>6
    <3>2. pc[Saver] = "ended"
      <4>1. 1 \in DOMAIN gs /\ gs[1] = Saver
        BY <3>1
      <4> QED
        BY <2>4, <4>1
    <3> QED
      BY <1>1, <1>2, <1>3, <2>2, <2>3, <2>6, <3>2
         DEF Invariant, CollectorTypeOK, RefreshKnows, StagesKnow, NoOrphan, Stopped
  <2>7. CASE k = 3
    <3>1. gs = SetToSeq({Of(a) : a \in appCollectors})
      BY <2>7
    <3>2. IsFiniteSet({Of(a) : a \in appCollectors})
      BY FinitelyMany
    <3>3. ASSUME NEW a \in appCollectors PROVE pc[Of(a)] = "ended"
      <4> DEFINE S == {Of(b) : b \in appCollectors}
      <4>1. PICK i \in DOMAIN gs : gs[i] = Of(a)
        <5>1. Of(a) \in S
          OBVIOUS
        <5> HIDE DEF S
        <5>2. \E i \in DOMAIN SetToSeq(S) : SetToSeq(S)[i] = Of(a)
          BY <3>2, <5>1, SetToSeqHasAll DEF S
        <5> QED
          BY <3>1, <5>2 DEF S
      <4> QED
        BY <2>4, <4>1
    <3>4. \A a \in Apps : pc[Of(a)] # "select"
      BY <3>3 DEF Invariant, NoOrphan
    <3> QED
      BY <1>1, <1>2, <1>3, <2>2, <2>3, <2>7, <3>4
         DEF Invariant, CollectorTypeOK, RefreshKnows, StagesKnow, NoOrphan, Stopped
  <2> QED
    BY <2>5, <2>6, <2>7
<1>5. CASE left # {}
  <2>1. PICK i \in left : Stop(Main, gs[i])
    BY <1>5 DEF StopStage
  <2>2. CASE k = 1
    <3>1. gs[i] = Refresher /\ Refresher \in CollectorGoroutines
      BY <2>1, <2>2 DEF CollectorGoroutines
    <3>2. /\ pc' \in [CollectorGoroutines -> {"select", "refresh", "save", "apps", "stopped", "ended"}]
          /\ pc'[Refresher] = "ended"
          /\ \A f \in CollectorGoroutines : f # Refresher => pc'[f] = pc[f]
      BY <2>1, <3>1, StopEnds DEF Invariant
    <3>3. /\ pc'[Main] = pc[Main] /\ pc'[Saver] = pc[Saver]
          /\ \A b \in Apps : pc'[Of(b)] = pc[Of(b)]
      BY <3>2, Different DEF CollectorGoroutines
    <3> QED
      BY <1>1, <1>2, <1>3, <2>2, <3>2, <3>3
         DEF Invariant, CollectorTypeOK, RefreshKnows, StagesKnow, NoOrphan, Stopped
  <2>3. CASE k = 2
    <3>1. gs[i] = Saver /\ Saver \in CollectorGoroutines
      BY <2>1, <2>3 DEF CollectorGoroutines
    <3>2. /\ pc' \in [CollectorGoroutines -> {"select", "refresh", "save", "apps", "stopped", "ended"}]
          /\ pc'[Saver] = "ended"
          /\ \A f \in CollectorGoroutines : f # Saver => pc'[f] = pc[f]
      BY <2>1, <3>1, StopEnds DEF Invariant
    <3>3. /\ pc'[Main] = pc[Main] /\ pc'[Refresher] = pc[Refresher]
          /\ \A b \in Apps : pc'[Of(b)] = pc[Of(b)]
      BY <3>2, Different DEF CollectorGoroutines
    <3> QED
      BY <1>1, <1>2, <1>3, <2>3, <3>2, <3>3
         DEF Invariant, CollectorTypeOK, RefreshKnows, StagesKnow, NoOrphan, Stopped
  <2>4. CASE k = 3
    <3>1. PICK a \in appCollectors : gs[i] = Of(a)
      <4>1. gs = SetToSeq({Of(a) : a \in appCollectors})
        BY <2>4
      <4>2. gs[i] \in {Of(a) : a \in appCollectors}
        BY <2>1, <4>1, FinitelyMany, SetToSeqIn
      <4> QED
        BY <4>2
    <3>2. a \in Apps /\ Of(a) \in CollectorGoroutines
      BY DEF Invariant, CollectorTypeOK, CollectorGoroutines
    <3>3. /\ pc' \in [CollectorGoroutines -> {"select", "refresh", "save", "apps", "stopped", "ended"}]
          /\ pc'[Of(a)] = "ended"
          /\ \A f \in CollectorGoroutines : f # Of(a) => pc'[f] = pc[f]
      BY <2>1, <3>1, <3>2, StopEnds DEF Invariant
    <3>4. /\ pc'[Main] = pc[Main] /\ pc'[Saver] = pc[Saver] /\ pc'[Refresher] = pc[Refresher]
          /\ \A b \in Apps : b # a => pc'[Of(b)] = pc[Of(b)]
      BY <3>2, <3>3, Different DEF CollectorGoroutines
    <3> QED
      BY <1>1, <1>2, <1>3, <2>4, <3>3, <3>4
         DEF Invariant, CollectorTypeOK, RefreshKnows, StagesKnow, NoOrphan, Stopped
  <2> QED
    BY <2>2, <2>3, <2>4
<1> QED
  BY <1>4, <1>5

LEMMA CollectorStep ==
  ASSUME Invariant, CollectorNext
  PROVE  Invariant'
<1>1. CASE Refresh
  BY <1>1, ReadAppsInvariant, StopAppInvariant, StartAppInvariant DEF Refresh
<1>2. CASE StopCollector
  BY <1>2, StageInvariant DEF StopCollector
<1>3. CASE ChangeApps
  BY <1>3, QuietInvariant DEF ChangeApps, channelVars
<1>4. CASE Signal(CollectorOrder) /\ UNCHANGED collectorVars
  BY <1>4, SignalInvariant
<1>5. ASSUME NEW a \in Apps, Collect(a) \/ Save(a)
      PROVE  Invariant'
  <2>1. UNCHANGED <<program, pc, appCollectors, refresh, appIds>>
    BY <1>5 DEF Collect, PollMetric, ProcessEvent, SumUp, Metrics, Save, Begin, Meet, collectorVars
  <2> QED
    BY <2>1, QuietInvariant DEF Invariant, CollectorTypeOK
<1> QED
  BY <1>1, <1>2, <1>3, <1>4, <1>5 DEF CollectorNext

\* The collector's map names exactly the goroutines that collect, until the program
\* stops, and when Stop has returned none of them runs.
THEOREM CollectorsAreKnown == Spec => []CollectorInvariant
<1>1. Init => CollectorInvariant
  <2>1. CASE CollectorInit
    <3>1. pc = [g \in CollectorGoroutines |->
                  IF g \in {Of(a) : a \in Apps} THEN "ended" ELSE "select"]
      BY <2>1 DEF CollectorInit, Goroutines, CollectorGoroutines
    <3>2. /\ pc[Main] = "select" /\ pc[Refresher] = "select" /\ pc[Saver] = "select"
          /\ \A a \in Apps : pc[Of(a)] = "ended"
      BY <3>1, Different DEF CollectorGoroutines
    <3> QED
      BY <2>1, <3>1, <3>2 DEF CollectorInit, CollectorInvariant, CollectorTypeOK, RefreshKnows,
                              StagesKnow, NoOrphan, Stopped, NoRefresh
  <2>2. CASE program # "collector"
    BY <2>2 DEF CollectorInvariant
  <2> QED
    BY <2>1, <2>2 DEF Init, ServerInit, GatewayInit, AggregatorInit
<1>2. CollectorInvariant /\ [Next]_vars => CollectorInvariant'
  <2> SUFFICES ASSUME CollectorInvariant, [Next]_vars, program' = "collector"
               PROVE  CollectorInvariant'
    BY DEF CollectorInvariant
  <2>1. program = "collector"
    BY ProgramStays
  <2>2. Invariant
    BY <2>1 DEF CollectorInvariant, Invariant
  <2>3. CollectorNext \/ UNCHANGED vars
    BY <2>1 DEF Next, InCollector, InServer, InGateway, InAggregator
  <2>4. Invariant'
    <3>1. CASE UNCHANGED vars
      BY <2>2, <3>1, QuietInvariant DEF vars, channelVars, collectorVars, Invariant, CollectorTypeOK
    <3> QED
      BY <2>2, <2>3, <3>1, CollectorStep
  <2> QED
    BY <2>4 DEF CollectorInvariant, Invariant
<1> QED
  BY <1>1, <1>2, PTL DEF Spec

\* No goroutine collects an app unseen, however refreshes, changes of the policies and
\* the stopping of the program overlap.
THEOREM NobodyIsOrphaned == Spec => []NoOrphan
<1>1. CollectorInvariant => NoOrphan
  BY DEF CollectorInvariant, NoOrphan
<1> QED
  BY <1>1, CollectorsAreKnown, PTL
=============================================================================
