---------------------------- MODULE MetricsServer ----------------------------
(***************************************************************************)
(* The metrics server: envelopes arrive over web sockets and are shared    *)
(* out among the processors by app; the processors turn them into metrics  *)
(* and count requests, and one goroutine takes all metrics to the cache    *)
(* and, in bulk, to the database.                                          *)
(***************************************************************************)
EXTENDS Channels, SequencesExt

CONSTANTS
  Processors,      \* how many there are
  ProcessorOf,     \* the processor an app hashes to
  EnvelopeChannelSize, MetricChannelSize

VARIABLES
  appIDs,          \* the apps of this node that have a policy
  numRequests      \* the apps whose requests a processor has counted since its last report

serverVars == <<appIDs, numRequests>>

MetricChan == <<"metrics">>
Proc(i)    == <<"processor", i>>

Procs == [i \in 1 .. Processors |-> Proc(i)]

NoRequests == [i \in 1 .. Processors |-> {}]

ServerInit ==
  /\ program = "server"
  /\ Goroutines({Refresher, Saver} \cup ToSet(Procs), {})
  /\ chan = [c \in {MetricChan} \cup ToSet(Procs) |-> <<>>]
  /\ appIDs = {} /\ numRequests = NoRequests

ServerOff == appIDs = {} /\ numRequests = NoRequests
-----------------------------------------------------------------------------
\* An envelope of the web socket: its reader waits while the channel is full.
Arrive(a, kind) ==
  /\ Len(chan[Proc(ProcessorOf[a])]) < EnvelopeChannelSize
  /\ chan' = [chan EXCEPT ![Proc(ProcessorOf[a])] = Append(@, [app |-> a, kind |-> kind])]
  /\ UNCHANGED <<program, pc, out, serverVars>>

\* A gauge gives some metrics, of the container or custom ones; a timer is a request.
ProcessEnvelope(i) ==
  /\ chan[Proc(i)] # <<>>
  /\ LET e == Head(chan[Proc(i)])
     IN  \/ /\ e.kind = "gauge"
            /\ \E n \in 0 .. 2 : Take(Proc(i), Proc(i), [k \in 1 .. n |-> e.app])
            /\ UNCHANGED numRequests
         \/ /\ e.kind = "timer"
            /\ Take(Proc(i), Proc(i), <<>>)
            /\ numRequests' = [numRequests EXCEPT ![i] = @ \cup {e.app}]
  /\ UNCHANGED appIDs

\* The ticker.  An app with requests gets a throughput and a response time, an app
\* without any a throughput of 0 from the processor it hashes to.
ComputeAndSaveMetrics(i) ==
  LET busy == SetToSeq(appIDs \cap numRequests[i])
      idle == SetToSeq({a \in appIDs \ numRequests[i] : ProcessorOf[a] = i})
  IN  /\ Begin(Proc(i), busy \o busy \o idle)
      /\ numRequests' = [numRequests EXCEPT ![i] = {}]
      /\ UNCHANGED appIDs

PutMetric(i) == Put(Proc(i), MetricChan, MetricChannelSize) /\ UNCHANGED serverVars

SaveMetric == Take(Saver, MetricChan, <<>>) /\ UNCHANGED serverVars

RefreshAppIDs ==
  /\ Waits(Refresher)
  /\ appIDs' \in SUBSET Apps \ {appIDs}
  /\ UNCHANGED <<channelVars, numRequests>>

\* mutant: the collector is stopped before the processors that send to it.
ServerOrder_CollectorFirst == <<"collector", "processors", "stopped">>

ServerOrder == <<"processors", "collector", "stopped">>

StopServer ==
  /\ \E k \in 1 .. 2 :
       StopStage(ServerOrder, k,
                 IF ServerOrder[k] = "processors" THEN Procs ELSE <<Refresher, Saver>>)
  /\ UNCHANGED serverVars

ServerNext ==
  \/ RefreshAppIDs \/ SaveMetric \/ StopServer
  \/ (Signal(ServerOrder) /\ UNCHANGED serverVars)
  \/ \E a \in Apps, kind \in {"gauge", "timer"} : Arrive(a, kind)
  \/ \E i \in 1 .. Processors : ProcessEnvelope(i) \/ ComputeAndSaveMetrics(i) \/ PutMetric(i)
=============================================================================
