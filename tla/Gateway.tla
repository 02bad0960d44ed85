------------------------------- MODULE Gateway -------------------------------
(***************************************************************************)
(* The metrics gateway: nozzles take the envelopes of all apps from        *)
(* Loggregator and pass on those of the apps with a policy, the dispatcher *)
(* gives them to the emitter of their app, and each emitter writes them to *)
(* the web socket of one metrics server.                                   *)
(***************************************************************************)
EXTENDS Channels, SequencesExt

CONSTANTS
  Nozzles, Emitters,       \* how many there are
  EmitterOf,               \* the emitter an app hashes to
  EnvelopChanSize, BufferSize

VARIABLES
  policyApps,              \* the apps with a policy, as AppManager knows them
  conn,                    \* the connection of each emitter: "open", "broken", "none"
  closed                   \* how many of them main has closed, to stop their emitters

gatewayVars == <<policyApps, conn, closed>>

EnvelopChan == <<"envelopes">>
Dispatcher  == <<"dispatcher">>
Nozzle(n)   == <<"nozzle", n>>
Emitter(i)  == <<"emitter", i>>

Started == {i \in 1 .. Emitters : conn[i] # "none"}

\* An emitter that does not get its connection is not started, and nobody hears of it.
GatewayInit ==
  /\ program = "gateway"
  /\ conn \in [1 .. Emitters -> {"open", "none"}]
  /\ Goroutines({Dispatcher} \cup {Nozzle(n) : n \in 1 .. Nozzles} \cup {Emitter(i) : i \in Started},
                {Emitter(i) : i \in 1 .. Emitters \ Started})
  /\ chan = [c \in {EnvelopChan} \cup {Emitter(i) : i \in 1 .. Emitters} |-> <<>>]
  /\ policyApps = {} /\ closed = 0

GatewayOff == policyApps = {} /\ conn = [i \in 1 .. Emitters |-> "none"] /\ closed = 0
-----------------------------------------------------------------------------
\* A nozzle looks for the signal to stop before it waits for the next envelopes,
\* and only then.
Listen(n) ==
  /\ Waits(Nozzle(n))
  /\ pc' = [pc EXCEPT ![Nozzle(n)] = "rx"]
  /\ UNCHANGED <<program, out, chan, gatewayVars>>

\* filterEnvelopes
Rx(n, a) ==
  /\ pc[Nozzle(n)] = "rx"
  /\ pc' = [pc EXCEPT ![Nozzle(n)] = "select"]
  /\ out' = [out EXCEPT ![Nozzle(n)] = IF a \in policyApps THEN <<a>> ELSE <<>>]
  /\ UNCHANGED <<program, chan, gatewayVars>>

PutEnvelope(n) == Put(Nozzle(n), EnvelopChan, EnvelopChanSize) /\ UNCHANGED gatewayVars

Dispatch ==
  /\ chan[EnvelopChan] # <<>>
  /\ Take(Dispatcher, EnvelopChan, <<Head(chan[EnvelopChan])>>)
  /\ UNCHANGED gatewayVars

\* Accept waits while the buffer of the emitter is full.
Accept ==
  /\ out[Dispatcher] # <<>>
  /\ Put(Dispatcher, Emitter(EmitterOf[Head(out[Dispatcher])]), BufferSize)
  /\ UNCHANGED gatewayVars
-----------------------------------------------------------------------------
(* An emitter and its WSHelper *)

\* mutant: a connection that broke is left as it is.
Reconnect_Never(i, new) == new = conn[i] /\ UNCHANGED conn

\* reconnect: as many attempts as are allowed, all of which may fail.
Reconnect(i, new) == new \in {"open", "broken"} /\ conn' = [conn EXCEPT ![i] = new]

\* Emit.  The envelope that meets a broken connection is lost.
Write(i, new) ==
  /\ Take(Emitter(i), Emitter(i), <<>>)
  /\ IF conn[i] = "open" THEN new = "open" /\ UNCHANGED conn ELSE Reconnect(i, new)
  /\ UNCHANGED <<policyApps, closed>>

\* An envelope reaches its metrics server.
Deliver(i) == conn[i] = "open" /\ Write(i, "open")

Ping(i, new) ==
  /\ Waits(Emitter(i)) /\ conn[i] = "broken"
  /\ Reconnect(i, new)
  /\ UNCHANGED <<channelVars, policyApps, closed>>

Break(i) ==
  /\ conn[i] = "open"
  /\ conn' = [conn EXCEPT ![i] = "broken"]
  /\ UNCHANGED <<channelVars, policyApps, closed>>

RefreshPolicyApps ==
  /\ policyApps' \in SUBSET Apps \ {policyApps}
  /\ UNCHANGED <<channelVars, conn, closed>>
-----------------------------------------------------------------------------
GatewayOrder == <<"nozzles", "emitters", "dispatcher", "stopped">>

\* Stop of an emitter closes its connection and then waits for it; meanwhile it may
\* have to write, and connects again.
CloseConn(i) ==
  /\ pc[Main] = "emitters" /\ i = closed + 1 /\ conn[i] # "none"
  /\ \A j \in 1 .. closed : pc[Emitter(j)] = "ended"
  /\ conn' = [conn EXCEPT ![i] = "broken"]
  /\ closed' = i
  /\ UNCHANGED <<channelVars, policyApps>>

\* Without a connection that is a nil pointer, and the program is gone.
Panic(i) ==
  /\ pc[Main] = "emitters" /\ i = closed + 1 /\ conn[i] = "none"
  /\ \A j \in 1 .. closed : pc[Emitter(j)] = "ended"
  /\ pc' = [g \in DOMAIN pc |-> IF g = Main THEN "panic" ELSE "ended"]
  /\ UNCHANGED <<program, out, chan, gatewayVars>>

StopEmitter(i) ==
  /\ pc[Main] = "emitters" /\ i = closed
  /\ Stop(Main, Emitter(i))
  /\ UNCHANGED gatewayVars

StopNozzles == StopStage(GatewayOrder, 1, [n \in 1 .. Nozzles |-> Nozzle(n)])
StopDispatcher == StopStage(GatewayOrder, 3, <<Dispatcher>>)

EmittersStopped ==
  /\ closed = Emitters /\ pc[Emitter(closed)] = "ended"
  /\ StopStage(GatewayOrder, 2, <<>>)

StopGateway ==
  \/ (StopNozzles \/ EmittersStopped \/ StopDispatcher) /\ UNCHANGED gatewayVars
  \/ \E i \in 1 .. Emitters : CloseConn(i) \/ Panic(i) \/ StopEmitter(i)

GatewayNext ==
  \/ Dispatch \/ Accept \/ RefreshPolicyApps \/ StopGateway
  \/ (Signal(GatewayOrder) /\ UNCHANGED gatewayVars)
  \/ \E n \in 1 .. Nozzles : Listen(n) \/ PutEnvelope(n) \/ \E a \in Apps : Rx(n, a)
  \/ \E i \in 1 .. Emitters :
       Break(i) \/ \E new \in {"open", "broken"} : Write(i, new) \/ Ping(i, new)
=============================================================================
