------------------------------ MODULE Channels ------------------------------
(***************************************************************************)
(* Goroutines and channels, for the programs that hand metrics on from     *)
(* goroutine to goroutine: Collector, MetricsServer and Gateway.           *)
(*                                                                         *)
(* A goroutine g is a loop around a select: pc[g] says whether it runs and *)
(* out[g] what the branch it is in has still to send.  While out[g] is not *)
(* empty g sees no other channel, its doneChan included.                   *)
(***************************************************************************)
EXTENDS Naturals, Sequences, FiniteSets

CONSTANTS
  Apps,
  AppShard  \* the apps that hash to this node

ASSUME AppsAssumption == IsFiniteSet(Apps) /\ AppShard \subseteq Apps

VARIABLES
  program,  \* the program this is
  pc,       \* each goroutine: "select", "ended"; for main the stage of its Stop
  out,      \* each goroutine: what it has still to send
  chan      \* the contents of the channels with a buffer

channelVars == <<program, pc, out, chan>>

Main      == <<"main">>
Refresher == <<"refresh">>
Saver     == <<"save">>

\* main has been told to stop the others; it has stopped them.
Stopping == pc[Main] # "select"
Stopped  == pc[Main] = "stopped"

\* main and the goroutines gs run, those of later do not run yet.
Goroutines(gs, later) ==
  /\ pc = [g \in {Main} \cup gs \cup later |-> IF g \in later THEN "ended" ELSE "select"]
  /\ out = [g \in DOMAIN pc |-> <<>>]

\* g waits in its select.
Waits(g) == pc[g] = "select" /\ out[g] = <<>>

\* g takes a branch of its select that sends ms.
Begin(g, ms) ==
  /\ Waits(g)
  /\ out' = [out EXCEPT ![g] = ms]
  /\ UNCHANGED <<program, pc, chan>>

\* g sends its next message over the channel c, which has room for size messages.
Put(g, c, size) ==
  /\ out[g] # <<>> /\ Len(chan[c]) < size
  /\ chan' = [chan EXCEPT ![c] = Append(@, Head(out[g]))]
  /\ out' = [out EXCEPT ![g] = Tail(@)]
  /\ UNCHANGED <<program, pc>>

\* g receives the next message of c and goes on to send ms.
Take(g, c, ms) ==
  /\ Waits(g) /\ chan[c] # <<>>
  /\ chan' = [chan EXCEPT ![c] = Tail(@)]
  /\ out' = [out EXCEPT ![g] = ms]
  /\ UNCHANGED <<program, pc>>

\* g hands its next message to h over a channel without a buffer.
Meet(g, h) ==
  /\ out[g] # <<>> /\ Waits(h)
  /\ out' = [out EXCEPT ![g] = Tail(@)]
  /\ UNCHANGED <<program, pc, chan>>

\* g asks h to stop and waits until h sees it: a doneChan has no buffer.
Stop(g, h) ==
  /\ Waits(h)
  /\ pc' = [pc EXCEPT ![h] = "ended"]
  /\ UNCHANGED <<program, out, chan>>

\* A signal makes main stop the goroutines, in the stages that order names.
Signal(order) ==
  /\ pc[Main] = "select"
  /\ pc' = [pc EXCEPT ![Main] = order[1]]
  /\ UNCHANGED <<program, out, chan>>

\* In the k-th stage main stops the goroutines gs, one after the other.
StopStage(order, k, gs) ==
  /\ pc[Main] = order[k]
  /\ LET left == {i \in DOMAIN gs : pc[gs[i]] # "ended"}
     IN  IF left = {}
         THEN pc' = [pc EXCEPT ![Main] = order[k + 1]] /\ UNCHANGED <<program, out, chan>>
         ELSE \E i \in left : (\A j \in left : i <= j) /\ Stop(Main, gs[i])
=============================================================================
