-------------------------- MODULE MCScalingEngine --------------------------
(***************************************************************************)
(* Small instances of ScalingEngine.                                       *)
(***************************************************************************)
EXTENDS ScalingEngine, TLC

\* An app with a mutex of its own, and apps whose ids hash to one mutex.
OneLock == [a \in App |-> CHOOSE m \in Stripe : TRUE]

\* Two schedules with no size in common, one without an initial minimum.
Day   == [id |-> "day",   min |-> 2, max |-> 2, initial |-> 0]
Night == [id |-> "night", min |-> 1, max |-> 1, initial |-> 1]
DayOnly     == {Day}
DayAndNight == {Day, Night}

\* Policies that want what one of the schedules does not want.
Low  == [min |-> 1, max |-> 1]
High == [min |-> 2, max |-> 2]
LowOnly  == {Low}
HighOnly == {High}

Grow   == [adjustment |-> [unit |-> "percent", value |-> 50], coolDown |-> 1]
Shrink == [adjustment |-> [unit |-> "step", value |-> -2], coolDown |-> 0]
GrowOnly   == {Grow}
ShrinkOnly == {Shrink}

\* Workers are interchangeable (for runs that check no liveness).
WorkerSymmetry == Permutations(Worker)
=============================================================================
