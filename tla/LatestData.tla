----------------------------- MODULE LatestData -----------------------------
(***************************************************************************)
(* What a cache of time series data promises: of all the data it was ever  *)
(* given, in whatever order, it keeps the latest, as many as it has room   *)
(* for.  Which it keeps of those with the oldest timestamp is left open,   *)
(* but what it has given up does not come back.                            *)
(***************************************************************************)
EXTENDS Integers, FiniteSets

CONSTANTS
  Data,       \* each with a timestamp
  Capacity

VARIABLES
  all,        \* the data there were
  kept        \* those in the cache

vars == <<all, kept>>

Room(n) == IF n < Capacity THEN n ELSE Capacity

\* S is what to keep of D.
IsLatest(S, D) ==
  /\ S \subseteq D /\ Cardinality(S) = Room(Cardinality(D))
  /\ \A d \in D \ S, e \in S : d.timestamp <= e.timestamp

Init == all = {} /\ kept = {}

Put(d) ==
  /\ d \notin all /\ all' = all \cup {d}
  /\ kept' \subseteq kept \cup {d} /\ IsLatest(kept', all')

Next == \E d \in Data : Put(d)

Spec == Init /\ [][Next]_vars
=============================================================================
