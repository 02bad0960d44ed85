----------------------------- MODULE ScalingRule -----------------------------
(***************************************************************************)
(* A scaling rule whose condition keeps holding: it fires again and again, *)
(* each time from the number of instances the last one left behind, within *)
(* the limits of the policy.  This is where a rounding error of            *)
(* ComputeNewInstances would add up.                                       *)
(***************************************************************************)
EXTENDS Integers, Adjustment

CONSTANTS
  Adjustments,  \* the rules
  Sizes,        \* the numbers of instances to start from
  InstanceMin, InstanceMax

ASSUME RuleAssumption ==
  /\ Adjustments \subseteq [unit : {"step", "percent"}, value : Int]
  /\ Sizes \subseteq Nat
  /\ InstanceMin \in Nat /\ InstanceMax \in Nat /\ InstanceMin <= InstanceMax

VARIABLES size, rule

vars == <<size, rule>>

Init == size \in Sizes /\ rule \in Adjustments

Fire ==
  \E n \in ComputeNewInstances(size, rule) :
    /\ size' = Limit(n, InstanceMin, InstanceMax)
    /\ UNCHANGED rule

Next == Fire

Spec == Init /\ [][Next]_vars /\ WF_vars(Next)
-----------------------------------------------------------------------------
Abs(n) == IF n < 0 THEN -n ELSE n

\* The reference definition of a percentage: the whole number nearest to the exact
\* one, half an instance away at most.  Only where that is the number the app already
\* has, and the percentage is not 0, it is one up or down instead: no percentage but
\* 0 leaves the app as it is.  (What lies below 0 ends at the lower limit.)
NearestToExact ==
  LET Nearest(m) == Abs(100 * m - size * (100 + rule.value)) <= 50
      OneOn      == IF rule.value > 0 THEN size + 1 ELSE size - 1
  IN  rule.unit = "percent" /\ rule.value >= -100
        => \A n \in ComputeNewInstances(size, rule) :
             /\ Nearest(n) \/ (Nearest(size) /\ n = OneOn)
             /\ n = size <=> rule.value = 0

\* A firing rule never moves the app against its own direction, once the app is
\* within its limits.
MovesItsWay ==
  [][ InstanceMin <= size /\ size <= InstanceMax
        => /\ rule.value >= 0 => size' >= size
           /\ rule.value <= 0 => size' <= size ]_vars

\* A rule that keeps firing takes the app to its limit, whatever the size of the
\* app and however small the percentage.
ReachesLimit ==
  <>[](\/ rule.value > 0 /\ size = InstanceMax
       \/ rule.value < 0 /\ size = InstanceMin
       \/ rule.value = 0)
=============================================================================
